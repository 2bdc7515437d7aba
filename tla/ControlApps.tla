---------------------------- MODULE ControlApps ----------------------------
(***************************************************************************)
(* service/app_lifecycle.py with the clock in it: which app the control    *)
(* tick pauses, stops or revives, what the memory pressure demotes, and    *)
(* which requests to an app the throttle of start_app lets through.        *)
(*                                                                         *)
(* AppLifecycle has every docker command and the worker; here a call that  *)
(* acts on an app reads the row, freezes or thaws the containers where it  *)
(* does, and ends, and what matters is when it was decided and what a      *)
(* failure in between leaves behind.  Time is counted in ticks of the      *)
(* clock, and a counter that has reached its bound stays there.            *)
(***************************************************************************)
EXTENDS Naturals, FiniteSets, Functions

CONSTANTS
    Apps,          \* installed apps
    Broken,        \* those whose app_meta.json cannot be read
    Lifecycles,    \* the lifecycle sections each app may come with
    PauseSettings, \* settings: the values pause_enabled may have
    LeftBehind,    \* statuses an earlier run may have left an app in
    Unset,         \* an optional field of a lifecycle that is not there
    DefaultPause, DefaultStop,   \* settings: default_idle_for_pause / _stop
    Grace,         \* RECENT_ACCESS_GRACE
    Throttle,      \* throttle(5) of start_app
    MinIdle,       \* smallest idle time a lifecycle may ask for
    MinSize,       \* minimum_portal_size of each app
    Answers,       \* sizes the controller may answer, or
    SelfHosted,    \*   it does not know the shard: the profile is None
    NotStored,     \* no profile has been stored yet
    Pressures,     \* whether PSI is above psi_threshold: the values it takes
    Lows,          \* whether less than 1 GB is free: the values it takes
    Used,          \* apps that receive requests
    MaxIdle        \* bound of the idle counters

ASSUME AppsAssumption ==
    /\ Broken \subseteq Apps /\ IsFiniteSet(Apps)
    /\ {PauseSettings, Pressures, Lows} \subseteq SUBSET BOOLEAN

(* XS, S, M, L and XL in their order.                                      *)
VMSize == 0..4

ASSUME SizesAssumption ==
    MinSize \in [Apps -> VMSize] /\ Answers \subseteq VMSize \cup {SelfHosted}

ASSUME TimesAssumption ==
    {DefaultPause, DefaultStop, Grace, Throttle, MinIdle, MaxIdle} \subseteq Nat

VARIABLES
    meta,       \* the lifecycle section of each app
    pauseEnabled, \* settings: pause_enabled
    row,        \* status of each app
    frozen,     \* apps whose containers are paused
    idle,       \* time since last_access_dict[app]
    since,      \* time since start_app(app) was last let through
    low,        \* current_disk_usage.disk_space_low
    pressure,   \* PSI above psi_threshold
    profile,    \* the vm_size of the stored profile
    tick,       \* the control_apps coroutine
    op,         \* the call by which the tick acts on an app
    wake        \* the start_app task a request created

clockVars == <<idle, since>>

vars == <<meta, pauseEnabled, row, frozen, idle, since, low, pressure, profile, tick, op, wake>>

-----------------------------------------------------------------------------
(* _REVIVABLE_STATUS                                                       *)
Revivable == {"STOPPED", "RUNNING", "DOWN", "PAUSED"}

(* Rows that a failed or cut-off installation or reinstallation leaves.    *)
Stuck == {"ERROR", "INSTALLING", "REINSTALLING"}

ASSUME LeftBehindAssumption == LeftBehind \subseteq Revivable \cup Stuck

(* Lifecycle.validate_combinations.                                        *)
Valid(l) ==
    /\ l.alwaysOn => ~l.skipPause /\ l.idleForPause = Unset /\ l.idleForStop = Unset
    /\ l.skipPause => l.idleForPause = Unset
    /\ l.idleForPause # Unset => l.idleForPause >= MinIdle
    /\ l.idleForStop # Unset => l.idleForStop >= MinIdle
    /\ Unset \notin {l.idleForPause, l.idleForStop} => l.idleForPause < l.idleForStop

Or(x, default) == IF x = Unset THEN default ELSE x

PauseAfter(a) == Or(meta[a].idleForPause, DefaultPause)

StopAfter(a) == Or(meta[a].idleForStop, DefaultStop)

(* size_is_compatible: without a profile (self-hosted) everything fits,    *)
(* before the first refresh_profile nothing does.                          *)
Fits(a) ==
    CASE profile = NotStored -> FALSE
      [] profile = SelfHosted -> TRUE
      [] OTHER -> profile >= MinSize[a]

Readable == Apps \ Broken

Later(n, bound) == IF n < bound THEN n + 1 ELSE n

-----------------------------------------------------------------------------
Rest ==
    [phase |-> "rest", high |-> FALSE, seen |-> [a \in Apps |-> "unseen"], todo |-> {},
     raised |-> FALSE]

NoOp == [kind |-> "none", why |-> "none", at |-> "none"]

Call(kind, why) == [kind |-> kind, why |-> why, at |-> "called"]

(* Rows and containers as earlier runs of the process leave them: always-  *)
(* on apps may be paused or stopped, a pause or a stop may have been cut   *)
(* off half-way, and the flag may have been switched since.                *)
Init ==
    /\ meta \in {m \in [Readable -> UNION Range(Lifecycles)] :
                   \A a \in Readable : m[a] \in Lifecycles[a] /\ Valid(m[a])}
    /\ pauseEnabled \in PauseSettings
    /\ \E status \in [Readable -> LeftBehind] :
          row = [a \in Apps |-> IF a \in Broken THEN "ERROR" ELSE status[a]]
    /\ frozen \in SUBSET {a \in Apps : row[a] \in {"RUNNING", "PAUSED"}}
    /\ idle = [a \in Apps |-> MaxIdle]
    /\ since = [a \in Apps |-> Throttle + 1]
    /\ low = FALSE
    /\ pressure \in Pressures
    /\ profile = NotStored
    /\ tick = Rest
    /\ op = [a \in Apps |-> NoOp]
    /\ wake = [a \in Apps |-> "none"]

(* Time passes.                                                            *)
Tick ==
    /\ idle' = [a \in Apps |-> Later(idle[a], MaxIdle)]
    /\ since' = [a \in Apps |-> Later(since[a], Throttle + 1)]
    /\ clockVars' # clockVars
    /\ UNCHANGED <<meta, pauseEnabled, row, frozen, low, pressure, profile, tick, op, wake>>

(* update_disk_space finds more or less than 1 GB free.                    *)
UpdateDiskSpace ==
    /\ low' \in Lows \ {low}
    /\ UNCHANGED <<meta, pauseEnabled, row, frozen, idle, since, pressure, profile, tick, op, wake>>

(* read_memory_pressure will see another value.                            *)
PressureChange ==
    /\ pressure' \in Pressures \ {pressure}
    /\ UNCHANGED <<meta, pauseEnabled, row, frozen, idle, since, low, profile, tick, op, wake>>

(* refresh_profile, at the start or when a client asks for it: the answer  *)
(* replaces what is stored, an error leaves it.                            *)
RefreshProfile(answer) ==
    /\ profile' = answer
    /\ UNCHANGED <<meta, pauseEnabled, row, frozen, idle, since, low, pressure, tick, op, wake>>

-----------------------------------------------------------------------------
(* start_app, by the tick (who = "op") and by a request (who = "wake").    *)

LetThrough(a) == since[a] > Throttle

(* Fault: a dropped call is stamped too.                                   *)
StampAlways(a) == since' = [since EXCEPT ![a] = 0]

(* throttle: a call goes through, and is stamped, unless the previous one  *)
(* that went through is not more than Throttle ago.                        *)
Stamp(a) == since' = IF LetThrough(a) THEN [since EXCEPT ![a] = 0] ELSE since

Starting == {"starting", "again"}

OpLockFree(a) == op[a].at # "starting" /\ wake[a] \notin Starting

(* A request to an app: ensure_app_is_running.  One task that waits for    *)
(* the lock stands for later ones, too.                                    *)
Access(a) ==
    /\ a \in Used \cap Readable /\ Fits(a) /\ ~low
    /\ idle' = [idle EXCEPT ![a] = 0]
    /\ Stamp(a)
    /\ wake' = CASE ~LetThrough(a) -> wake
                 [] wake[a] \in Starting -> [wake EXCEPT ![a] = "again"]
                 [] OTHER -> [wake EXCEPT ![a] = "called"]
    /\ UNCHANGED <<meta, pauseEnabled, row, frozen, low, pressure, profile, tick, op>>

(* start_app returns at once from a status it may not revive, and when the *)
(* app runs already.                                                       *)
NothingToStart(a) == row[a] \notin Revivable \/ (row[a] = "RUNNING" /\ a \notin frozen)

WakeLock(a) ==
    /\ wake[a] = "called"
    /\ OpLockFree(a)
    /\ \/ row[a] \in Revivable /\ wake' = [wake EXCEPT ![a] = "starting"]
       \/ NothingToStart(a) /\ wake' = [wake EXCEPT ![a] = "none"]
    /\ UNCHANGED <<meta, pauseEnabled, row, frozen, idle, since, low, pressure, profile, tick, op>>

WakeEnds(a) ==
    wake' = [wake EXCEPT ![a] = IF @ = "again" THEN "called" ELSE "none"]

WakeSucceeds(a) ==
    /\ wake[a] \in Starting
    /\ row' = [row EXCEPT ![a] = "RUNNING"]
    /\ frozen' = frozen \ {a}
    /\ WakeEnds(a)
    /\ UNCHANGED <<meta, pauseEnabled, idle, since, low, pressure, profile, tick, op>>

WakeFails(a) ==
    /\ wake[a] \in Starting
    /\ frozen' \in {frozen, frozen \ {a}}
    /\ WakeEnds(a)
    /\ UNCHANGED <<meta, pauseEnabled, row, idle, since, low, pressure, profile, tick, op>>

-----------------------------------------------------------------------------
(* control_apps *)

(* Apps that are being installed are passed over.                          *)
ControlTick ==
    /\ tick.phase = "rest"
    /\ tick' = [phase |-> "gather", high |-> pauseEnabled /\ pressure, seen |-> row,
                todo |-> {a \in Apps : row[a] # "INSTALLING"}, raised |-> FALSE]
    /\ UNCHANGED <<meta, pauseEnabled, row, frozen, idle, since, low, pressure, profile, op, wake>>

(* Fault: an app in the pause tier that is PAUSED is left alone.           *)
NeverStopsPaused(a, status) ==
    IF status = "RUNNING" /\ idle[a] >= PauseAfter(a) THEN "pause" ELSE "none"

(* Fault: an always-on app is revived from STOPPED only.                   *)
RevivesStopped(a, status) ==
    IF meta[a].alwaysOn
    THEN IF status = "STOPPED" /\ Fits(a) THEN "start" ELSE "none"
    ELSE IF status = "RUNNING" /\ idle[a] >= StopAfter(a) THEN "stop" ELSE "none"

(* _control_app_time past the disk check: what idle time, status in the    *)
(* snapshot and lifecycle ask for.                                         *)
TimeDecision(a, status) ==
    CASE meta[a].alwaysOn ->
            IF status # "RUNNING" /\ Fits(a) THEN "start" ELSE "none"
      [] ~meta[a].alwaysOn /\ (~pauseEnabled \/ meta[a].skipPause) ->
            IF status = "RUNNING" /\ idle[a] >= StopAfter(a) THEN "stop" ELSE "none"
      [] OTHER ->
            IF status = "RUNNING" /\ idle[a] >= PauseAfter(a) THEN "pause"
            ELSE IF status = "PAUSED" /\ idle[a] >= StopAfter(a) THEN "stop" ELSE "none"

(* _control_app_time up to the call it makes.  Unreadable metadata raises, *)
(* a throttled start returns at once.  (A call that an earlier, raised     *)
(* tick left behind has ended: see AppLifecycle for two of them.)          *)
Decide(a) ==
    /\ tick.phase = "gather" /\ a \in tick.todo
    /\ op[a] = NoOp
    /\ tick' = [tick EXCEPT !.todo = @ \ {a}, !.raised = @ \/ a \in Broken]
    /\ \/ a \in Broken /\ UNCHANGED <<op, since>>
       \/ /\ a \in Readable
          /\ LET kind == IF low THEN "stop" ELSE TimeDecision(a, tick.seen[a])
                 why == IF low THEN "disk" ELSE "idle"
             IN  \/ /\ kind \in {"pause", "stop"}
                    /\ op' = [op EXCEPT ![a] = Call(kind, why)] /\ UNCHANGED since
                 \/ /\ kind = "start" /\ Stamp(a)
                    /\ op' = IF LetThrough(a)
                             THEN [op EXCEPT ![a] = Call(kind, "always on")] ELSE op
                 \/ kind = "none" /\ UNCHANGED <<op, since>>
    /\ UNCHANGED <<meta, pauseEnabled, row, frozen, idle, low, pressure, profile, wake>>

(* gather raises with the first exception and leaves the other calls to    *)
(* themselves; otherwise it returns when all of them have.                 *)
GatherEnds ==
    /\ tick.phase = "gather" /\ tick.todo = {}
    /\ tick.raised \/ \A a \in Apps : op[a] = NoOp
    /\ tick' = IF tick.high /\ ~tick.raised THEN [tick EXCEPT !.phase = "demote"] ELSE Rest
    /\ UNCHANGED <<meta, pauseEnabled, row, frozen, idle, since, low, pressure, profile, op, wake>>

-----------------------------------------------------------------------------
(* _demote_lru *)

(* Fault: only running apps are demoted.                                   *)
DemotableRunning(status) ==
    {a \in Readable : ~meta[a].alwaysOn /\ idle[a] > Grace /\ tick.seen[a] = status
                         /\ status = "RUNNING"}

(* By the snapshot's status and the access times of now.                   *)
Demotable(status) ==
    {a \in Readable : ~meta[a].alwaysOn /\ idle[a] > Grace /\ tick.seen[a] = status}

(* min() by last access; which of several equals comes first is the        *)
(* order of the SELECT.                                                    *)
Lru(candidates) == {a \in candidates : \A b \in candidates : idle[b] <= idle[a]}

Demote ==
    /\ tick.phase = "demote"
    /\ tick' = [Rest EXCEPT !.phase = "demoted"]
    /\ \/ \E a \in Lru(Demotable("RUNNING")) :
             op' = [op EXCEPT ![a] =
                       Call(IF meta[a].skipPause THEN "stop" ELSE "pause", "pressure")]
       \/ /\ Demotable("RUNNING") = {}
          /\ \E a \in Lru(Demotable("PAUSED")) :
                op' = [op EXCEPT ![a] = Call("stop", "pressure")]
       \/ Demotable("RUNNING") \cup Demotable("PAUSED") = {} /\ UNCHANGED op
    /\ UNCHANGED <<meta, pauseEnabled, row, frozen, idle, since, low, pressure, profile, wake>>

(* PeriodicTask sleeps until the next round when the call has ended.       *)
TickEnds ==
    /\ tick.phase = "demoted"
    /\ \A a \in Apps : op[a] = NoOp
    /\ tick' = Rest
    /\ UNCHANGED <<meta, pauseEnabled, row, frozen, idle, since, low, pressure, profile, op, wake>>

-----------------------------------------------------------------------------
(* docker_pause_app, docker_stop_app and start_app, called by the tick:    *)
(* each reads the row anew; the place records what it saw, and then how    *)
(* far it has come.                                                        *)

OpGoto(a, place) == op' = [op EXCEPT ![a].at = place]

OpReturns(a) == op' = [op EXCEPT ![a] = NoOp]

OpReads(a) ==
    /\ op[a].at = "called"
    /\ \/ /\ op[a].kind = "pause"
          /\ IF row[a] = "RUNNING" THEN OpGoto(a, "RUNNING") ELSE OpReturns(a)
       \/ /\ op[a].kind = "stop"
          /\ IF row[a] \in {"RUNNING", "PAUSED"} THEN OpGoto(a, row[a]) ELSE OpReturns(a)
       \/ /\ op[a].kind = "start" /\ OpLockFree(a)
          /\ \/ row[a] \in Revivable /\ OpGoto(a, "starting")
             \/ NothingToStart(a) /\ OpReturns(a)
    /\ UNCHANGED <<meta, pauseEnabled, row, frozen, idle, since, low, pressure, profile, tick, wake>>

(* compose pause, which fails for containers that are paused already;      *)
(* reclaim_compose_stack and the write to the row follow.                  *)
Freezes(a) ==
    /\ op[a].kind = "pause" /\ op[a].at = "RUNNING" /\ a \notin frozen
    /\ frozen' = frozen \cup {a}
    /\ OpGoto(a, "frozen")
    /\ UNCHANGED <<meta, pauseEnabled, row, idle, since, low, pressure, profile, tick, wake>>

(* compose unpause, which fails for containers that are not paused; stop   *)
(* and the write to the row follow.                                        *)
Thaws(a) ==
    /\ op[a].kind = "stop" /\ op[a].at = "PAUSED" /\ a \in frozen
    /\ frozen' = frozen \ {a}
    /\ OpGoto(a, "thawed")
    /\ UNCHANGED <<meta, pauseEnabled, row, idle, since, low, pressure, profile, tick, wake>>

Ready(a) ==
    CASE op[a].kind = "pause" -> op[a].at = "frozen"
      [] op[a].kind = "stop" -> op[a].at = "thawed" \/ (op[a].at = "RUNNING" /\ a \notin frozen)
      [] OTHER -> op[a].at = "starting"

Target == [pause |-> "PAUSED", stop |-> "STOPPED", start |-> "RUNNING"]

OpWrites(a) ==
    /\ row' = [row EXCEPT ![a] = Target[op[a].kind]]
    /\ frozen' = IF op[a].kind = "pause" THEN frozen ELSE frozen \ {a}
    /\ OpReturns(a)
    /\ UNCHANGED <<meta, pauseEnabled, idle, since, low, pressure, profile, tick, wake>>

OpSucceeds(a) == Ready(a) /\ OpWrites(a)

(* Frozen containers of an app that is called running may be stopped, or   *)
(* not ("a frozen container cannot be stopped").                           *)
StopsFrozen(a) == op[a].kind = "stop" /\ op[a].at = "RUNNING" /\ a \in frozen /\ OpWrites(a)

(* docker fails, or the reclaim after a pause that worked: the exception   *)
(* goes to gather, or ends the demotion.  Some of the containers may have  *)
(* been frozen or thawed before, and nobody takes it back.                 *)
OpFails(a) ==
    /\ op[a].at \notin {"none", "called"}
    /\ frozen' \in {frozen, IF op[a].kind = "pause" /\ op[a].at = "RUNNING"
                           THEN frozen \cup {a}
                           ELSE IF op[a].kind = "pause" THEN frozen ELSE frozen \ {a}}
    /\ OpReturns(a)
    /\ tick' = [tick EXCEPT !.raised = @ \/ (tick.phase = "gather" /\ a \notin tick.todo)]
    /\ UNCHANGED <<meta, pauseEnabled, row, idle, since, low, pressure, profile, wake>>

OpAdvances(a) == Freezes(a) \/ Thaws(a) \/ OpSucceeds(a)

OpStep(a) == OpAdvances(a) \/ StopsFrozen(a) \/ OpFails(a)

-----------------------------------------------------------------------------
Next ==
    \/ Tick \/ UpdateDiskSpace \/ PressureChange
    \/ \E answer \in Answers : RefreshProfile(answer)
    \/ ControlTick \/ GatherEnds \/ Demote \/ TickEnds
    \/ \E a \in Apps :
          \/ Access(a) \/ WakeLock(a) \/ WakeSucceeds(a) \/ WakeFails(a)
          \/ Decide(a) \/ OpReads(a) \/ OpStep(a)

(* Time passes, the event loop runs what can run, and a docker command     *)
(* ends.  One that may succeed and is tried again and again succeeds at    *)
(* some time; nothing is promised for requests, the disk or the memory,    *)
(* nor for a pause of what is frozen already or a thaw of what is not.     *)
Fairness ==
    /\ WF_vars(Tick)
    /\ WF_vars(ControlTick) /\ WF_vars(GatherEnds) /\ WF_vars(Demote) /\ WF_vars(TickEnds)
    /\ \A a \in Apps : WF_vars(Decide(a))
    /\ \A a \in Readable :
          /\ SF_vars(OpReads(a)) /\ WF_vars(OpStep(a)) /\ SF_vars(OpAdvances(a))
    /\ \A a \in Used \cap Readable : SF_vars(WakeLock(a)) /\ SF_vars(WakeSucceeds(a))

Spec == Init /\ [][Next]_vars

FairSpec == Spec /\ Fairness

-----------------------------------------------------------------------------
(* Types of the variables.                                                 *)
TypeOK ==
    /\ meta \in [Readable -> UNION Range(Lifecycles)]
    /\ pauseEnabled \in BOOLEAN /\ low \in BOOLEAN /\ pressure \in BOOLEAN
    /\ row \in [Apps -> Revivable \cup Stuck]
    /\ frozen \subseteq Apps
    /\ idle \in [Apps -> 0..MaxIdle]
    /\ since \in [Apps -> 0..Throttle + 1]
    /\ tick \in [phase : {"rest", "gather", "demote", "demoted"}, high : BOOLEAN,
                 seen : [Apps -> Revivable \cup Stuck \cup {"unseen"}],
                 todo : SUBSET Apps, raised : BOOLEAN]
    /\ op \in [Apps -> [kind : {"none", "pause", "stop", "start"},
                        why : {"none", "disk", "idle", "always on", "pressure"},
                        at : {"none", "called", "RUNNING", "frozen", "PAUSED", "thawed",
                              "starting"}]]
    /\ profile \in VMSize \cup {SelfHosted, NotStored}
    /\ wake \in [Apps -> {"none", "called", "starting", "again"}]

-----------------------------------------------------------------------------
(* A pause or a stop of the app failed half-way, or a wake thawed what a   *)
(* pause then called paused: row and containers disagree, the calls that   *)
(* would set this right fail, and only a start does.                       *)
Odd(a) ==
    /\ op[a] = NoOp
    /\ \/ row[a] = "RUNNING" /\ a \in frozen
       \/ row[a] = "PAUSED" /\ a \notin frozen

(* The row of an always-on app that fits the machine comes to RUNNING,     *)
(* from every status that start_app revives and although it is throttled   *)
(* and may fail, once the disk stays free; another app's unreadable        *)
(* metadata does not matter.  (The tick does not look at the containers of *)
(* an app whose row says RUNNING.)                                         *)
AlwaysOnRevived ==
    \A a \in Readable :
        (/\ meta[a].alwaysOn /\ row[a] \in Revivable
         /\ <>[](Fits(a) /\ ~low)) => []<>(row[a] = "RUNNING")

(* An app that is no longer used does not run for ever; with the pause     *)
(* tier it is stopped in the end, through PAUSED.  One whose row and       *)
(* containers stay at odds is out of the tick's reach.                     *)
UnusedAppStops ==
    \A a \in Readable :
        (~meta[a].alwaysOn /\ <>[](idle[a] = MaxIdle) /\ <>[]~Odd(a)) =>
            /\ <>[](row[a] # "RUNNING")
            /\ pauseEnabled /\ ~meta[a].skipPause => <>[](row[a] \notin {"RUNNING", "PAUSED"})

(* An app that is used again and again runs again and again: the throttle  *)
(* drops wakes, pauses decided before the access land after it, and may    *)
(* end half-way, but none of this lasts.                                   *)
UsedAppRuns ==
    \A a \in Readable :
        (/\ row[a] \in Revivable
         /\ []<>(idle[a] = 0) /\ <>[](Fits(a) /\ ~low)) =>
            []<>(row[a] = "RUNNING" /\ a \notin frozen)

(* Pressure that lasts takes every app that may be demoted down to STOPPED *)
(* tick by tick, although each tick works from its snapshot, if all        *)
(* metadata can be read and no app stays at odds with its row.             *)
PressureRelieved ==
    (/\ pauseEnabled /\ Broken = {}
     /\ <>[](pressure /\ \A a \in Apps : idle[a] > Grace /\ ~Odd(a))) =>
        <>[](\A a \in Readable : ~meta[a].alwaysOn => row[a] \notin {"RUNNING", "PAUSED"})
=============================================================================
