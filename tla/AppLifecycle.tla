---------------------------- MODULE AppLifecycle ----------------------------
(***************************************************************************)
(* The whole life of installed apps: requests that install, uninstall,     *)
(* reinstall and wake them, the control tick that pauses, stops and        *)
(* revives them (service/app_lifecycle.py), the installation worker, and   *)
(* the process around them, which starts, stops and crashes                *)
(* (app_factory.py, lifespan).                                             *)
(***************************************************************************)
EXTENDS AppInstallation, FiniteSets, Functions

ASSUME FiniteAssumption == IsFiniteSet(Apps)

(* An empty database, nothing on disk, no containers.                      *)
Init ==
    /\ row = [a \in Apps |-> "absent"]
    /\ files = [a \in Apps |-> {}]
    /\ box = [a \in Apps |-> "missing"]
    /\ routes = {}
    /\ queue = <<>>
    /\ lock = [a \in Apps |-> None]
    /\ co = [x \in Actors |-> Idle]
    /\ phase = "up"
    /\ restarts = 0

-----------------------------------------------------------------------------
(* ensure_app_is_running: a request to an app creates a start_app task.    *)
(* The app comes from the cache of the auth endpoint, so the row may have  *)
(* changed; only the metadata must be readable.  A call the throttle of    *)
(* start_app drops is a Wake that does not happen.                         *)
Wake(t, a) ==
    /\ phase = "up"
    /\ co[t] = Idle
    /\ "meta" \in files[a]
    /\ co' = [co EXCEPT ![t] = Coro("wake", a, "startLock")]
    /\ UNCHANGED <<row, files, box, routes, queue, lock, phase, restarts>>

(* One _control_app_time call, or the demotion that follows: which of the  *)
(* three operations it is depends on idle times, disk space and memory     *)
(* pressure, left open here, and on the status in control_apps' snapshot.  *)
(* A gather that raised leaves calls of an earlier tick running, so that   *)
(* two of them may concern the same app.                                   *)
Control(t, a, op) ==
    /\ phase = "up"
    /\ co[t] = Idle
    /\ row[a] \notin {"absent", "INSTALLATION_QUEUED", "INSTALLING"}
    /\ "meta" \in files[a]
    /\ \/ /\ op = "revive" /\ row[a] # "RUNNING"
          /\ co' = [co EXCEPT ![t] = Coro(op, a, "startLock")]
       \/ /\ op = "pause" /\ row[a] = "RUNNING"
          /\ co' = [co EXCEPT ![t] = Coro(op, a, "pauseRead")]
       \/ /\ op = "stop"
          /\ co' = [co EXCEPT ![t] = Coro(op, a, "stopRead")]
    /\ UNCHANGED <<row, files, box, routes, queue, lock, phase, restarts>>

(* External: a stack exits by itself (crash, OOM, upgrade of the core); a  *)
(* frozen one may be killed too.                                           *)
ContainerExit(a) ==
    /\ box[a] \in {"running", "paused"}
    /\ box' = [box EXCEPT ![a] = "exited"]
    /\ UNCHANGED <<row, files, routes, queue, lock, co, phase, restarts>>

-----------------------------------------------------------------------------
(* The process.                                                            *)

NoRequestInFlight == \A t \in Tasks : co[t].pc \notin {"move", "insert", "enqueue"}

(* The calls of a control tick, some of which may have outlived a gather   *)
(* that raised.                                                            *)
ControlCalls == {t \in Tasks : co[t].op \in {"revive", "pause", "stop"}}

(* The lifespan's teardown: requests have been served, the worker and the  *)
(* control tick are cancelled, which releases their locks; start_app tasks *)
(* that requests created and calls of ticks that ended earlier run on.     *)
(* Then docker_shutdown_all_apps(force=True) starts one                    *)
(* docker_shutdown_app per row.                                            *)
Shutdown ==
    \E orphans \in SUBSET ControlCalls :
        LET survives(x) == x \in orphans \/ (x \in Tasks /\ co[x].op = "wake")
        IN  /\ phase = "up"
            /\ restarts < MaxRestarts
            /\ NoRequestInFlight
            /\ phase' = "stopping"
            /\ co' = [x \in Actors |->
                        IF survives(x) THEN co[x]
                        ELSE IF x \in Apps /\ row[x] # "absent"
                             THEN Coro("shutdown", x, "downRead")
                             ELSE Idle]
            /\ lock' = [a \in Apps |->
                          IF lock[a] # None /\ survives(lock[a]) THEN lock[a] ELSE None]
            /\ UNCHANGED <<row, files, box, routes, queue, restarts>>

(* The process ends: after the last docker_shutdown_app, or killed at any  *)
(* point.  Everything in memory is lost.                                   *)
Exit ==
    /\ co' = [x \in Actors |-> Idle]
    /\ lock' = [a \in Apps |-> None]
    /\ queue' = <<>>
    /\ phase' = "down"
    /\ restarts' = restarts + 1
    /\ UNCHANGED <<row, files, box, routes>>

ShutdownComplete ==
    /\ phase = "stopping"
    /\ \A a \in Apps : co[a] = Idle
    /\ Exit

Crash ==
    /\ phase \in {"up", "stopping"}
    /\ restarts < MaxRestarts
    /\ Exit

(* Fault: queued uninstalls are not resumed.                               *)
InterruptedLate == {a \in Apps : row[a] = "UNINSTALLING"}

(* reconcile_interrupted_uninstalls enqueues one task per row it finds in  *)
(* an uninstalling status.                                                 *)
Interrupted == {a \in Apps : row[a] \in {"UNINSTALLATION_QUEUED", "UNINSTALLING"}}

(* Fault: the status is taken for the task type.                           *)
ResumeAsStatus(a) == [app |-> a, type |-> row[a]]

ResumeTask(a) == [app |-> a, type |-> "uninstall"]

(* The lifespan's start: traefik configuration, compose files of all rows  *)
(* that have a template, reconciliation in the order of an unordered       *)
(* SELECT, then the background tasks.                                      *)
Startup ==
    /\ phase = "down"
    /\ phase' = "up"
    /\ routes' = Routable
    /\ files' = [a \in Apps |->
                   IF row[a] # "absent" /\ "meta" \in files[a]
                   THEN files[a] \cup {"compose"} ELSE files[a]]
    /\ \E rows \in Surjection(1..Cardinality(Interrupted), Interrupted) :
          queue' = [i \in 1..Cardinality(Interrupted) |-> ResumeTask(rows[i])]
    /\ UNCHANGED <<row, box, lock, co, restarts>>

-----------------------------------------------------------------------------
(* The steps of a request or tick that is running, of the worker past its  *)
(* dequeue, and (as DownStep) of the shutdown of an app.                   *)
TaskStep(t) == StartStep(t) \/ PauseStep(t) \/ StopStep(t) \/ RequestStep(t)

TeardownOrInstall == StopStep(Worker) \/ DownStep(Worker) \/ WorkerStep(Worker)

Next ==
    \/ \E t \in Tasks : TaskStep(t) \/ StartLock(t)
    \/ TeardownOrInstall \/ TeardownLock(Worker)
    \/ \E a \in Apps : DownStep(a)
    \/ Dequeue
    \/ \E t \in Tasks, a \in Apps :
          \/ \E type \in InstallTypes : RequestInstall(t, a, type)
          \/ \E type \in {"uninstall", "reinstall"} : RequestChange(t, a, type)
          \/ Wake(t, a)
          \/ \E op \in {"revive", "pause", "stop"} : Control(t, a, op)
    \/ \E a \in Apps : ContainerExit(a)
    \/ Shutdown \/ ShutdownComplete \/ Crash \/ Startup

Spec == Init /\ [][Next]_vars

(* The event loop runs every coroutine that can run, and docker commands   *)
(* and statements return.  asyncio.Lock serves its waiters in order, so a  *)
(* lock that is released again and again reaches each of them.  A stopped  *)
(* process is restarted by docker.  Users and ticks owe nothing.           *)
Fairness ==
    /\ \A t \in Tasks : WF_vars(TaskStep(t)) /\ SF_vars(StartLock(t))
    /\ WF_vars(TeardownOrInstall) /\ SF_vars(TeardownLock(Worker))
    /\ \A a \in Apps : WF_vars(DownStep(a))
    /\ WF_vars(Dequeue)
    /\ WF_vars(ShutdownComplete)
    /\ WF_vars(Startup)

FairSpec == Spec /\ Fairness

-----------------------------------------------------------------------------
(* Types of the variables.                                                 *)
TypeOK ==
    /\ row \in [Apps -> Status \cup {"absent"}]
    /\ files \in [Apps -> SUBSET FileKind]
    /\ box \in [Apps -> ContainerState]
    /\ routes \in SUBSET Apps
    /\ queue \in Seq(InstallationTask)
    /\ lock \in [Apps -> Actors \cup {None}]
    /\ co \in [Actors -> Coroutine]
    /\ phase \in {"up", "stopping", "down"}
    /\ restarts \in 0..MaxRestarts

(* The worker holds a's op lock for an uninstall.                          *)
TearingDown(a) ==
    co[Worker].op = "uninstall" /\ co[Worker].app = a /\ ~At(Worker, "teardownLock")

(* Issue #185: from the moment start_app has found a revivable row until   *)
(* it has marked the app RUNNING, the row exists and no uninstall of the   *)
(* app is under way, so that no stack is recreated behind a teardown       *)
(* (app_tools.start_app against worker._uninstall_app).                    *)
ReviveExcludesTeardown ==
    \A x \in Actors :
        co[x].pc \in {"startProbe", "startProbeRunning", "startUnpause", "startUp", "startMark"} =>
            row[co[x].app] # "absent" /\ ~TearingDown(co[x].app)

(* Somebody will act on a: a task of one of the types is queued, or is the *)
(* worker's current one, or a request is about to enqueue it.              *)
Pending(a, types) ==
    \/ \E i \in 1..Len(queue) : queue[i].app = a /\ queue[i].type \in types
    \/ \E x \in Tasks \cup {Worker} :
          co[x].app = a /\ co[x].op \in types /\ co[x].pc # "idle"

(* An app that shows as being uninstalled really is: while the process is  *)
(* up, a row in UNINSTALLATION_QUEUED or UNINSTALLING has an uninstall     *)
(* pending, whatever other tasks, late status writes, crashes and restarts *)
(* came before (uninstall_app, _uninstall_app, reconcile_interrupted_      *)
(* uninstalls).                                                            *)
NoStrandedUninstall ==
    phase = "up" =>
        \A a \in Apps :
            row[a] \in {"UNINSTALLATION_QUEUED", "UNINSTALLING"} => Pending(a, {"uninstall"})

(* The same for installs and reinstalls, which no startup code resumes:    *)
(* as long as the process has not been restarted, no row stays in one of   *)
(* their statuses without a task that will leave it, on all the error      *)
(* paths of the worker.                                                    *)
NoStrandedInstall ==
    (phase = "up" /\ restarts = 0) =>
        \A a \in Apps :
            /\ row[a] \in {"INSTALLATION_QUEUED", "INSTALLING"} => Pending(a, InstallTypes)
            /\ row[a] \in {"REINSTALLATION_QUEUED", "REINSTALLING"} => Pending(a, {"reinstall"})

(* Nothing of a removed app stays on disk, save the archive of an upload   *)
(* that has not been inserted yet: _uninstall_app deletes the files before *)
(* the row, on every path, so that a crash in between leaves the row.      *)
RemovedMeansGone == \A a \in Apps : row[a] = "absent" => files[a] \subseteq {"zip"}

(* While the process is up, traefik routes to no app that has been         *)
(* removed, except between the DELETE and the rewrite of the configuration *)
(* that the same uninstall does next (write_traefik_dyn_config).           *)
NoDanglingRoute ==
    phase = "up" =>
        \A a \in routes : row[a] = "absent" => TearingDown(a) /\ At(Worker, "route")

(* An uninstall leaves nothing behind, neither files nor routes, whatever  *)
(* fails on the way and wherever the process ends.                         *)
NothingLeftBehind == RemovedMeansGone /\ NoDanglingRoute

(* A row appears only by an install request and disappears only under the  *)
(* op lock of the worker: no status that a pause, stop, start or shutdown  *)
(* writes late brings a removed app back.                                  *)
RowsComeAndGo ==
    [][\A a \in Apps :
          /\ row[a] = "absent" => row'[a] \in {"absent", "INSTALLATION_QUEUED"}
          /\ row[a] # "absent" /\ row'[a] = "absent" => lock[a] = Worker]_vars

(* The coroutines with their locks implement the abstract ownership of     *)
(* apps: no lock is taken from its holder, on whatever path and at         *)
(* whatever stop of the process, and rows vanish only under the worker's.  *)
Ownership == INSTANCE AppOwnership WITH
    Owners <- Tasks \cup {Worker},
    exists <- {a \in Apps : row[a] # "absent"},
    owner <- lock

ImplementsOwnership == Ownership!Spec

-----------------------------------------------------------------------------
(* Everyone who waits for an op lock gets it: every holder releases it on  *)
(* every path, also when docker fails (start_app, _uninstall_app).         *)
WaitersServed ==
    \A x \in Tasks \cup {Worker} :
        co[x].pc \in {"startLock", "teardownLock"} ~>
            co[x].pc \notin {"startLock", "teardownLock"}

(* An accepted uninstall is taken up by the worker, whatever tasks are     *)
(* queued before it and however they end.                                  *)
UninstallTakenUp ==
    \A a \in Apps : row[a] = "UNINSTALLATION_QUEUED" ~> TearingDown(a)

(* The worker's teardown past the flip to UNINSTALLING, before the DELETE. *)
PastFlip(a) ==
    /\ TearingDown(a)
    /\ co[Worker].pc \in {"stopRead", "stopUnpause", "stopCmd", "stopWrite", "downRead",
                          "downCmd", "downWrite", "rmtree", "remove"}

(* A teardown that has flipped the row to UNINSTALLING ends with the row   *)
(* gone, whatever docker says: the errors of stop and down are caught.     *)
TeardownCompletes == \A a \in Apps : PastFlip(a) ~> row[a] = "absent"

-----------------------------------------------------------------------------
(* Three claims of the repository's comments and tests that the code does  *)
(* not keep.                                                               *)

(* tests/test_app_pause_lifecycle.py: "uninstalling a frozen stack must    *)
(* unfreeze before stop/down".                                             *)
ThawedBeforeStop ==
    co[Worker].op = "uninstall" /\ co[Worker].pc \in {"stopCmd", "downCmd"} =>
        box[co[Worker].app] # "paused"

(* app_tools.py: transitional apps "must never be started, or the control  *)
(* tick recreates containers mid-uninstall/reinstall".                     *)
NeverStartedInTransition ==
    \A x \in Actors :
        co[x].pc \in {"startUnpause", "startUp"} =>
            row[co[x].app] \notin {"INSTALLING", "UNINSTALLING", "REINSTALLING"}

(* reconcile_interrupted_uninstalls: "Re-enqueue uninstalls that a         *)
(* previous process did not finish": a teardown ends with the row gone,    *)
(* unless the user asks for a reinstall meanwhile.                         *)
InterruptedUninstallResumed ==
    \A a \in Apps : PastFlip(a) ~> row[a] \in {"absent", "REINSTALLATION_QUEUED"}
=============================================================================
