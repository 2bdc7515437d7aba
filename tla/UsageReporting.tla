--------------------------- MODULE UsageReporting ---------------------------
(***************************************************************************)
(* service/app_usage_reporting.py, run by two CronTasks                    *)
(* (util/async_util.py): every night at two the names of the installed     *)
(* apps are written down, and at three on the first of a month the notes   *)
(* of the month before are counted and sent to the management service.     *)
(*                                                                         *)
(* Time goes by the hour; a day has three of them here: before two, two    *)
(* and three o'clock.  Both jobs take less than an hour.                   *)
(***************************************************************************)
EXTENDS Naturals, FiniteSets

CONSTANTS
    Apps,
    DaysPerMonth,
    MaxDays,      \* bound of the days
    MaxTries,     \* range(10) of report_app_usage
    MaxRestarts,  \* bound of the restarts
    None

ASSUME DaysAssumption == {DaysPerMonth, MaxDays, MaxTries} \subseteq Nat \ {0} /\ MaxRestarts \in Nat

ASSUME NoneAssumption == None \notin Nat /\ \A apps \in SUBSET Apps : None # apps

VARIABLES
    hour,       \* hours since the beginning
    installed,  \* installed_apps
    tracks,     \* app_usage_tracks
    due,        \* next_exec of each CronTask; None while it is not started
    track,      \* track_currently_installed_apps
    report,     \* report_app_usage
    accepted,   \* reports the management service has, by month
    restarts,
    atTwo       \* history: what was installed when a day's track was made

usageVars == <<hour, installed, tracks, due, track, report, accepted, restarts, atTwo>>

CronJobs == {"track", "report"}

Day(h) == h \div 3

Month(h) == Day(h) \div DaysPerMonth

Months == 0..((MaxDays - 1) \div DaysPerMonth)

(* "0 2 * * *" and "0 3 1 * *".                                            *)
Scheduled(job, h) ==
    \/ job = "track" /\ h % 3 = 1
    \/ job = "report" /\ h % 3 = 2 /\ Day(h) % DaysPerMonth = 0

(* croniter.get_next: strictly after now.                                  *)
NextExec(job) ==
    LET slots == {h \in 0..(3 * (MaxDays + DaysPerMonth)) : Scheduled(job, h) /\ h > hour}
    IN  CHOOSE h \in slots : \A g \in slots : h <= g

-----------------------------------------------------------------------------
NoReport == [pc |-> "sleep", month |-> None, usage |-> None, tries |-> 0]

NoTrack == [pc |-> "sleep", apps |-> {}]

UsageInit ==
    /\ hour = 0
    /\ installed \in SUBSET Apps
    /\ tracks = {}
    /\ due = [j \in CronJobs |-> None]
    /\ track = NoTrack /\ report = NoReport
    /\ accepted = [m \in Months |-> None]
    /\ restarts = 0
    /\ atTwo = [d \in 0..(MaxDays - 1) |-> None]

Resting == track = NoTrack /\ report = NoReport

(* The hour ends when what was due has been done, or the process was down. *)
NextHour ==
    /\ Resting
    /\ \A j \in CronJobs : due[j] # None => due[j] > hour
    /\ Day(hour + 1) < MaxDays
    /\ hour' = hour + 1
    /\ UNCHANGED <<installed, tracks, due, track, report, accepted, restarts, atTwo>>

ChangeInstalled(a) ==
    /\ installed' = IF a \in installed THEN installed \ {a} ELSE installed \cup {a}
    /\ UNCHANGED <<hour, tracks, due, track, report, accepted, restarts, atTwo>>

(* CronTask.start, at the end of the startup.                              *)
StartTasks ==
    /\ due = [j \in CronJobs |-> None]
    /\ due' = [j \in CronJobs |-> NextExec(j)]
    /\ UNCHANGED <<hour, installed, tracks, track, report, accepted, restarts, atTwo>>

(* The process ends, with whatever the jobs were doing.                    *)
StopProcess ==
    /\ restarts < MaxRestarts
    /\ restarts' = restarts + 1
    /\ due' = [j \in CronJobs |-> None]
    /\ track' = NoTrack /\ report' = NoReport
    /\ UNCHANGED <<hour, installed, tracks, accepted, atTwo>>

Due(job) == due[job] = hour

Sleep(job) == due' = [due EXCEPT ![job] = NextExec(job)]

-----------------------------------------------------------------------------
(* track_currently_installed_apps: the SELECT ...                          *)
ReadApps ==
    /\ Due("track") /\ track = NoTrack
    /\ track' = [pc |-> "insert", apps |-> installed]
    /\ atTwo' = [atTwo EXCEPT ![Day(hour)] = installed]
    /\ UNCHANGED <<hour, installed, tracks, due, report, accepted, restarts>>

(* ... and the INSERT, which may fail: CronTask logs the error.            *)
InsertTrack ==
    /\ track.pc = "insert"
    /\ \/ tracks' = tracks \cup {[hour |-> hour, apps |-> track.apps]}
       \/ UNCHANGED tracks
    /\ track' = NoTrack
    /\ Sleep("track")
    /\ UNCHANGED <<hour, installed, report, accepted, restarts, atTwo>>

MonthStart(m) == 3 * DaysPerMonth * m

(* Fault: the first day of the current month is included.                  *)
InRangeClosed(t, m) ==
    Day(MonthStart(m)) <= Day(t.hour) /\ Day(t.hour) <= Day(MonthStart(m + 1))

(* search_by_time_range: start <= timestamp < end.                         *)
InRange(t, m) == MonthStart(m) <= t.hour /\ t.hour < MonthStart(m + 1)

(* report_app_usage counts the tracks of the month before and returns when *)
(* there are none.                                                         *)
CountUsage ==
    /\ Due("report") /\ report = NoReport
    /\ LET m == Month(hour) - 1
           relevant == {t \in tracks : InRange(t, m)}
       IN  IF Month(hour) = 0 \/ relevant = {}
           THEN Sleep("report") /\ UNCHANGED report
           ELSE /\ report' = [pc |-> "send", month |-> m, tries |-> 0,
                              usage |-> [a \in Apps |-> Cardinality({t \in relevant : a \in t.apps})]]
                /\ UNCHANGED due
    /\ UNCHANGED <<hour, installed, tracks, track, accepted, restarts, atTwo>>

ReportEnds == report' = NoReport /\ Sleep("report")

Retry ==
    IF report.tries + 1 < MaxTries
    THEN report' = [report EXCEPT !.tries = @ + 1] /\ UNCHANGED due ELSE ReportEnds

(* The management service refuses a second report of a month (409), which  *)
(* ends the attempts; an error answer is tried again.                      *)
SendReport ==
    /\ report.pc = "send"
    /\ \/ accepted[report.month] # None /\ ReportEnds /\ UNCHANGED accepted
       \/ /\ accepted[report.month] = None
          /\ accepted' = [accepted EXCEPT ![report.month] = report.usage]
          /\ ReportEnds \/ Retry
       \/ Retry /\ UNCHANGED accepted
    /\ UNCHANGED <<hour, installed, tracks, track, restarts, atTwo>>

(* An exception of requests is not an HTTPError of the answer: no retry.   *)
ConnectionFails ==
    /\ report.pc = "send"
    /\ ReportEnds
    /\ UNCHANGED <<hour, installed, tracks, track, accepted, restarts, atTwo>>

UsageNext ==
    \/ NextHour \/ StartTasks \/ StopProcess \/ \E a \in Apps : ChangeInstalled(a)
    \/ ReadApps \/ InsertTrack \/ CountUsage \/ SendReport \/ ConnectionFails

UsageSpec == UsageInit /\ [][UsageNext]_usageVars

-----------------------------------------------------------------------------
(* A month is reported when it is over and with what was installed on its  *)
(* days: no app more often than on the days it was there at two o'clock,   *)
(* and as often if every day's track was written.                          *)
ReportsMonth ==
    \A m \in Months : accepted[m] # None =>
        /\ m < Month(hour)
        /\ \A a \in Apps :
              LET days == {d \in DOMAIN atTwo : d \div DaysPerMonth = m}
                  with == {d \in days : atTwo[d] # None /\ a \in atTwo[d]}
              IN  /\ accepted[m][a] <= Cardinality(with)
                  /\ (\A d \in days : \E t \in tracks : Day(t.hour) = d) =>
                        accepted[m][a] = Cardinality(with)
=============================================================================
