------------------------------ MODULE AppTools ------------------------------
(***************************************************************************)
(* service/app_tools.py: start_app, docker_pause_app, docker_stop_app,     *)
(* docker_shutdown_app and docker_unpause_app as coroutines.  Only         *)
(* start_app takes the app's op lock by itself; the others read the row,   *)
(* run docker commands and write the row with nothing held.                *)
(***************************************************************************)
EXTENDS AppState

REVIVABLE_STATUS == {"STOPPED", "RUNNING", "DOWN", "PAUSED"}

(* The end of start_app: "async with app_op_lock" releases the lock.       *)
ReleaseAndReturn(x) == Release(co[x].app) /\ Return(x)

-----------------------------------------------------------------------------
(* start_app *)

(* Fault: the lock is per call, not per app, and never found taken.        *)
StartLockTaken(x) ==
    /\ At(x, "startLock")
    /\ lock' = [lock EXCEPT ![co[x].app] = x]
    /\ Goto(x, "startRead")
    /\ UNCHANGED <<row, files, box, routes, queue, phase, restarts>>

StartLock(x) ==
    /\ At(x, "startLock")
    /\ lock[co[x].app] = None
    /\ lock' = [lock EXCEPT ![co[x].app] = x]
    /\ Goto(x, "startRead")
    /\ UNCHANGED <<row, files, box, routes, queue, phase, restarts>>

(* The place remembers whether the status read was RUNNING.                *)
StartRead(x) ==
    /\ At(x, "startRead")
    /\ \/ /\ row[co[x].app] \in REVIVABLE_STATUS
          /\ Goto(x, IF row[co[x].app] = "RUNNING" THEN "startProbeRunning" ELSE "startProbe")
          /\ UNCHANGED lock
       \/ /\ row[co[x].app] \notin REVIVABLE_STATUS
          /\ ReleaseAndReturn(x)
    /\ UNCHANGED <<row, files, box, routes, queue, phase, restarts>>

(* get_app_container_state reports "missing" when docker itself fails and  *)
(* raises when there is no compose file.                                   *)
StartProbe(x) ==
    /\ At(x, "startProbe") \/ At(x, "startProbeRunning")
    /\ \/ ~HasCompose(co[x].app) /\ ReleaseAndReturn(x)
       \/ /\ HasCompose(co[x].app)
          /\ \E state \in {box[co[x].app], "missing"} :
                \/ /\ state = "running" /\ At(x, "startProbeRunning")
                   /\ ReleaseAndReturn(x)
                \/ /\ state = "running" /\ At(x, "startProbe")
                   /\ Goto(x, "startMark") /\ UNCHANGED lock
                \/ /\ state = "paused"
                   /\ Goto(x, "startUnpause") /\ UNCHANGED lock
                \/ /\ state \in {"exited", "missing"}
                   /\ Goto(x, "startUp") /\ UNCHANGED lock
    /\ UNCHANGED <<row, files, box, routes, queue, phase, restarts>>

(* A failed unpause falls back to up; a missing compose file is not a      *)
(* SubprocessError and ends the call.                                      *)
StartUnpause(x) ==
    /\ At(x, "startUnpause")
    /\ \/ Succeeds("unpause", co[x].app) /\ Goto(x, "startMark") /\ UNCHANGED lock
       \/ /\ HasCompose(co[x].app) /\ Fails("unpause", co[x].app)
          /\ Goto(x, "startUp") /\ UNCHANGED lock
       \/ ~HasCompose(co[x].app) /\ ReleaseAndReturn(x) /\ UNCHANGED box
    /\ UNCHANGED <<row, files, routes, queue, phase, restarts>>

(* Fault: a failing up leaves the lock held.                               *)
StartUpLeaks(x) ==
    /\ At(x, "startUp")
    /\ \/ Succeeds("up", co[x].app) /\ Goto(x, "startMark")
       \/ Fails("up", co[x].app) /\ Return(x)
    /\ UNCHANGED <<row, files, routes, queue, lock, phase, restarts>>

StartUp(x) ==
    /\ At(x, "startUp")
    /\ \/ Succeeds("up", co[x].app) /\ Goto(x, "startMark") /\ UNCHANGED lock
       \/ Fails("up", co[x].app) /\ ReleaseAndReturn(x)
    /\ UNCHANGED <<row, files, routes, queue, phase, restarts>>

StartMark(x) ==
    /\ At(x, "startMark")
    /\ SetStatus(co[x].app, "RUNNING")
    /\ ReleaseAndReturn(x)
    /\ UNCHANGED <<files, box, routes, queue, phase, restarts>>

-----------------------------------------------------------------------------
(* docker_pause_app *)

PauseRead(x) ==
    /\ At(x, "pauseRead")
    /\ IF row[co[x].app] = "RUNNING" THEN Goto(x, "pauseCmd") ELSE Return(x)
    /\ UNCHANGED <<row, files, box, routes, queue, lock, phase, restarts>>

PauseCmd(x) ==
    /\ At(x, "pauseCmd")
    /\ \/ Succeeds("pause", co[x].app) /\ Goto(x, "pauseWrite")
       \/ Fails("pause", co[x].app) /\ Return(x)
    /\ UNCHANGED <<row, files, routes, queue, lock, phase, restarts>>

(* reclaim_compose_stack runs first and may raise, which leaves the stack  *)
(* frozen and the row RUNNING.                                             *)
PauseWrite(x) ==
    /\ At(x, "pauseWrite")
    /\ \/ HasCompose(co[x].app) /\ SetStatus(co[x].app, "PAUSED")
       \/ UNCHANGED row
    /\ Return(x)
    /\ UNCHANGED <<files, box, routes, queue, lock, phase, restarts>>

-----------------------------------------------------------------------------
(* docker_stop_app, called by the tick and by the worker's uninstall and   *)
(* reinstall.  The worker goes on with docker_shutdown_app, and catches    *)
(* what either of them raises before it deletes the app's files.           *)

AfterStop(x) == IF x = Worker THEN Goto(x, "downRead") ELSE Return(x)

(* Fault: the worker does not catch the exception.                         *)
RaiseUncaught(x) == Return(x)

(* Fault: an exception skips the rmtree as well.                           *)
RaiseKeepsFiles(x) ==
    IF x # Worker THEN Return(x)
    ELSE Goto(x, IF co[x].op = "uninstall" THEN "remove" ELSE "download")

Raise(x) == IF x = Worker THEN Goto(x, "rmtree") ELSE Return(x)

(* set_status=False is what the reinstall passes.                          *)
SetsStatus(x) == co[x].op # "reinstall"

StopRead(x) ==
    /\ At(x, "stopRead")
    /\ CASE row[co[x].app] = "PAUSED" -> Goto(x, "stopUnpause")
         [] row[co[x].app] \in {"RUNNING", "UNINSTALLING"} -> Goto(x, "stopCmd")
         [] OTHER -> AfterStop(x)
    /\ UNCHANGED <<row, files, box, routes, queue, lock, phase, restarts>>

StopUnpause(x) ==
    /\ At(x, "stopUnpause")
    /\ \/ Succeeds("unpause", co[x].app) /\ Goto(x, "stopCmd")
       \/ Fails("unpause", co[x].app) /\ Raise(x)
    /\ UNCHANGED <<row, files, routes, queue, lock, phase, restarts>>

StopCmd(x) ==
    /\ At(x, "stopCmd")
    /\ \/ /\ Succeeds("stop", co[x].app)
          /\ IF SetsStatus(x) THEN Goto(x, "stopWrite") ELSE AfterStop(x)
       \/ Fails("stop", co[x].app) /\ Raise(x)
    /\ UNCHANGED <<row, files, routes, queue, lock, phase, restarts>>

StopWrite(x) ==
    /\ At(x, "stopWrite")
    /\ SetStatus(co[x].app, "STOPPED")
    /\ AfterStop(x)
    /\ UNCHANGED <<files, box, routes, queue, lock, phase, restarts>>

-----------------------------------------------------------------------------
(* docker_shutdown_app, called by the worker after docker_stop_app and,    *)
(* with force=True, for every app when the process stops.                  *)

AfterDown(x) == IF x = Worker THEN Goto(x, "rmtree") ELSE Return(x)

Forced(x) == co[x].op = "shutdown"

DownRead(x) ==
    /\ At(x, "downRead")
    /\ IF Forced(x) \/ row[co[x].app] \in {"STOPPED", "UNINSTALLING"}
       THEN Goto(x, IF row[co[x].app] = "PAUSED" THEN "downUnpause" ELSE "downCmd")
       ELSE AfterDown(x)
    /\ UNCHANGED <<row, files, box, routes, queue, lock, phase, restarts>>

DownUnpause(x) ==
    /\ At(x, "downUnpause")
    /\ \/ Succeeds("unpause", co[x].app) /\ Goto(x, "downCmd")
       \/ Fails("unpause", co[x].app) /\ Raise(x)
    /\ UNCHANGED <<row, files, routes, queue, lock, phase, restarts>>

DownCmd(x) ==
    /\ At(x, "downCmd")
    /\ \/ /\ Succeeds("down", co[x].app)
          /\ IF SetsStatus(x) THEN Goto(x, "downWrite") ELSE AfterDown(x)
       \/ Fails("down", co[x].app) /\ Raise(x)
    /\ UNCHANGED <<row, files, routes, queue, lock, phase, restarts>>

DownWrite(x) ==
    /\ At(x, "downWrite")
    /\ SetStatus(co[x].app, "DOWN")
    /\ AfterDown(x)
    /\ UNCHANGED <<files, box, routes, queue, lock, phase, restarts>>

-----------------------------------------------------------------------------
(* The steps of each function, except the wait for the lock.               *)
StartStep(x) == StartRead(x) \/ StartProbe(x) \/ StartUnpause(x) \/ StartUp(x) \/ StartMark(x)

PauseStep(x) == PauseRead(x) \/ PauseCmd(x) \/ PauseWrite(x)

StopStep(x) == StopRead(x) \/ StopUnpause(x) \/ StopCmd(x) \/ StopWrite(x)

DownStep(x) == DownRead(x) \/ DownUnpause(x) \/ DownCmd(x) \/ DownWrite(x)
=============================================================================
