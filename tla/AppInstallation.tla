--------------------------- MODULE AppInstallation ---------------------------
(***************************************************************************)
(* service/app_installation: the request side (__init__.py), which changes *)
(* the row and then enqueues a task, and the single worker (worker.py)     *)
(* that takes the tasks one by one.  Only the uninstall holds the app's op *)
(* lock; install and reinstall run without it.                             *)
(***************************************************************************)
EXTENDS AppTools

InstallTypes == {"install from store", "install from zip"}

NOT_ROUTABLE_STATUS ==
    {"INSTALLATION_QUEUED", "ERROR", "UNINSTALLATION_QUEUED", "UNINSTALLING"}

(* write_traefik_dyn_config: rows with a routable status whose metadata    *)
(* can be read.                                                            *)
Routable ==
    {a \in Apps : row[a] \notin NOT_ROUTABLE_STATUS \cup {"absent"} /\ "meta" \in files[a]}

-----------------------------------------------------------------------------
(* Requests.  The existence check of uninstall_app and reinstall_app and   *)
(* the UPDATE after it are one step: the UPDATE fails by itself on a row   *)
(* that has gone in between.                                               *)

CanRequest(t) == phase = "up" /\ co[t] = Idle /\ Len(queue) < MaxQueue

(* install_app_from_store and install_app_from_uploaded_zip up to the      *)
(* existence check.                                                        *)
RequestInstall(t, a, type) ==
    /\ CanRequest(t)
    /\ row[a] = "absent"
    /\ co' = [co EXCEPT ![t] =
                 Coro(type, a, IF type = "install from zip" THEN "move" ELSE "insert")]
    /\ UNCHANGED <<row, files, box, routes, queue, lock, phase, restarts>>

MoveZip(t) ==
    /\ At(t, "move")
    /\ files' = [files EXCEPT ![co[t].app] = @ \cup {"zip"}]
    /\ Goto(t, "insert")
    /\ UNCHANGED <<row, box, routes, queue, lock, phase, restarts>>

(* The primary key refuses a second row of the same name.                  *)
InsertRow(t) ==
    /\ At(t, "insert")
    /\ \/ /\ row[co[t].app] = "absent"
          /\ row' = [row EXCEPT ![co[t].app] = "INSTALLATION_QUEUED"]
          /\ Goto(t, "enqueue")
       \/ row[co[t].app] # "absent" /\ Return(t) /\ UNCHANGED row
    /\ UNCHANGED <<files, box, routes, queue, lock, phase, restarts>>

QueuedStatus(type) ==
    CASE type = "uninstall" -> "UNINSTALLATION_QUEUED"
      [] type = "reinstall" -> "REINSTALLATION_QUEUED"
      [] OTHER -> "INSTALLATION_QUEUED"

(* uninstall_app and reinstall_app accept an app in any status.            *)
RequestChange(t, a, type) ==
    /\ CanRequest(t)
    /\ row[a] # "absent"
    /\ row' = [row EXCEPT ![a] = QueuedStatus(type)]
    /\ co' = [co EXCEPT ![t] = Coro(type, a, "enqueue")]
    /\ UNCHANGED <<files, box, routes, queue, lock, phase, restarts>>

(* Fault: a queue of one place that drops what does not fit.               *)
EnqueueIfEmpty(t) ==
    /\ At(t, "enqueue")
    /\ queue' = IF queue = <<>> THEN <<[app |-> co[t].app, type |-> co[t].op]>> ELSE queue
    /\ Return(t)
    /\ UNCHANGED <<row, files, box, routes, lock, phase, restarts>>

Enqueue(t) ==
    /\ At(t, "enqueue")
    /\ queue' = Append(queue, [app |-> co[t].app, type |-> co[t].op])
    /\ Return(t)
    /\ UNCHANGED <<row, files, box, routes, lock, phase, restarts>>

-----------------------------------------------------------------------------
(* InstallationWorker._run *)

Dequeue ==
    /\ phase = "up"
    /\ co[Worker] = Idle
    /\ queue # <<>>
    /\ queue' = Tail(queue)
    /\ co' = [co EXCEPT ![Worker] =
                 Coro(Head(queue).type, Head(queue).app,
                      IF Head(queue).type = "uninstall" THEN "teardownLock" ELSE "check")]
    /\ UNCHANGED <<row, files, box, routes, lock, phase, restarts>>

(* get_app_from_db and assert_app_status: a missing row or another status  *)
(* drops the task.                                                         *)
Check(x) ==
    /\ At(x, "check")
    /\ IF row[co[x].app] = QueuedStatus(co[x].op) THEN Goto(x, "flip") ELSE Return(x)
    /\ UNCHANGED <<row, files, box, routes, queue, lock, phase, restarts>>

(* update_app_status to INSTALLING or REINSTALLING, whatever the row says  *)
(* by now.                                                                 *)
Flip(x) ==
    /\ At(x, "flip")
    /\ \/ /\ row[co[x].app] # "absent"
          /\ \/ /\ co[x].op = "install from store"
                /\ SetStatus(co[x].app, "INSTALLING") /\ Goto(x, "download")
             \/ /\ co[x].op = "install from zip"
                /\ SetStatus(co[x].app, "INSTALLING") /\ Goto(x, "extract")
             \/ /\ co[x].op = "reinstall"
                /\ SetStatus(co[x].app, "REINSTALLING") /\ Goto(x, "stopRead")
       \/ row[co[x].app] = "absent" /\ Return(x) /\ UNCHANGED row
    /\ UNCHANGED <<files, box, routes, queue, lock, phase, restarts>>

(* _download_app_zip *)
Download(x) ==
    /\ At(x, "download")
    /\ \/ files' = [files EXCEPT ![co[x].app] = @ \cup {"zip"}] /\ Goto(x, "extract")
       \/ UNCHANGED files /\ Goto(x, "error")
    /\ UNCHANGED <<row, box, routes, queue, lock, phase, restarts>>

(* extract_app_zip; a bad archive may fail after some of its members.      *)
Extract(x) ==
    /\ At(x, "extract")
    /\ \/ /\ "zip" \in files[co[x].app]
          /\ files' = [files EXCEPT ![co[x].app] = @ \cup {"meta"}]
          /\ \/ Goto(x, "render")
             \/ Goto(x, "error")
       \/ UNCHANGED files /\ Goto(x, "error")
    /\ UNCHANGED <<row, box, routes, queue, lock, phase, restarts>>

(* zip_file.unlink() and render_docker_compose_template.                   *)
Render(x) ==
    /\ At(x, "render")
    /\ \/ /\ files' = [files EXCEPT ![co[x].app] = (@ \ {"zip"}) \cup {"compose"}]
          /\ Goto(x, "create")
       \/ files' = [files EXCEPT ![co[x].app] = @ \ {"zip"}] /\ Goto(x, "error")
    /\ UNCHANGED <<row, box, routes, queue, lock, phase, restarts>>

(* docker_create_app_containers *)
Create(x) ==
    /\ At(x, "create")
    /\ \/ Succeeds("create", co[x].app) /\ Goto(x, "route")
       \/ Fails("create", co[x].app) /\ Goto(x, "error")
    /\ UNCHANGED <<row, files, routes, queue, lock, phase, restarts>>

(* write_traefik_dyn_config: the last step of _install_app_from_zip, and   *)
(* of the uninstall, which then releases the lock.                         *)
WriteRoutes(x) ==
    /\ At(x, "route")
    /\ routes' = Routable
    /\ \/ co[x].op = "uninstall" /\ ReleaseAndReturn(x)
       \/ co[x].op # "uninstall" /\ Goto(x, "finish") /\ UNCHANGED lock
    /\ UNCHANGED <<row, files, box, queue, phase, restarts>>

FinishInstall(x) ==
    /\ At(x, "finish")
    /\ SetStatus(co[x].app, "STOPPED")
    /\ Return(x)
    /\ UNCHANGED <<files, box, routes, queue, lock, phase, restarts>>

(* Fault: the exception handler does not touch the row.                    *)
InstallErrorSilent(x) ==
    /\ At(x, "error")
    /\ Return(x)
    /\ UNCHANGED <<row, files, box, routes, queue, lock, phase, restarts>>

InstallError(x) ==
    /\ At(x, "error")
    /\ SetStatus(co[x].app, "ERROR")
    /\ Return(x)
    /\ UNCHANGED <<files, box, routes, queue, lock, phase, restarts>>

-----------------------------------------------------------------------------
(* _uninstall_app *)

(* Fault: the uninstall does not take the lock.                            *)
TeardownUnlocked(x) ==
    /\ At(x, "teardownLock")
    /\ Goto(x, "teardownRead")
    /\ UNCHANGED <<row, files, box, routes, queue, lock, phase, restarts>>

TeardownLock(x) ==
    /\ At(x, "teardownLock")
    /\ lock[co[x].app] = None
    /\ lock' = [lock EXCEPT ![co[x].app] = x]
    /\ Goto(x, "teardownRead")
    /\ UNCHANGED <<row, files, box, routes, queue, phase, restarts>>

TeardownRead(x) ==
    /\ At(x, "teardownRead")
    /\ CASE row[co[x].app] = "absent" -> Goto(x, "stopRead")
         [] row[co[x].app] = "PAUSED" -> Goto(x, "thawRead")
         [] OTHER -> Goto(x, "teardownFlip")
    /\ UNCHANGED <<row, files, box, routes, queue, lock, phase, restarts>>

(* docker_unpause_app reads the row again.                                 *)
ThawRead(x) ==
    /\ At(x, "thawRead")
    /\ Goto(x, IF row[co[x].app] = "PAUSED" THEN "thawCmd" ELSE "teardownFlip")
    /\ UNCHANGED <<row, files, box, routes, queue, lock, phase, restarts>>

(* A failing unpause is not a KeyError: it ends the whole task.            *)
ThawCmd(x) ==
    /\ At(x, "thawCmd")
    /\ \/ Succeeds("unpause", co[x].app) /\ Goto(x, "thawMark") /\ UNCHANGED lock
       \/ Fails("unpause", co[x].app) /\ ReleaseAndReturn(x)
    /\ UNCHANGED <<row, files, routes, queue, phase, restarts>>

ThawMark(x) ==
    /\ At(x, "thawMark")
    /\ SetStatus(co[x].app, "RUNNING")
    /\ Goto(x, "teardownFlip")
    /\ UNCHANGED <<files, box, routes, queue, lock, phase, restarts>>

TeardownFlip(x) ==
    /\ At(x, "teardownFlip")
    /\ SetStatus(co[x].app, "UNINSTALLING")
    /\ Goto(x, "stopRead")
    /\ UNCHANGED <<files, box, routes, queue, lock, phase, restarts>>

(* shutil.rmtree, of the uninstall and of the reinstall.                   *)
RemoveFiles(x) ==
    /\ At(x, "rmtree")
    /\ files' = [files EXCEPT ![co[x].app] = {}]
    /\ Goto(x, IF co[x].op = "uninstall" THEN "remove" ELSE "download")
    /\ UNCHANGED <<row, box, routes, queue, lock, phase, restarts>>

RemoveRow(x) ==
    /\ At(x, "remove")
    /\ row' = [row EXCEPT ![co[x].app] = "absent"]
    /\ Goto(x, "route")
    /\ UNCHANGED <<files, box, routes, queue, lock, phase, restarts>>

-----------------------------------------------------------------------------
RequestStep(t) == MoveZip(t) \/ InsertRow(t) \/ Enqueue(t)

(* Every step of worker.py except the waits for a task and for the lock.   *)
WorkerStep(x) ==
    \/ Check(x) \/ Flip(x) \/ Download(x) \/ Extract(x) \/ Render(x) \/ Create(x)
    \/ WriteRoutes(x) \/ FinishInstall(x) \/ InstallError(x)
    \/ TeardownRead(x) \/ ThawRead(x) \/ ThawCmd(x) \/ ThawMark(x)
    \/ TeardownFlip(x) \/ RemoveFiles(x) \/ RemoveRow(x)
=============================================================================
