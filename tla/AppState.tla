------------------------------ MODULE AppState ------------------------------
(***************************************************************************)
(* The state that the coroutines of the shard core share when they manage  *)
(* installed apps: the installed_apps table, the app directories, the      *)
(* docker stacks, the traefik configuration, the task queue of the         *)
(* installation worker, the per-app op locks, and the coroutines           *)
(* themselves.                                                             *)
(*                                                                         *)
(* The core is one asyncio process: a coroutine runs undisturbed until it  *)
(* awaits, so every action of the modules that extend this one is the      *)
(* stretch of code between two awaits that matter (a database statement, a *)
(* docker command, a download, the lock).                                  *)
(***************************************************************************)
EXTENDS Naturals, Sequences

CONSTANTS
    Apps,         \* app names
    Tasks,        \* slots for request handlers, wake tasks and control ticks
    Worker,       \* the one InstallationWorker._run coroutine
    None,         \* no app, no lock holder
    MaxQueue,     \* bound: no new request while the queue is this long
    MaxRestarts   \* bound: how often the process may go down

ASSUME ActorsAssumption ==
    /\ Apps \cap Tasks = {}
    /\ Worker \notin Apps \cup Tasks
    /\ None \notin Apps \cup Tasks \cup {Worker}

ASSUME BoundsAssumption == MaxQueue \in Nat /\ MaxRestarts \in Nat

(* The shutdown coroutine that docker_shutdown_all_apps gathers for an app *)
(* is identified with the app.                                             *)
Actors == Tasks \cup {Worker} \cup Apps

VARIABLES
    row,       \* installed_apps: the status of each app, "absent" for no row
    files,     \* what the app's directory holds
    box,       \* state of the app's docker stack
    routes,    \* apps that traefik_dyn.yml routes to
    queue,     \* InstallationWorker._task_queue
    lock,      \* _app_op_locks: the holder of each app's lock
    co,        \* the coroutines
    phase,     \* of the process: "up", "stopping" (lifespan teardown), "down"
    restarts   \* how often the process went down

vars == <<row, files, box, routes, queue, lock, co, phase, restarts>>

-----------------------------------------------------------------------------
(* data_model.app_meta.Status without UNKNOWN, which no code assigns.      *)
Status == {"INSTALLATION_QUEUED", "INSTALLING", "STOPPED", "RUNNING",
           "PAUSED", "UNINSTALLATION_QUEUED", "UNINSTALLING",
           "REINSTALLATION_QUEUED", "REINSTALLING", "DOWN", "ERROR"}

(* The zip, the extracted archive (app_meta.json and the compose template) *)
(* and the rendered docker-compose.yml.                                    *)
FileKind == {"zip", "meta", "compose"}

ContainerState == {"running", "paused", "exited", "missing"}

TaskType == {"install from store", "install from zip", "uninstall", "reinstall"}

InstallationTask == [app : Apps, type : TaskType]

Revivals == {"wake", "revive"}    \* start_app, by a request or by the tick

Op == TaskType \cup Revivals \cup {"pause", "stop", "shutdown", "none"}

PC == {"idle", "move", "insert", "enqueue",
       "check", "flip", "download", "extract", "render", "create", "route",
       "finish", "error",
       "teardownLock", "teardownRead", "thawRead", "thawCmd", "thawMark",
       "teardownFlip", "rmtree", "remove",
       "startLock", "startRead", "startProbe", "startProbeRunning",
       "startUnpause", "startUp", "startMark", "pauseRead", "pauseCmd", "pauseWrite",
       "stopRead", "stopUnpause", "stopCmd", "stopWrite",
       "downRead", "downUnpause", "downCmd", "downWrite"}

Coroutine == [op : Op, app : Apps \cup {None}, pc : PC]

Coro(op, a, pc) == [op |-> op, app |-> a, pc |-> pc]

Idle == Coro("none", None, "idle")

At(x, pc) == co[x].pc = pc

Goto(x, pc) == co' = [co EXCEPT ![x].pc = pc]

Return(x) == co' = [co EXCEPT ![x] = Idle]

-----------------------------------------------------------------------------
(* Fault: the status write inserts a row that is gone.                     *)
UpsertStatus(a, s) == row' = [row EXCEPT ![a] = s]

(* UPDATE ... WHERE name = a: a removed row stays removed.                 *)
SetStatus(a, s) == row' = IF row[a] = "absent" THEN row ELSE [row EXCEPT ![a] = s]

Release(a) == lock' = [lock EXCEPT ![a] = None]

-----------------------------------------------------------------------------
(* Docker, which is external.  A compose command needs the app's compose   *)
(* file, succeeds only on the stack states listed for it, and may always   *)
(* fail.  The code's comments say that unpause errors on a stack that is   *)
(* not frozen, and that a frozen stack can be neither stopped nor removed; *)
(* the latter depends on docker, so both outcomes are possible here.       *)
Effect ==
    [up      |-> [missing |-> "running", exited |-> "running", running |-> "running"],
     create  |-> [missing |-> "exited", exited |-> "exited",
                  running |-> "running", paused |-> "paused"],
     pause   |-> [running |-> "paused"],
     unpause |-> [paused |-> "running", missing |-> "missing"],
     stop    |-> [running |-> "exited", exited |-> "exited", missing |-> "missing",
                  paused |-> "exited"],
     down    |-> [running |-> "missing", exited |-> "missing", missing |-> "missing",
                  paused |-> "missing"]]

(* What a failing command leaves behind: _compose_up may have run down and *)
(* may have created containers that did not start.                         *)
Residue(cmd, b) ==
    IF cmd = "up" /\ b # "paused" THEN {b, "missing", "exited"} ELSE {b}

HasCompose(a) == "compose" \in files[a]

Succeeds(cmd, a) ==
    /\ HasCompose(a)
    /\ box[a] \in DOMAIN Effect[cmd]
    /\ box' = [box EXCEPT ![a] = Effect[cmd][box[a]]]

(* ComposeFileNotFound or SubprocessError.                                 *)
Fails(cmd, a) ==
    IF HasCompose(a)
    THEN \E b \in Residue(cmd, box[a]) : box' = [box EXCEPT ![a] = b]
    ELSE UNCHANGED box
=============================================================================
