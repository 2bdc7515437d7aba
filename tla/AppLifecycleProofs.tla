------------------------- MODULE AppLifecycleProofs -------------------------
(***************************************************************************)
(* Safety of AppLifecycle for every value of its constants: an inductive   *)
(* invariant about who is where and who holds which lock, preserved by     *)
(* every action because each is a "good" step of one coroutine.            *)
(***************************************************************************)
EXTENDS AppLifecycle, FiniteSetTheorems, TLAPS

-----------------------------------------------------------------------------
Commands == {"up", "create", "pause", "unpause", "stop", "down"}

(* A docker command that succeeds leaves a container state.                *)
LEMMA EffectType ==
    ASSUME NEW cmd \in Commands, NEW b \in DOMAIN Effect[cmd]
    PROVE  Effect[cmd][b] \in ContainerState
<1>1. CASE cmd = "up"      BY <1>1 DEF Effect, ContainerState
<1>2. CASE cmd = "create"  BY <1>2 DEF Effect, ContainerState
<1>3. CASE cmd = "pause"   BY <1>3 DEF Effect, ContainerState
<1>4. CASE cmd = "unpause" BY <1>4 DEF Effect, ContainerState
<1>5. CASE cmd = "stop"    BY <1>5 DEF Effect, ContainerState
<1>6. CASE cmd = "down"    BY <1>6 DEF Effect, ContainerState
<1>7. QED BY <1>1, <1>2, <1>3, <1>4, <1>5, <1>6 DEF Commands

(* Succeeding or failing, a docker command keeps the type of box.          *)
LEMMA DockerType ==
    ASSUME NEW cmd \in Commands, NEW a \in Apps, box \in [Apps -> ContainerState],
           Succeeds(cmd, a) \/ Fails(cmd, a)
    PROVE  box' \in [Apps -> ContainerState]
<1>1. CASE Succeeds(cmd, a)
  BY <1>1, EffectType DEF Succeeds
<1>2. CASE Fails(cmd, a)
  <2>1. \A b \in Residue(cmd, box[a]) : b \in ContainerState
    BY DEF Residue, ContainerState
  <2>2. QED BY <1>2, <2>1 DEF Fails
<1>3. QED BY <1>1, <1>2

(* The UPDATE of a status (SetStatus) keeps the type of the table and      *)
(* neither adds nor removes a row.                                         *)
LEMMA StatusType ==
    ASSUME NEW a \in Apps, NEW s \in Status,
           row \in [Apps -> Status \cup {"absent"}], SetStatus(a, s)
    PROVE  /\ row' \in [Apps -> Status \cup {"absent"}]
           /\ \A b \in Apps : row'[b] = "absent" <=> row[b] = "absent"
  BY DEF SetStatus, Status

(* Moving a coroutine to its next await changes only its pc.               *)
LEMMA GotoType ==
    ASSUME NEW x \in Actors, NEW pc \in PC, co \in [Actors -> Coroutine], Goto(x, pc)
    PROVE  /\ co' \in [Actors -> Coroutine]
           /\ co'[x].pc = pc /\ co'[x].op = co[x].op /\ co'[x].app = co[x].app
           /\ \A y \in Actors \ {x} : co'[y] = co[y]
  BY DEF Goto, Coroutine

(* A finished coroutine is a coroutine.                                    *)
LEMMA IdleType == Idle \in Coroutine
  BY DEF Idle, Coro, Coroutine, Op, PC

(* A coroutine that returns becomes idle and leaves the others alone.      *)
LEMMA ReturnType ==
    ASSUME NEW x \in Actors, co \in [Actors -> Coroutine], Return(x)
    PROVE  /\ co' \in [Actors -> Coroutine]
           /\ co'[x] = Idle
           /\ \A y \in Actors \ {x} : co'[y] = co[y]
  BY IdleType DEF Return

-----------------------------------------------------------------------------
RequestPC == {"move", "insert", "enqueue"}

StartPC == {"startLock", "startRead", "startProbe", "startProbeRunning", "startUnpause",
            "startUp", "startMark"}

ActingPC == {"startProbe", "startProbeRunning", "startUnpause", "startUp", "startMark"}

PausePC == {"pauseRead", "pauseCmd", "pauseWrite"}

StopPC == {"stopRead", "stopUnpause", "stopCmd", "stopWrite"}

DownPC == {"downRead", "downUnpause", "downCmd", "downWrite"}

InstallPC == {"check", "flip", "download", "extract", "render", "create", "route",
              "finish", "error"}

TeardownPC == {"teardownLock", "teardownRead", "thawRead", "thawCmd", "thawMark",
               "teardownFlip", "rmtree", "remove", "route"} \cup StopPC \cup DownPC

UninstallOnlyPC == {"teardownLock", "teardownRead", "thawRead", "thawCmd", "thawMark",
                    "teardownFlip", "remove"}

(* A coroutine is where its code can be.                                   *)
InCode(x) ==
    \/ co[x] = Idle
    \/ /\ x \in Tasks /\ co[x].app \in Apps
       /\ \/ co[x].op \in TaskType /\ co[x].pc \in RequestPC
          \/ co[x].op \in Revivals /\ co[x].pc \in StartPC
          \/ co[x].op = "pause" /\ co[x].pc \in PausePC
          \/ co[x].op = "stop" /\ co[x].pc \in StopPC
    \/ /\ x = Worker /\ co[x].app \in Apps
       /\ \/ co[x].op \in InstallTypes /\ co[x].pc \in InstallPC
          \/ /\ co[x].op = "reinstall"
             /\ co[x].pc \in InstallPC \cup StopPC \cup DownPC \cup {"rmtree"}
          \/ co[x].op = "uninstall" /\ co[x].pc \in TeardownPC
    \/ x \in Apps /\ co[x].app = x /\ co[x].op = "shutdown" /\ co[x].pc \in DownPC

(* x is inside an "async with app_op_lock".                                *)
Critical(x) ==
    \/ co[x].op \in Revivals /\ co[x].pc # "startLock"
    \/ x = Worker /\ co[x].op = "uninstall" /\ co[x].pc # "teardownLock"

Acting(x) == co[x].pc \in ActingPC

IInv ==
    /\ TypeOK
    /\ phase = "stopping" => restarts < MaxRestarts
    /\ \A x \in Actors : InCode(x)
    /\ \A x \in Actors : Critical(x) => lock[co[x].app] = x
    /\ \A x \in Actors : Acting(x) => row[co[x].app] # "absent"

-----------------------------------------------------------------------------
(* A step of coroutine x leaves the other coroutines alone, and takes a    *)
(* free lock, gives back its own, or touches no lock.                      *)
LockCase(x) ==
    \/ lock' = lock /\ (Critical(x)' => Critical(x) /\ co'[x].app = co[x].app)
    \/ /\ lock[co[x].app] = None /\ co'[x].app = co[x].app
       /\ lock' = [lock EXCEPT ![co[x].app] = x]
    \/ Critical(x) /\ ~Critical(x)' /\ lock' = [lock EXCEPT ![co[x].app] = None]

Moves(x) ==
    /\ co' \in [Actors -> Coroutine]
    /\ lock' \in [Apps -> Actors \cup {None}]
    /\ \A y \in Actors \ {x} : co'[y] = co[y]
    /\ InCode(x)'
    /\ LockCase(x)

(* A new row is INSTALLATION_QUEUED, and no row goes away, except the one  *)
(* whose lock the worker holds.                                            *)
RowCase(x) ==
    /\ \A a \in Apps : row[a] = "absent" => row'[a] \in {"absent", "INSTALLATION_QUEUED"}
    /\ \/ \A a \in Apps : row[a] # "absent" => row'[a] # "absent"
       \/ x = Worker /\ Critical(x) /\ \A a \in Apps \ {co[x].app} : row'[a] = row[a]

Good(x) ==
    /\ Moves(x)
    /\ RowCase(x)
    /\ TypeOK'
    /\ phase' = phase /\ restarts' = restarts
    /\ Acting(x)' => co'[x].app = co[x].app /\ co[x].app \in Apps /\ row[co[x].app] # "absent"

(* Where a coroutine is tells whose it is and what it does.                *)
LEMMA Whereabouts ==
    ASSUME IInv, NEW x \in Actors
    PROVE  /\ co[x].pc # "idle" => co[x].app \in Apps
           /\ co[x].pc \in StartPC => x \in Tasks /\ co[x].op \in Revivals
           /\ co[x].pc \in PausePC => x \in Tasks /\ co[x].op = "pause"
           /\ co[x].pc \in RequestPC => x \in Tasks /\ co[x].op \in TaskType
           /\ co[x].pc \in StopPC \cup DownPC =>
                 \/ x \in Tasks /\ co[x].op = "stop"
                 \/ x = Worker /\ co[x].op \in {"uninstall", "reinstall"}
                 \/ x \in Apps /\ co[x].op = "shutdown" /\ co[x].pc \in DownPC
           /\ co[x].pc \in UninstallOnlyPC => x = Worker /\ co[x].op = "uninstall"
           /\ co[x].pc \in InstallPC \ {"route"} =>
                 x = Worker /\ co[x].op \in InstallTypes \cup {"reinstall"}
           /\ co[x].pc = "route" =>
                 x = Worker /\ co[x].op \in InstallTypes \cup {"reinstall", "uninstall"}
           /\ co[x].pc = "rmtree" => x = Worker /\ co[x].op \in {"reinstall", "uninstall"}
<1> USE DEF StartPC, PausePC, RequestPC, StopPC, DownPC, InstallPC, TeardownPC, UninstallOnlyPC
<1>1. InCode(x)
  BY DEF IInv
<1>2. CASE co[x] = Idle
  BY <1>2 DEF Idle, Coro
<1>3. CASE x \in Tasks /\ co[x].app \in Apps
  BY <1>1, <1>3, ActorsAssumption DEF InCode, Idle, Coro
<1>4. CASE x = Worker /\ co[x].app \in Apps
  <2>1. CASE co[x].op \in InstallTypes /\ co[x].pc \in InstallPC
    BY <1>4, <2>1 DEF InstallTypes
  <2>2. CASE /\ co[x].op = "reinstall"
             /\ co[x].pc \in InstallPC \cup StopPC \cup DownPC \cup {"rmtree"}
    BY <1>4, <2>2
  <2>3. CASE co[x].op = "uninstall" /\ co[x].pc \in TeardownPC
    BY <1>4, <2>3
  <2>4. QED BY <1>1, <1>2, <1>4, <2>1, <2>2, <2>3, ActorsAssumption DEF InCode
<1>5. CASE x \in Apps /\ co[x].app = x
  BY <1>1, <1>5, ActorsAssumption DEF InCode, Idle, Coro
<1>6. QED BY <1>1, <1>2, <1>3, <1>4, <1>5 DEF InCode

(* A coroutine that holds an op lock works on an app.                      *)
LEMMA CriticalApp ==
    ASSUME NEW x, Critical(x), InCode(x)
    PROVE  co[x].app \in Apps
  BY DEF Critical, InCode, Idle, Coro, Revivals

(* A coroutine that returns without a lock moves within its code.          *)
LEMMA ReturnMoves ==
    ASSUME IInv, NEW x \in Actors, Return(x), UNCHANGED lock
    PROVE  Moves(x) /\ ~Acting(x)'
  BY ReturnType DEF Moves, IInv, TypeOK, InCode, LockCase, Critical, Acting, ActingPC,
     Idle, Coro, Revivals

(* The end of an async-with block gives the lock back to nobody.           *)
LEMMA ReleaseMoves ==
    ASSUME IInv, NEW x \in Actors, ReleaseAndReturn(x), Critical(x), co[x].app \in Apps
    PROVE  Moves(x) /\ ~Acting(x)'
  BY ReturnType DEF Moves, IInv, TypeOK, InCode, LockCase, Critical, Acting, ActingPC,
     Idle, Coro, Revivals, ReleaseAndReturn, Release

(* A coroutine that has no lock to wait for goes on within its code.       *)
LEMMA GotoMoves ==
    ASSUME IInv, NEW x \in Actors, NEW pc \in PC, Goto(x, pc), UNCHANGED lock,
           co[x].pc \notin {"idle", "startLock", "teardownLock"},
           \/ co[x].pc \in StartPC /\ pc \in ActingPC
           \/ co[x].pc \in PausePC /\ pc \in PausePC
           \/ co[x].pc \in RequestPC /\ pc \in RequestPC
           \/ co[x].pc \in StopPC /\ pc \in StopPC
           \/ co[x].pc \in DownPC /\ pc \in DownPC
           \/ x = Worker /\ co[x].op = "uninstall" /\ pc \in TeardownPC
           \/ x = Worker /\ co[x].op # "uninstall" /\ pc \in InstallPC
           \/ x = Worker /\ co[x].op = "reinstall" /\ pc \in StopPC \cup DownPC \cup {"rmtree"}
    PROVE  /\ Moves(x)
           /\ co'[x].app = co[x].app /\ co[x].app \in Apps
           /\ Acting(x)' => pc \in ActingPC
<1>1. /\ co' \in [Actors -> Coroutine]
      /\ co'[x].pc = pc /\ co'[x].op = co[x].op /\ co'[x].app = co[x].app
      /\ \A y \in Actors \ {x} : co'[y] = co[y]
  BY GotoType DEF IInv, TypeOK
<1>2. co[x].app \in Apps
  BY Whereabouts
<1>3. InCode(x)'
  <2> USE DEF StartPC, ActingPC, PausePC, RequestPC, StopPC, DownPC, InstallPC, TeardownPC
  <2>1. InCode(x) /\ co[x] # Idle
    BY DEF IInv, Idle, Coro
  <2>2. CASE x \in Tasks
    BY <1>1, <1>2, <2>1, <2>2, ActorsAssumption DEF InCode
  <2>3. CASE x = Worker
    BY <1>1, <1>2, <2>1, <2>3, ActorsAssumption DEF InCode, InstallTypes
  <2>4. CASE x \in Apps
    BY <1>1, <1>2, <2>1, <2>4, ActorsAssumption DEF InCode
  <2>5. QED BY <2>2, <2>3, <2>4 DEF Actors
<1>4. LockCase(x)
  BY <1>1 DEF LockCase, Critical
<1>5. QED BY <1>1, <1>2, <1>3, <1>4 DEF Moves, IInv, TypeOK, Acting

(* A step that touches at most the lock and its own coroutine is good.     *)
LEMMA LocalGood ==
    ASSUME IInv, NEW x \in Actors, Moves(x),
           UNCHANGED <<row, files, box, routes, queue, phase, restarts>>,
           Acting(x)' => co'[x].app = co[x].app /\ co[x].app \in Apps /\ row[co[x].app] # "absent"
    PROVE  Good(x)
  BY DEF Good, RowCase, Moves, IInv, TypeOK

(* A step that runs a docker command is good.                              *)
LEMMA DockerGood ==
    ASSUME IInv, NEW x \in Actors, Moves(x), co[x].app \in Apps,
           NEW cmd \in Commands, Succeeds(cmd, co[x].app) \/ Fails(cmd, co[x].app),
           UNCHANGED <<row, files, routes, queue, phase, restarts>>,
           Acting(x)' => co'[x].app = co[x].app /\ co[x].app \in Apps /\ row[co[x].app] # "absent"
    PROVE  Good(x)
<1>1. box' \in [Apps -> ContainerState]
  BY DockerType DEF IInv, TypeOK
<1>2. QED BY <1>1 DEF Good, RowCase, Moves, IInv, TypeOK

(* A step that writes a status is good.                                    *)
LEMMA StatusGood ==
    ASSUME IInv, NEW x \in Actors, Moves(x), co[x].app \in Apps,
           NEW s \in Status, SetStatus(co[x].app, s),
           UNCHANGED <<files, box, routes, queue, phase, restarts>>,
           ~Acting(x)'
    PROVE  Good(x)
<1>1. /\ row' \in [Apps -> Status \cup {"absent"}]
      /\ \A b \in Apps : row'[b] = "absent" <=> row[b] = "absent"
  BY StatusType DEF IInv, TypeOK
<1>2. QED BY <1>1 DEF Good, RowCase, Moves, IInv, TypeOK

(* A step that changes the app's files is good.                            *)
LEMMA FilesGood ==
    ASSUME IInv, NEW x \in Actors, Moves(x), co[x].app \in Apps,
           NEW F \in SUBSET FileKind, files' = [files EXCEPT ![co[x].app] = F],
           UNCHANGED <<row, box, routes, queue, phase, restarts>>,
           ~Acting(x)'
    PROVE  Good(x)
  BY DEF Good, RowCase, Moves, IInv, TypeOK

-----------------------------------------------------------------------------
(* app_tools.py *)

(* Acquiring an op lock (start_app, _uninstall_app) is good: the lock was  *)
(* free.                                                                   *)
LEMMA LockGood ==
    ASSUME IInv, NEW x \in Actors, StartLock(x) \/ TeardownLock(x)
    PROVE  Good(x)
<1>1. CASE StartLock(x)
  <2>1. /\ co[x].pc = "startLock" /\ co[x].app \in Apps
        /\ x \in Tasks /\ co[x].op \in Revivals
    BY <1>1, Whereabouts DEF StartLock, At, StartPC
  <2>2. /\ co' \in [Actors -> Coroutine]
        /\ co'[x].pc = "startRead" /\ co'[x].op = co[x].op /\ co'[x].app = co[x].app
        /\ \A y \in Actors \ {x} : co'[y] = co[y]
    BY <1>1, GotoType DEF StartLock, IInv, TypeOK, PC
  <2>3. Moves(x) /\ ~Acting(x)'
    BY <1>1, <2>1, <2>2 DEF StartLock, Moves, LockCase, InCode, StartPC, ActingPC, Acting, IInv, TypeOK
  <2>4. QED BY <1>1, <2>3, LocalGood DEF StartLock
<1>2. CASE TeardownLock(x)
  <2>1. /\ co[x].pc = "teardownLock" /\ co[x].app \in Apps
        /\ x = Worker /\ co[x].op = "uninstall"
    BY <1>2, Whereabouts DEF TeardownLock, At, UninstallOnlyPC
  <2>2. /\ co' \in [Actors -> Coroutine]
        /\ co'[x].pc = "teardownRead" /\ co'[x].op = co[x].op /\ co'[x].app = co[x].app
        /\ \A y \in Actors \ {x} : co'[y] = co[y]
    BY <1>2, GotoType DEF TeardownLock, IInv, TypeOK, PC
  <2>3. Moves(x) /\ ~Acting(x)'
    BY <1>2, <2>1, <2>2 DEF TeardownLock, Moves, LockCase, InCode, TeardownPC, ActingPC, Acting,
       IInv, TypeOK
  <2>4. QED BY <1>2, <2>3, LocalGood DEF TeardownLock
<1>3. QED BY <1>1, <1>2

(* The steps of start_app under the lock are good.                         *)
LEMMA StartGood ==
    ASSUME IInv, NEW x \in Actors,
           StartRead(x) \/ StartProbe(x) \/ StartUnpause(x) \/ StartUp(x) \/ StartMark(x)
    PROVE  Good(x)
<1> DEFINE a == co[x].app
<1>1. /\ co[x].pc \in StartPC \ {"startLock"} /\ a \in Apps
      /\ x \in Tasks /\ co[x].op \in Revivals
  BY Whereabouts DEF StartRead, StartProbe, StartUnpause, StartUp, StartMark, At, StartPC
<1>2. Critical(x)
  BY <1>1 DEF Critical, StartPC
<1>3. co[x].pc \in ActingPC => row[a] # "absent"
  BY DEF IInv, Acting
<1>4. ASSUME ReleaseAndReturn(x)
      PROVE  Moves(x) /\ ~Acting(x)'
  BY <1>1, <1>2, <1>4, ReleaseMoves
<1>5. ASSUME NEW pc \in ActingPC, Goto(x, pc), UNCHANGED lock
      PROVE  Moves(x) /\ co'[x].app = a
  BY <1>1, <1>5, GotoMoves DEF StartPC, ActingPC, PC
<1>6. CASE StartRead(x)
  <2>1. CASE row[a] \in REVIVABLE_STATUS
    <3>1. \E pc \in ActingPC : Goto(x, pc) /\ UNCHANGED lock
      BY <1>6, <2>1 DEF StartRead, ActingPC
    <3>2. row[a] # "absent"
      BY <2>1 DEF REVIVABLE_STATUS
    <3>3. QED BY <1>1, <1>5, <1>6, <3>1, <3>2, LocalGood DEF StartRead
  <2>2. CASE row[a] \notin REVIVABLE_STATUS
    BY <1>4, <1>6, <2>2, LocalGood DEF StartRead
  <2>3. QED BY <2>1, <2>2
<1>7. CASE StartProbe(x)
  <2>1. co[x].pc \in ActingPC
    BY <1>7 DEF StartProbe, At, ActingPC
  <2>2. \/ ReleaseAndReturn(x)
        \/ \E pc \in ActingPC : Goto(x, pc) /\ UNCHANGED lock
    BY <1>7 DEF StartProbe, ActingPC
  <2>3. QED BY <1>1, <1>3, <1>4, <1>5, <1>7, <2>1, <2>2, LocalGood DEF StartProbe
<1>8. CASE StartUnpause(x)
  <2>1. co[x].pc \in ActingPC
    BY <1>8 DEF StartUnpause, At, ActingPC
  <2>2. CASE ReleaseAndReturn(x) /\ UNCHANGED box
    BY <1>4, <1>8, <2>2, LocalGood DEF StartUnpause
  <2>3. CASE /\ Succeeds("unpause", a) \/ Fails("unpause", a)
             /\ \E pc \in ActingPC : Goto(x, pc) /\ UNCHANGED lock
    BY <1>1, <1>3, <1>5, <1>8, <2>1, <2>3, DockerGood DEF StartUnpause, Commands
  <2>4. QED BY <1>8, <2>2, <2>3 DEF StartUnpause, ActingPC
<1>9. CASE StartUp(x)
  <2>1. co[x].pc \in ActingPC
    BY <1>9 DEF StartUp, At, ActingPC
  <2>2. Succeeds("up", a) \/ Fails("up", a)
    BY <1>9 DEF StartUp
  <2>3. ReleaseAndReturn(x) \/ (Goto(x, "startMark") /\ UNCHANGED lock)
    BY <1>9 DEF StartUp
  <2>4. QED BY <1>1, <1>3, <1>4, <1>5, <1>9, <2>1, <2>2, <2>3, DockerGood
         DEF StartUp, Commands, ActingPC
<1>10. CASE StartMark(x)
  BY <1>1, <1>4, <1>10, StatusGood DEF StartMark, Status
<1>11. QED BY <1>6, <1>7, <1>8, <1>9, <1>10

(* The steps of docker_pause_app are good.                                 *)
LEMMA PauseGood ==
    ASSUME IInv, NEW x \in Actors, PauseRead(x) \/ PauseCmd(x) \/ PauseWrite(x)
    PROVE  Good(x)
<1> DEFINE a == co[x].app
<1>1. co[x].pc \in PausePC /\ a \in Apps /\ x \in Tasks /\ UNCHANGED lock
  BY Whereabouts DEF PauseRead, PauseCmd, PauseWrite, At, PausePC
<1>2. ASSUME \/ Return(x)
             \/ \E pc \in PausePC : Goto(x, pc)
      PROVE  Moves(x) /\ ~Acting(x)'
  BY <1>1, <1>2, ReturnMoves, GotoMoves DEF PausePC, ActingPC, PC
<1>3. CASE PauseRead(x)
  BY <1>2, <1>3, LocalGood DEF PauseRead, PausePC
<1>4. CASE PauseCmd(x)
  <2>1. Succeeds("pause", a) \/ Fails("pause", a)
    BY <1>4 DEF PauseCmd
  <2>2. Moves(x) /\ ~Acting(x)'
    BY <1>2, <1>4 DEF PauseCmd, PausePC
  <2>3. QED BY <1>1, <1>4, <2>1, <2>2, DockerGood DEF PauseCmd, Commands
<1>5. CASE PauseWrite(x)
  <2>1. Moves(x) /\ ~Acting(x)'
    BY <1>2, <1>5 DEF PauseWrite
  <2>2. CASE UNCHANGED row
    BY <1>5, <2>1, <2>2, LocalGood DEF PauseWrite
  <2>3. CASE SetStatus(a, "PAUSED")
    BY <1>1, <1>5, <2>1, <2>3, StatusGood DEF PauseWrite, Status
  <2>4. QED BY <1>5, <2>2, <2>3 DEF PauseWrite
<1>6. QED BY <1>3, <1>4, <1>5

(* The steps of docker_stop_app are good, for the tick and for the worker. *)
LEMMA StopGood ==
    ASSUME IInv, NEW x \in Actors,
           StopRead(x) \/ StopUnpause(x) \/ StopCmd(x) \/ StopWrite(x)
    PROVE  Good(x)
<1> DEFINE a == co[x].app
<1>1. co[x].pc \in StopPC /\ a \in Apps /\ UNCHANGED lock
  BY Whereabouts DEF StopRead, StopUnpause, StopCmd, StopWrite, At, StopPC
<1>2. x = Worker => co[x].op \in {"uninstall", "reinstall"}
  BY <1>1, Whereabouts, ActorsAssumption
<1>3. ASSUME \/ Return(x)
             \/ \E pc \in StopPC : Goto(x, pc)
             \/ x = Worker /\ \E pc \in DownPC \cup {"rmtree"} : Goto(x, pc)
      PROVE  Moves(x) /\ ~Acting(x)'
  <2>1. CASE Return(x)
    BY <1>1, <2>1, ReturnMoves
  <2>2. CASE \E pc \in StopPC : Goto(x, pc)
    BY <1>1, <2>2, GotoMoves DEF StopPC, ActingPC, PC
  <2>3. CASE x = Worker /\ \E pc \in DownPC \cup {"rmtree"} : Goto(x, pc)
    BY <1>1, <1>2, <2>3, GotoMoves DEF StopPC, DownPC, TeardownPC, ActingPC, PC
  <2>4. QED BY <1>3, <2>1, <2>2, <2>3
<1>4. ASSUME AfterStop(x) \/ Raise(x)
      PROVE  Moves(x) /\ ~Acting(x)'
  BY <1>3, <1>4 DEF AfterStop, Raise, DownPC
<1>5. CASE StopRead(x)
  <2>1. Moves(x) /\ ~Acting(x)'
    BY <1>3, <1>4, <1>5 DEF StopRead, StopPC
  <2>2. QED BY <1>5, <2>1, LocalGood DEF StopRead
<1>6. CASE StopUnpause(x)
  <2>1. Moves(x) /\ ~Acting(x)'
    BY <1>3, <1>4, <1>6 DEF StopUnpause, StopPC
  <2>2. Succeeds("unpause", a) \/ Fails("unpause", a)
    BY <1>6 DEF StopUnpause
  <2>3. QED BY <1>1, <1>6, <2>1, <2>2, DockerGood DEF StopUnpause, Commands
<1>7. CASE StopCmd(x)
  <2>1. Moves(x) /\ ~Acting(x)'
    BY <1>3, <1>4, <1>7 DEF StopCmd, StopPC
  <2>2. Succeeds("stop", a) \/ Fails("stop", a)
    BY <1>7 DEF StopCmd
  <2>3. QED BY <1>1, <1>7, <2>1, <2>2, DockerGood DEF StopCmd, Commands
<1>8. CASE StopWrite(x)
  <2>1. Moves(x) /\ ~Acting(x)'
    BY <1>4, <1>8 DEF StopWrite
  <2>2. QED BY <1>1, <1>8, <2>1, StatusGood DEF StopWrite, Status
<1>9. QED BY <1>5, <1>6, <1>7, <1>8

(* The steps of docker_shutdown_app are good, for the worker and for the   *)
(* shutdown of the process.                                                *)
LEMMA DownGood ==
    ASSUME IInv, NEW x \in Actors,
           DownRead(x) \/ DownUnpause(x) \/ DownCmd(x) \/ DownWrite(x)
    PROVE  Good(x)
<1> DEFINE a == co[x].app
<1>1. co[x].pc \in DownPC /\ a \in Apps /\ UNCHANGED lock
  BY Whereabouts DEF DownRead, DownUnpause, DownCmd, DownWrite, At, DownPC
<1>2. x = Worker => co[x].op \in {"uninstall", "reinstall"}
  BY <1>1, Whereabouts, ActorsAssumption
<1>3. ASSUME \/ Return(x)
             \/ \E pc \in DownPC : Goto(x, pc)
             \/ x = Worker /\ Goto(x, "rmtree")
      PROVE  Moves(x) /\ ~Acting(x)'
  <2>1. CASE Return(x)
    BY <1>1, <2>1, ReturnMoves
  <2>2. CASE \E pc \in DownPC : Goto(x, pc)
    BY <1>1, <2>2, GotoMoves DEF DownPC, ActingPC, PC
  <2>3. CASE x = Worker /\ Goto(x, "rmtree")
    BY <1>1, <1>2, <2>3, GotoMoves DEF DownPC, TeardownPC, ActingPC, PC
  <2>4. QED BY <1>3, <2>1, <2>2, <2>3
<1>4. ASSUME AfterDown(x) \/ Raise(x)
      PROVE  Moves(x) /\ ~Acting(x)'
  BY <1>3, <1>4 DEF AfterDown, Raise
<1>5. CASE DownRead(x)
  <2>1. Moves(x) /\ ~Acting(x)'
    BY <1>3, <1>4, <1>5 DEF DownRead, DownPC
  <2>2. QED BY <1>5, <2>1, LocalGood DEF DownRead
<1>6. CASE DownUnpause(x)
  <2>1. Moves(x) /\ ~Acting(x)'
    BY <1>3, <1>4, <1>6 DEF DownUnpause, DownPC
  <2>2. Succeeds("unpause", a) \/ Fails("unpause", a)
    BY <1>6 DEF DownUnpause
  <2>3. QED BY <1>1, <1>6, <2>1, <2>2, DockerGood DEF DownUnpause, Commands
<1>7. CASE DownCmd(x)
  <2>1. Moves(x) /\ ~Acting(x)'
    BY <1>3, <1>4, <1>7 DEF DownCmd, DownPC
  <2>2. Succeeds("down", a) \/ Fails("down", a)
    BY <1>7 DEF DownCmd
  <2>3. QED BY <1>1, <1>7, <2>1, <2>2, DockerGood DEF DownCmd, Commands
<1>8. CASE DownWrite(x)
  <2>1. Moves(x) /\ ~Acting(x)'
    BY <1>4, <1>8 DEF DownWrite
  <2>2. QED BY <1>1, <1>8, <2>1, StatusGood DEF DownWrite, Status
<1>9. QED BY <1>5, <1>6, <1>7, <1>8

-----------------------------------------------------------------------------
(* app_installation *)

(* A step that inserts a row or sets the status of an existing one is      *)
(* good.                                                                   *)
LEMMA RowGood ==
    ASSUME IInv, NEW x \in Actors, Moves(x), NEW a \in Apps,
           NEW s \in Status, row' = [row EXCEPT ![a] = s],
           row[a] = "absent" => s = "INSTALLATION_QUEUED",
           UNCHANGED <<files, box, routes, queue, phase, restarts>>,
           ~Acting(x)'
    PROVE  Good(x)
<1>1. s # "absent"
  BY DEF Status
<1>2. QED BY <1>1 DEF Good, RowCase, Moves, IInv, TypeOK

(* The steps of the install, uninstall and reinstall requests are good.    *)
LEMMA RequestGood ==
    ASSUME IInv, NEW x \in Actors, RequestStep(x)
    PROVE  Good(x)
<1> DEFINE a == co[x].app
<1>1. co[x].pc \in RequestPC /\ UNCHANGED lock
  BY DEF RequestStep, MoveZip, InsertRow, Enqueue, At, RequestPC
<1>2. a \in Apps /\ x \in Tasks /\ co[x].op \in TaskType
  BY <1>1, Whereabouts DEF RequestPC
<1>3. ASSUME \/ Return(x)
             \/ \E pc \in RequestPC : Goto(x, pc)
      PROVE  Moves(x) /\ ~Acting(x)'
  BY <1>1, <1>3, ReturnMoves, GotoMoves DEF RequestPC, ActingPC, PC
<1>4. CASE MoveZip(x)
  <2>1. files[a] \cup {"zip"} \in SUBSET FileKind
    BY <1>2 DEF IInv, TypeOK, FileKind
  <2>2. Moves(x) /\ ~Acting(x)'
    BY <1>3, <1>4 DEF MoveZip, RequestPC
  <2>3. QED BY <1>2, <1>4, <2>1, <2>2, FilesGood DEF MoveZip
<1>5. CASE InsertRow(x)
  <2>1. Moves(x) /\ ~Acting(x)'
    BY <1>3, <1>5 DEF InsertRow, RequestPC
  <2>2. CASE UNCHANGED row
    BY <1>5, <2>1, <2>2, LocalGood DEF InsertRow
  <2>3. CASE row' = [row EXCEPT ![a] = "INSTALLATION_QUEUED"]
    BY <1>2, <1>5, <2>1, <2>3, RowGood DEF InsertRow, Status
  <2>4. QED BY <1>5, <2>2, <2>3 DEF InsertRow
<1>6. CASE Enqueue(x)
  <2>1. Moves(x) /\ ~Acting(x)'
    BY <1>3, <1>6 DEF Enqueue
  <2>2. [app |-> a, type |-> co[x].op] \in InstallationTask
    BY <1>2 DEF InstallationTask
  <2>3. queue' \in Seq(InstallationTask)
    BY <1>6, <2>2 DEF Enqueue, IInv, TypeOK
  <2>4. QED BY <1>6, <2>1, <2>3 DEF Enqueue, Good, RowCase, Moves, IInv, TypeOK
<1>7. QED BY <1>4, <1>5, <1>6 DEF RequestStep

(* The steps of the worker's install are good.                             *)
LEMMA InstallGood ==
    ASSUME IInv, NEW x \in Actors,
           \/ Check(x) \/ Flip(x) \/ Download(x) \/ Extract(x) \/ Render(x) \/ Create(x)
           \/ FinishInstall(x) \/ InstallError(x)
    PROVE  Good(x)
<1> DEFINE a == co[x].app
<1>1. co[x].pc \in InstallPC \ {"route"} /\ UNCHANGED lock
  BY DEF Check, Flip, Download, Extract, Render, Create, FinishInstall, InstallError, At, InstallPC
<1>2. a \in Apps /\ x = Worker /\ co[x].op \in InstallTypes \cup {"reinstall"}
  BY <1>1, Whereabouts DEF InstallPC
<1>3. ASSUME \/ Return(x)
             \/ \E pc \in InstallPC : Goto(x, pc)
             \/ co[x].op = "reinstall" /\ \E pc \in StopPC : Goto(x, pc)
      PROVE  Moves(x) /\ ~Acting(x)'
  <2>1. CASE Return(x)
    BY <1>1, <2>1, ReturnMoves
  <2>2. CASE \E pc \in InstallPC : Goto(x, pc)
    <3>1. PICK pc \in InstallPC : Goto(x, pc)
      BY <2>2
    <3>2. pc \in PC /\ pc \notin ActingPC
      BY DEF InstallPC, ActingPC, PC
    <3>3. co[x].op # "uninstall" /\ co[x].pc \notin {"idle", "startLock", "teardownLock"}
      BY <1>1, <1>2 DEF InstallPC, InstallTypes
    <3>4. QED BY <1>1, <1>2, <3>1, <3>2, <3>3, GotoMoves
  <2>3. CASE co[x].op = "reinstall" /\ \E pc \in StopPC : Goto(x, pc)
    BY <1>1, <1>2, <2>3, GotoMoves DEF InstallPC, StopPC, ActingPC, PC
  <2>4. QED BY <1>3, <2>1, <2>2, <2>3
<1>4. CASE Check(x)
  BY <1>3, <1>4, LocalGood DEF Check, InstallPC
<1>5. CASE Flip(x)
  <2>1. Moves(x) /\ ~Acting(x)'
    <3>1. \/ Return(x)
          \/ Goto(x, "download") \/ Goto(x, "extract")
          \/ co[x].op = "reinstall" /\ Goto(x, "stopRead")
      BY <1>5 DEF Flip
    <3>2. QED BY <1>3, <3>1 DEF InstallPC, StopPC
  <2>2. CASE UNCHANGED row
    BY <1>5, <2>1, <2>2, LocalGood DEF Flip
  <2>3. CASE \E s \in Status : SetStatus(a, s)
    BY <1>2, <1>5, <2>1, <2>3, StatusGood DEF Flip
  <2>4. QED BY <1>5, <2>2, <2>3 DEF Flip, Status
<1>6. CASE Download(x)
  <2>1. Moves(x) /\ ~Acting(x)'
    BY <1>3, <1>6 DEF Download, InstallPC
  <2>2. CASE UNCHANGED files
    BY <1>6, <2>1, <2>2, LocalGood DEF Download
  <2>3. CASE files' = [files EXCEPT ![a] = files[a] \cup {"zip"}]
    <3>1. files[a] \cup {"zip"} \in SUBSET FileKind
      BY <1>2 DEF IInv, TypeOK, FileKind
    <3>2. QED BY <1>2, <1>6, <2>1, <2>3, <3>1, FilesGood DEF Download
  <2>4. QED BY <1>6, <2>2, <2>3 DEF Download
<1>7. CASE Extract(x)
  <2>1. Moves(x) /\ ~Acting(x)'
    BY <1>3, <1>7 DEF Extract, InstallPC
  <2>2. CASE UNCHANGED files
    BY <1>7, <2>1, <2>2, LocalGood DEF Extract
  <2>3. CASE files' = [files EXCEPT ![a] = files[a] \cup {"meta"}]
    <3>1. files[a] \cup {"meta"} \in SUBSET FileKind
      BY <1>2 DEF IInv, TypeOK, FileKind
    <3>2. QED BY <1>2, <1>7, <2>1, <2>3, <3>1, FilesGood DEF Extract
  <2>4. QED BY <1>7, <2>2, <2>3 DEF Extract
<1>8. CASE Render(x)
  <2>1. Moves(x) /\ ~Acting(x)'
    BY <1>3, <1>8 DEF Render, InstallPC
  <2>2. \E F \in SUBSET FileKind : files' = [files EXCEPT ![a] = F]
    BY <1>2, <1>8 DEF Render, IInv, TypeOK, FileKind
  <2>3. QED BY <1>2, <1>8, <2>1, <2>2, FilesGood DEF Render
<1>9. CASE Create(x)
  <2>1. Moves(x) /\ ~Acting(x)'
    BY <1>3, <1>9 DEF Create, InstallPC
  <2>2. Succeeds("create", a) \/ Fails("create", a)
    BY <1>9 DEF Create
  <2>3. QED BY <1>2, <1>9, <2>1, <2>2, DockerGood DEF Create, Commands
<1>10. CASE FinishInstall(x)
  BY <1>2, <1>3, <1>10, StatusGood DEF FinishInstall, Status
<1>11. CASE InstallError(x)
  BY <1>2, <1>3, <1>11, StatusGood DEF InstallError, Status
<1>12. QED BY <1>4, <1>5, <1>6, <1>7, <1>8, <1>9, <1>10, <1>11

(* The steps of _uninstall_app under the lock are good; RemoveRow deletes  *)
(* the row of the app whose lock the worker holds.                         *)
LEMMA TeardownGood ==
    ASSUME IInv, NEW x \in Actors,
           \/ TeardownRead(x) \/ ThawRead(x) \/ ThawCmd(x) \/ ThawMark(x)
           \/ TeardownFlip(x) \/ RemoveRow(x)
    PROVE  Good(x)
<1> DEFINE a == co[x].app
<1>1. co[x].pc \in UninstallOnlyPC \ {"teardownLock"}
  BY DEF TeardownRead, ThawRead, ThawCmd, ThawMark, TeardownFlip, RemoveRow, At, UninstallOnlyPC
<1>2. a \in Apps /\ x = Worker /\ co[x].op = "uninstall"
  BY <1>1, Whereabouts DEF UninstallOnlyPC
<1>3. Critical(x)
  BY <1>1, <1>2 DEF Critical
<1>4. ASSUME NEW pc \in TeardownPC, Goto(x, pc), UNCHANGED lock
      PROVE  Moves(x) /\ ~Acting(x)'
  BY <1>1, <1>2, <1>4, GotoMoves DEF UninstallOnlyPC, TeardownPC, StopPC, DownPC, ActingPC, PC
<1>5. CASE TeardownRead(x)
  <2>1. Moves(x) /\ ~Acting(x)'
    BY <1>4, <1>5 DEF TeardownRead, TeardownPC, StopPC
  <2>2. QED BY <1>5, <2>1, LocalGood DEF TeardownRead
<1>6. CASE ThawRead(x)
  <2>1. Moves(x) /\ ~Acting(x)'
    BY <1>4, <1>6 DEF ThawRead, TeardownPC
  <2>2. QED BY <1>6, <2>1, LocalGood DEF ThawRead
<1>7. CASE ThawCmd(x)
  <2>1. Moves(x) /\ ~Acting(x)'
    BY <1>2, <1>3, <1>4, <1>7, ReleaseMoves DEF ThawCmd, TeardownPC
  <2>2. Succeeds("unpause", a) \/ Fails("unpause", a)
    BY <1>7 DEF ThawCmd
  <2>3. QED BY <1>2, <1>7, <2>1, <2>2, DockerGood DEF ThawCmd, Commands
<1>8. CASE ThawMark(x)
  BY <1>2, <1>4, <1>8, StatusGood DEF ThawMark, Status, TeardownPC
<1>9. CASE TeardownFlip(x)
  BY <1>2, <1>4, <1>9, StatusGood DEF TeardownFlip, Status, TeardownPC, StopPC
<1>10. CASE RemoveRow(x)
  <2>1. Moves(x) /\ ~Acting(x)'
    BY <1>4, <1>10 DEF RemoveRow, TeardownPC
  <2>2. /\ row' \in [Apps -> Status \cup {"absent"}]
        /\ row'[a] = "absent"
        /\ \A b \in Apps \ {a} : row'[b] = row[b]
    BY <1>2, <1>10 DEF RemoveRow, IInv, TypeOK
  <2>3. QED BY <1>2, <1>3, <1>10, <2>1, <2>2 DEF RemoveRow, Good, RowCase, Moves, IInv, TypeOK
<1>11. QED BY <1>5, <1>6, <1>7, <1>8, <1>9, <1>10

(* The two steps that installs and uninstalls share.                       *)
LEMMA SharedGood ==
    ASSUME IInv, NEW x \in Actors, WriteRoutes(x) \/ RemoveFiles(x)
    PROVE  Good(x)
<1> DEFINE a == co[x].app
<1>1. CASE WriteRoutes(x)
  <2>1. /\ co[x].pc = "route" /\ a \in Apps /\ x = Worker
        /\ co[x].op \in InstallTypes \cup {"reinstall", "uninstall"}
    BY <1>1, Whereabouts DEF WriteRoutes, At
  <2>2. ASSUME co[x].op = "uninstall", ReleaseAndReturn(x)
        PROVE  Moves(x) /\ ~Acting(x)'
    BY <2>1, <2>2, ReleaseMoves DEF Critical
  <2>3. ASSUME co[x].op # "uninstall", Goto(x, "finish"), UNCHANGED lock
        PROVE  Moves(x) /\ ~Acting(x)'
    BY <2>1, <2>3, GotoMoves DEF InstallPC, ActingPC, PC
  <2>4. Moves(x) /\ ~Acting(x)'
    BY <1>1, <2>2, <2>3 DEF WriteRoutes
  <2>5. Routable \in SUBSET Apps
    BY DEF Routable
  <2>6. QED BY <1>1, <2>4, <2>5 DEF WriteRoutes, Good, RowCase, Moves, IInv, TypeOK
<1>2. CASE RemoveFiles(x)
  <2>1. /\ co[x].pc = "rmtree" /\ a \in Apps /\ x = Worker
        /\ co[x].op \in {"reinstall", "uninstall"}
    BY <1>2, Whereabouts DEF RemoveFiles, At
  <2>2. Moves(x) /\ ~Acting(x)'
    BY <1>2, <2>1, GotoMoves DEF RemoveFiles, InstallPC, TeardownPC, ActingPC, PC
  <2>3. {} \in SUBSET FileKind
    OBVIOUS
  <2>4. QED BY <1>2, <2>1, <2>2, <2>3, FilesGood DEF RemoveFiles
<1>3. QED BY <1>1, <1>2

-----------------------------------------------------------------------------
(* Every step of a running coroutine, and every start of one, is good.     *)
LEMMA RunningGood ==
    ASSUME IInv, NEW x \in Actors,
           StartStep(x) \/ PauseStep(x) \/ StopStep(x) \/ DownStep(x) \/ RequestStep(x) \/ WorkerStep(x)
    PROVE  Good(x)
  BY StartGood, PauseGood, StopGood, DownGood, RequestGood, InstallGood, TeardownGood, SharedGood
     DEF StartStep, PauseStep, StopStep, DownStep, WorkerStep

(* So is every step that Next lets a coroutine take.                       *)
LEMMA CoroutineGood ==
    ASSUME IInv,
           \/ \E t \in Tasks : TaskStep(t) \/ StartLock(t)
           \/ TeardownOrInstall \/ TeardownLock(Worker)
           \/ \E a \in Apps : DownStep(a)
    PROVE  \E x \in Actors : Good(x)
  BY RunningGood, LockGood DEF TaskStep, TeardownOrInstall, Actors

(* A new request, wake or tick starts at the beginning of its code.        *)
LEMMA SpawnMoves ==
    ASSUME IInv, NEW x \in Actors, co[x] = Idle, UNCHANGED lock,
           NEW a \in Apps, NEW op \in Op, NEW pc \in PC,
           co' = [co EXCEPT ![x] = Coro(op, a, pc)],
           \/ x \in Tasks /\ op \in TaskType /\ pc \in RequestPC
           \/ x \in Tasks /\ op \in Revivals /\ pc = "startLock"
           \/ x \in Tasks /\ op = "pause" /\ pc \in PausePC
           \/ x \in Tasks /\ op = "stop" /\ pc \in StopPC
           \/ x = Worker /\ op \in InstallTypes \cup {"reinstall"} /\ pc = "check"
           \/ x = Worker /\ op = "uninstall" /\ pc = "teardownLock"
    PROVE  Moves(x) /\ ~Acting(x)'
<1>1. Coro(op, a, pc) \in Coroutine
  BY DEF Coro, Coroutine
<1>2. /\ co' \in [Actors -> Coroutine]
      /\ co'[x] = Coro(op, a, pc)
      /\ \A y \in Actors \ {x} : co'[y] = co[y]
  BY <1>1 DEF IInv, TypeOK
<1>3. co'[x].op = op /\ co'[x].app = a /\ co'[x].pc = pc
  BY <1>2 DEF Coro
<1>4. InCode(x)'
  BY <1>3 DEF InCode, StartPC, InstallPC, TeardownPC
<1>5. ~Critical(x)' /\ ~Acting(x)'
  BY <1>3, ActorsAssumption DEF Critical, Acting, ActingPC, RequestPC, PausePC, StopPC, Revivals,
     TaskType, InstallTypes
<1>6. QED BY <1>2, <1>4, <1>5 DEF Moves, LockCase, IInv, TypeOK

(* Starting a request, a wake or a control call is good.                   *)
LEMMA SpawnGood ==
    ASSUME IInv, NEW t \in Tasks, NEW a \in Apps,
           \/ \E type \in InstallTypes : RequestInstall(t, a, type)
           \/ \E type \in {"uninstall", "reinstall"} : RequestChange(t, a, type)
           \/ Wake(t, a)
           \/ \E op \in {"revive", "pause", "stop"} : Control(t, a, op)
    PROVE  Good(t)
<1> t \in Actors
  BY DEF Actors
<1>1. ASSUME NEW type \in InstallTypes, RequestInstall(t, a, type)
      PROVE  Good(t)
  <2>1. \E pc \in {"move", "insert"} : co' = [co EXCEPT ![t] = Coro(type, a, pc)]
    BY <1>1 DEF RequestInstall
  <2>2. Moves(t) /\ ~Acting(t)'
    BY <1>1, <2>1, SpawnMoves DEF RequestInstall, CanRequest, InstallTypes, TaskType, Op, PC, RequestPC
  <2>3. QED BY <1>1, <2>2, LocalGood DEF RequestInstall
<1>2. ASSUME NEW type \in {"uninstall", "reinstall"}, RequestChange(t, a, type)
      PROVE  Good(t)
  <2>1. Moves(t) /\ ~Acting(t)'
    BY <1>2, SpawnMoves DEF RequestChange, CanRequest, TaskType, Op, PC, RequestPC
  <2>2. QueuedStatus(type) \in Status
    BY DEF QueuedStatus, Status
  <2>3. QED BY <1>2, <2>1, <2>2, RowGood DEF RequestChange
<1>3. CASE Wake(t, a)
  <2>1. Moves(t) /\ ~Acting(t)'
    BY <1>3, SpawnMoves DEF Wake, Revivals, Op, PC
  <2>2. QED BY <1>3, <2>1, LocalGood DEF Wake
<1>4. ASSUME NEW op \in {"revive", "pause", "stop"}, Control(t, a, op)
      PROVE  Good(t)
  <2>1. Moves(t) /\ ~Acting(t)'
    BY <1>4, SpawnMoves DEF Control, Revivals, Op, PC, PausePC, StopPC
  <2>2. QED BY <1>4, <2>1, LocalGood DEF Control
<1>5. QED BY <1>1, <1>2, <1>3, <1>4

(* Taking a task from the queue is good.                                   *)
LEMMA DequeueGood ==
    ASSUME IInv, Dequeue
    PROVE  Good(Worker)
<1> DEFINE h == Head(queue)
<1>1. queue \in Seq(InstallationTask) /\ queue # <<>>
  BY DEF IInv, TypeOK, Dequeue
<1>2. h \in InstallationTask /\ queue' \in Seq(InstallationTask)
  BY <1>1 DEF Dequeue
<1>3. h.app \in Apps /\ h.type \in TaskType
  BY <1>2 DEF InstallationTask
<1>4. Moves(Worker) /\ ~Acting(Worker)'
  <2>1. Worker \in Actors
    BY DEF Actors
  <2>2. CASE h.type = "uninstall"
    <3>1. co' = [co EXCEPT ![Worker] = Coro(h.type, h.app, "teardownLock")]
      BY <2>2 DEF Dequeue
    <3>2. QED BY <1>3, <2>1, <2>2, <3>1, SpawnMoves DEF Dequeue, TaskType, Op, PC
  <2>3. CASE h.type # "uninstall"
    <3>1. co' = [co EXCEPT ![Worker] = Coro(h.type, h.app, "check")]
      BY <2>3 DEF Dequeue
    <3>2. QED BY <1>3, <2>1, <2>3, <3>1, SpawnMoves DEF Dequeue, TaskType, InstallTypes, Op, PC
  <2>4. QED BY <2>2, <2>3
<1>5. QED BY <1>2, <1>4 DEF Dequeue, Good, RowCase, Moves, IInv, TypeOK

-----------------------------------------------------------------------------
(* A good step keeps the inductive invariant: a coroutine other than x     *)
(* keeps its lock, because x takes only free locks and gives back only its *)
(* own, and an acting one keeps its row, because a row goes away only      *)
(* under the lock.                                                         *)
LEMMA GoodKeepsIInv ==
    ASSUME IInv, NEW x \in Actors, Good(x)
    PROVE  IInv'
<1>1. \A y \in Actors \ {x} : co'[y] = co[y]
  BY DEF Good, Moves
<1>2. ASSUME NEW y \in Actors
      PROVE  InCode(y)'
  <2>1. CASE y = x
    BY <2>1 DEF Good, Moves
  <2>2. CASE y # x
    BY <1>1, <2>2 DEF IInv, InCode
  <2>3. QED BY <2>1, <2>2
<1>3. ASSUME NEW y \in Actors, Critical(y)'
      PROVE  lock'[co'[y].app] = y
  <2>1. co'[y].app \in Apps
    BY <1>2, <1>3 DEF Critical, InCode, Idle, Coro, Revivals
  <2>2. lock \in [Apps -> Actors \cup {None}] /\ LockCase(x)
    BY DEF IInv, TypeOK, Good, Moves
  <2>3. CASE y = x
    BY <1>3, <2>1, <2>2, <2>3 DEF LockCase, IInv
  <2>4. CASE y # x
    <3>1. co'[y] = co[y] /\ Critical(y) /\ lock[co[y].app] = y
      BY <1>1, <1>3, <2>4 DEF Critical, IInv
    <3>2. None # y
      BY ActorsAssumption DEF Actors
    <3>3. CASE lock' = lock
      BY <3>1, <3>3
    <3>4. CASE lock[co[x].app] = None /\ lock' = [lock EXCEPT ![co[x].app] = x]
      BY <2>1, <2>2, <3>1, <3>2, <3>4
    <3>5. CASE Critical(x) /\ lock' = [lock EXCEPT ![co[x].app] = None]
      <4>1. lock[co[x].app] = x
        BY <3>5 DEF IInv
      <4>2. QED BY <2>1, <2>2, <2>4, <3>1, <3>5, <4>1
    <3>6. QED BY <2>2, <3>3, <3>4, <3>5 DEF LockCase
  <2>5. QED BY <2>3, <2>4
<1>4. ASSUME NEW y \in Actors, Acting(y)'
      PROVE  row'[co'[y].app] # "absent"
  <2>1. ASSUME NEW z \in Actors, Acting(z)
        PROVE  Critical(z) /\ co[z].app \in Apps /\ row[co[z].app] # "absent" /\ z # Worker
    <3>1. co[z].pc \in StartPC \ {"startLock"}
      BY <2>1 DEF Acting, ActingPC, StartPC
    <3>2. z \in Tasks /\ co[z].op \in Revivals /\ co[z].app \in Apps
      BY <3>1, Whereabouts DEF StartPC
    <3>3. QED BY <2>1, <3>1, <3>2, ActorsAssumption DEF Critical, IInv
  <2>2. CASE y = x
    <3>1. co'[x].app = co[x].app /\ co[x].app \in Apps /\ row[co[x].app] # "absent"
      BY <1>4, <2>2 DEF Good
    <3>2. x # Worker
      <4>1. co'[x].pc \in StartPC
        BY <1>4, <2>2 DEF Acting, ActingPC, StartPC
      <4>2. InCode(x)'
        BY DEF Good, Moves
      <4>3. QED BY <4>1, <4>2, ActorsAssumption DEF InCode, Idle, Coro, StartPC, InstallPC,
                 TeardownPC, StopPC, DownPC
    <3>3. QED BY <2>2, <3>1, <3>2 DEF Good, RowCase
  <2>3. CASE y # x
    <3>1. co'[y] = co[y] /\ Acting(y)
      BY <1>1, <1>4, <2>3 DEF Acting
    <3>2. Critical(y) /\ co[y].app \in Apps /\ row[co[y].app] # "absent" /\ lock[co[y].app] = y
      BY <2>1, <3>1 DEF IInv
    <3>3. ASSUME Critical(x)
          PROVE  co[x].app # co[y].app
      BY <2>3, <3>2, <3>3 DEF IInv
    <3>4. QED BY <3>1, <3>2, <3>3 DEF Good, RowCase
  <2>4. QED BY <2>2, <2>3
<1>5. TypeOK' /\ (phase' = "stopping" => restarts' < MaxRestarts)
  BY DEF Good, IInv
<1>6. QED BY <1>2, <1>3, <1>4, <1>5 DEF IInv

(* The initial states satisfy the inductive invariant.                     *)
LEMMA InitIInv == Init => IInv
<1> SUFFICES ASSUME Init PROVE IInv
  OBVIOUS
<1>1. TypeOK
  BY IdleType, BoundsAssumption DEF Init, TypeOK, ContainerState
<1>2. \A x \in Actors : co[x] = Idle
  BY DEF Init
<1>3. \A x \in Actors : InCode(x) /\ ~Critical(x) /\ ~Acting(x)
  BY <1>2 DEF InCode, Critical, Acting, ActingPC, Idle, Coro, Revivals
<1>4. QED BY <1>1, <1>3 DEF IInv, Init

(* The process goes down: nothing runs and nothing is locked.              *)
LEMMA ExitKeepsIInv ==
    ASSUME IInv, Exit, restarts < MaxRestarts
    PROVE  IInv'
<1>1. TypeOK'
  BY IdleType, BoundsAssumption DEF Exit, IInv, TypeOK
<1>2. \A x \in Actors : co'[x] = Idle
  BY DEF Exit
<1>3. \A x \in Actors : InCode(x)' /\ ~Critical(x)' /\ ~Acting(x)'
  BY <1>2 DEF InCode, Critical, Acting, ActingPC, Idle, Coro, Revivals
<1>4. QED BY <1>1, <1>3 DEF IInv, Exit

(* What the lifespan's teardown leaves of the tasks and of the worker.     *)
LEMMA ShutdownEnds ==
    ASSUME Shutdown
    PROVE  /\ \A t \in Tasks : co'[t] = co[t] \/ co'[t] = Idle
           /\ co'[Worker] = Idle
<1>1. PICK orphans \in SUBSET ControlCalls :
            co' = [x \in Actors |->
                     IF x \in orphans \/ (x \in Tasks /\ co[x].op = "wake") THEN co[x]
                     ELSE IF x \in Apps /\ row[x] # "absent"
                          THEN Coro("shutdown", x, "downRead") ELSE Idle]
  BY DEF Shutdown
<1>2. Worker \in Actors /\ Worker \notin Tasks \cup Apps \cup orphans
  BY ActorsAssumption DEF Actors, ControlCalls
<1>3. co'[Worker] = Idle
  BY <1>1, <1>2
<1>4. ASSUME NEW t \in Tasks
      PROVE  co'[t] = co[t] \/ co'[t] = Idle
  <2>1. t \in Actors /\ t \notin Apps
    BY ActorsAssumption DEF Actors
  <2>2. QED BY <1>1, <2>1
<1>5. QED BY <1>3, <1>4

(* The lifespan's teardown keeps the invariant: the tasks that survive     *)
(* keep their locks, every other lock is free.                             *)
LEMMA ShutdownKeepsIInv ==
    ASSUME IInv, Shutdown
    PROVE  IInv'
<1>0. PICK orphans \in SUBSET ControlCalls :
            LET survives(x) == x \in orphans \/ (x \in Tasks /\ co[x].op = "wake")
            IN  /\ co' = [x \in Actors |->
                            IF survives(x) THEN co[x]
                            ELSE IF x \in Apps /\ row[x] # "absent"
                                 THEN Coro("shutdown", x, "downRead") ELSE Idle]
                /\ lock' = [a \in Apps |->
                              IF lock[a] # None /\ survives(lock[a]) THEN lock[a] ELSE None]
  BY DEF Shutdown
<1> DEFINE survives(x) == x \in orphans \/ (x \in Tasks /\ co[x].op = "wake")
<1>s. \A x : survives(x) => x \in Tasks
  BY DEF ControlCalls
<1>1. /\ phase' = "stopping" /\ restarts < MaxRestarts
      /\ UNCHANGED <<row, files, box, routes, queue, restarts>>
      /\ co' = [x \in Actors |->
                   IF survives(x) THEN co[x]
                   ELSE IF x \in Apps /\ row[x] # "absent"
                        THEN Coro("shutdown", x, "downRead") ELSE Idle]
      /\ lock' = [a \in Apps |->
                     IF lock[a] # None /\ survives(lock[a]) THEN lock[a] ELSE None]
  BY <1>0 DEF Shutdown
<1> HIDE DEF survives
<1>2. \A x \in Apps : Coro("shutdown", x, "downRead") \in Coroutine
  BY DEF Coro, Coroutine, Op, PC
<1>3. TypeOK'
  <2>1. co' \in [Actors -> Coroutine]
    BY <1>1, <1>2, IdleType DEF IInv, TypeOK
  <2>2. lock' \in [Apps -> Actors \cup {None}]
    BY <1>1 DEF IInv, TypeOK
  <2>3. QED BY <1>1, <2>1, <2>2 DEF IInv, TypeOK
<1>4. ASSUME NEW x \in Actors
      PROVE  /\ InCode(x)'
             /\ Critical(x)' => lock'[co'[x].app] = x
             /\ Acting(x)' => row'[co'[x].app] # "absent"
  <2>1. CASE survives(x)
    <3>1. co'[x] = co[x]
      BY <1>1, <2>1
    <3>2. Critical(x) => co[x].app \in Apps /\ lock[co[x].app] = x
      BY <1>s, <2>1, ActorsAssumption DEF IInv, InCode, Critical, Revivals, Idle, Coro
    <3>3. x # None
      BY ActorsAssumption DEF Actors
    <3>4. Critical(x) => lock'[co[x].app] = x
      BY <1>1, <2>1, <3>2, <3>3
    <3>5. QED BY <1>1, <3>1, <3>4 DEF InCode, Critical, Acting, IInv
  <2>2. CASE ~survives(x) /\ x \in Apps /\ row[x] # "absent"
    <3>1. co'[x] = Coro("shutdown", x, "downRead")
      BY <1>1, <2>2
    <3>2. QED BY <2>2, <3>1, ActorsAssumption
           DEF InCode, Critical, Acting, ActingPC, Coro, Revivals, DownPC
  <2>3. CASE ~survives(x) /\ ~(x \in Apps /\ row[x] # "absent")
    <3>1. co'[x] = Idle
      BY <1>1, <2>3
    <3>2. QED BY <3>1 DEF InCode, Critical, Acting, ActingPC, Idle, Coro, Revivals
  <2>4. QED BY <2>1, <2>2, <2>3
<1>5. QED BY <1>1, <1>3, <1>4 DEF IInv

(* The lifespan's start keeps the invariant: reconciliation enqueues well- *)
(* formed tasks.                                                           *)
LEMMA StartupKeepsIInv ==
    ASSUME IInv, Startup
    PROVE  IInv'
<1>1. routes' \in SUBSET Apps /\ files' \in [Apps -> SUBSET FileKind]
  BY DEF Startup, Routable, IInv, TypeOK, FileKind
<1>2. queue' \in Seq(InstallationTask)
  <2>1. Interrupted \in SUBSET Apps /\ Cardinality(Interrupted) \in Nat
    BY FiniteAssumption, FS_Subset, FS_CardinalityType DEF Interrupted
  <2>2. PICK rows \in Surjection(1..Cardinality(Interrupted), Interrupted) :
               queue' = [i \in 1..Cardinality(Interrupted) |-> ResumeTask(rows[i])]
    BY DEF Startup
  <2>3. \A i \in 1..Cardinality(Interrupted) : ResumeTask(rows[i]) \in InstallationTask
    BY <2>1, <2>2 DEF Surjection, ResumeTask, InstallationTask, TaskType
  <2>4. QED BY <2>1, <2>2, <2>3
<1>3. QED BY <1>1, <1>2 DEF Startup, IInv, TypeOK, InCode, Critical, Acting

(* Every step keeps the inductive invariant.                               *)
LEMMA StepKeepsIInv ==
    ASSUME IInv, [Next]_vars
    PROVE  IInv'
<1>1. CASE \/ \E t \in Tasks : TaskStep(t) \/ StartLock(t)
           \/ TeardownOrInstall \/ TeardownLock(Worker)
           \/ \E a \in Apps : DownStep(a)
  BY <1>1, CoroutineGood, GoodKeepsIInv
<1>2. CASE Dequeue
  BY <1>2, DequeueGood, GoodKeepsIInv DEF Actors
<1>3. ASSUME NEW t \in Tasks, NEW a \in Apps,
             \/ \E type \in InstallTypes : RequestInstall(t, a, type)
             \/ \E type \in {"uninstall", "reinstall"} : RequestChange(t, a, type)
             \/ Wake(t, a)
             \/ \E op \in {"revive", "pause", "stop"} : Control(t, a, op)
      PROVE  IInv'
  BY <1>3, SpawnGood, GoodKeepsIInv DEF Actors
<1>4. ASSUME NEW a \in Apps, ContainerExit(a)
      PROVE  IInv'
  BY <1>4 DEF ContainerExit, IInv, TypeOK, ContainerState, InCode, Critical, Acting
<1>5. CASE Shutdown
  BY <1>5, ShutdownKeepsIInv
<1>6. CASE ShutdownComplete
  BY <1>6, ExitKeepsIInv DEF ShutdownComplete, IInv
<1>7. CASE Crash
  BY <1>7, ExitKeepsIInv DEF Crash
<1>8. CASE Startup
  BY <1>8, StartupKeepsIInv
<1>9. CASE UNCHANGED vars
  BY <1>9 DEF vars, IInv, TypeOK, InCode, Critical, Acting
<1>10. QED BY <1>1, <1>2, <1>3, <1>4, <1>5, <1>6, <1>7, <1>8, <1>9 DEF Next

(* The inductive invariant holds in every behaviour: types, every          *)
(* coroutine within its code, every coroutine in a critical section the    *)
(* holder of its app's lock, every acting start_app with a row.            *)
THEOREM Invariance == Spec => []IInv
<1>1. Init => IInv
  BY InitIInv
<1>2. IInv /\ [Next]_vars => IInv'
  BY StepKeepsIInv
<1>3. QED BY <1>1, <1>2, PTL DEF Spec

(* The variables keep their types in every behaviour, for all sets of apps *)
(* and tasks: no coroutine leaves its code, every queued task names an app *)
(* and one of the four types the worker knows.                             *)
THEOREM TypeCorrect == Spec => []TypeOK
  BY Invariance, PTL DEF IInv

(* Issue #185 for any number of apps, wakes and ticks: start_app never     *)
(* acts on an app that is being uninstalled or whose row is gone.          *)
THEOREM ReviveNeverMeetsTeardown == Spec => []ReviveExcludesTeardown
<1>1. IInv => ReviveExcludesTeardown
  <2> SUFFICES ASSUME IInv, NEW x \in Actors,
                      co[x].pc \in ActingPC
               PROVE  row[co[x].app] # "absent" /\ ~TearingDown(co[x].app)
    BY DEF ReviveExcludesTeardown, ActingPC
  <2>1. row[co[x].app] # "absent"
    BY DEF IInv, Acting, ActingPC
  <2>2. x \in Tasks /\ Critical(x)
    BY Whereabouts DEF StartPC, ActingPC, Critical
  <2>3. lock[co[x].app] = x /\ x # Worker
    BY <2>2, ActorsAssumption DEF IInv
  <2>4. TearingDown(co[x].app) => lock[co[x].app] = Worker
    BY DEF TearingDown, At, Critical, IInv, Actors
  <2>5. QED BY <2>1, <2>3, <2>4
<1>2. QED BY <1>1, Invariance, PTL

(* Rows come and go only as they should, for all constants: no late write  *)
(* of a status brings back a removed app, and only the worker removes a    *)
(* row, under the app's lock.                                              *)
THEOREM RowsSafe == Spec => RowsComeAndGo
<1> DEFINE RowStep == \A a \in Apps :
              /\ row[a] = "absent" => row'[a] \in {"absent", "INSTALLATION_QUEUED"}
              /\ row[a] # "absent" /\ row'[a] = "absent" => lock[a] = Worker
<1>1. ASSUME IInv, NEW x \in Actors, Good(x)
      PROVE  RowStep
  BY <1>1 DEF Good, RowCase, IInv
<1>2. ASSUME IInv, Next
      PROVE  RowStep \/ UNCHANGED vars
  <2>1. CASE \/ \E t \in Tasks : TaskStep(t) \/ StartLock(t)
             \/ TeardownOrInstall \/ TeardownLock(Worker)
             \/ \E a \in Apps : DownStep(a)
    BY <1>1, <1>2, <2>1, CoroutineGood
  <2>2. CASE Dequeue
    BY <1>1, <1>2, <2>2, DequeueGood DEF Actors
  <2>3. CASE \E t \in Tasks, a \in Apps :
                \/ \E type \in InstallTypes : RequestInstall(t, a, type)
                \/ \E type \in {"uninstall", "reinstall"} : RequestChange(t, a, type)
                \/ Wake(t, a)
                \/ \E op \in {"revive", "pause", "stop"} : Control(t, a, op)
    BY <1>1, <1>2, <2>3, SpawnGood DEF Actors
  <2>4. CASE \/ \E a \in Apps : ContainerExit(a)
             \/ Shutdown \/ ShutdownComplete \/ Crash \/ Startup
    BY <2>4 DEF ContainerExit, Shutdown, ShutdownComplete, Crash, Exit, Startup
  <2>5. QED BY <1>2, <2>1, <2>2, <2>3, <2>4 DEF Next
<1>3. QED BY <1>2, Invariance, PTL DEF Spec, RowsComeAndGo

-----------------------------------------------------------------------------
(* AppLifecycle implements AppOwnership.                                   *)

(* No row appears or disappears, and at most one op lock is given back.    *)
Steady ==
    /\ \A a \in Apps : row'[a] = "absent" <=> row[a] = "absent"
    /\ \/ lock' = lock
       \/ \E a \in Apps : lock' = [lock EXCEPT ![a] = None]

(* A steady step leaves the abstract state alone, or an owner leaves.      *)
LEMMA SteadyOwnership ==
    ASSUME IInv, Steady
    PROVE  [Ownership!Next]_(Ownership!ownershipVars)
<1>1. {a \in Apps : row'[a] # "absent"} = {a \in Apps : row[a] # "absent"}
  BY DEF Steady
<1>2. CASE lock' = lock
  BY <1>1, <1>2 DEF Ownership!ownershipVars
<1>3. ASSUME NEW b \in Apps, lock' = [lock EXCEPT ![b] = None]
      PROVE  Ownership!Leave
  <2>1. lock' = [a \in Apps |-> IF a \in {b} THEN None ELSE lock[a]]
    BY <1>3 DEF IInv, TypeOK
  <2>2. \E S \in SUBSET Apps : lock' = [a \in Apps |-> IF a \in S THEN None ELSE lock[a]]
    BY <2>1
  <2>3. QED BY <1>1, <2>2 DEF Ownership!Leave
<1>4. QED BY <1>2, <1>3 DEF Steady, Ownership!Next

(* Writing a status neither adds nor removes a row.                        *)
LEMMA StatusSteady ==
    ASSUME IInv, NEW a \in Apps, NEW s \in Status, SetStatus(a, s)
    PROVE  \A b \in Apps : row'[b] = "absent" <=> row[b] = "absent"
  BY StatusType DEF IInv, TypeOK

(* app_tools.py changes rows only by writing statuses, and gives back only *)
(* the lock of its own app.                                                *)
LEMMA ToolsSteady ==
    ASSUME IInv, NEW x \in Actors, StartStep(x) \/ PauseStep(x) \/ StopStep(x) \/ DownStep(x)
    PROVE  Steady
<1>1. CASE StartStep(x)
  <2>1. co[x].app \in Apps
    BY <1>1, Whereabouts
       DEF StartStep, StartRead, StartProbe, StartUnpause, StartUp, StartMark, At
  <2>2. CASE StartRead(x) \/ StartProbe(x)
    BY <2>1, <2>2 DEF StartRead, StartProbe, ReleaseAndReturn, Release, Steady
  <2>3. CASE StartUnpause(x) \/ StartUp(x)
    BY <2>1, <2>3 DEF StartUnpause, StartUp, ReleaseAndReturn, Release, Steady
  <2>4. CASE StartMark(x)
    BY <2>1, <2>4, StatusSteady DEF StartMark, ReleaseAndReturn, Release, Steady, Status
  <2>5. QED BY <1>1, <2>2, <2>3, <2>4 DEF StartStep
<1>2. CASE PauseStep(x)
  <2>1. co[x].app \in Apps
    BY <1>2, Whereabouts DEF PauseStep, PauseRead, PauseCmd, PauseWrite, At
  <2>2. CASE PauseWrite(x) /\ row' # row
    BY <2>1, <2>2, StatusSteady DEF PauseWrite, Steady, Status
  <2>3. QED BY <1>2, <2>2 DEF PauseStep, PauseRead, PauseCmd, PauseWrite, Steady
<1>3. CASE StopStep(x)
  <2>1. co[x].app \in Apps
    BY <1>3, Whereabouts DEF StopStep, StopRead, StopUnpause, StopCmd, StopWrite, At
  <2>2. CASE StopWrite(x)
    BY <2>1, <2>2, StatusSteady DEF StopWrite, Steady, Status
  <2>3. QED BY <1>3, <2>2 DEF StopStep, StopRead, StopUnpause, StopCmd, Steady
<1>4. CASE DownStep(x)
  <2>1. co[x].app \in Apps
    BY <1>4, Whereabouts DEF DownStep, DownRead, DownUnpause, DownCmd, DownWrite, At
  <2>2. CASE DownWrite(x)
    BY <2>1, <2>2, StatusSteady DEF DownWrite, Steady, Status
  <2>3. QED BY <1>4, <2>2 DEF DownStep, DownRead, DownUnpause, DownCmd, Steady
<1>5. QED BY <1>1, <1>2, <1>3, <1>4

(* Of the worker's steps only the DELETE is not steady.                    *)
LEMMA WorkerSteady ==
    ASSUME IInv, NEW x \in Actors, WorkerStep(x), ~RemoveRow(x)
    PROVE  Steady
<1>1. co[x].app \in Apps
  <2>1. co[x].pc # "idle"
    BY DEF WorkerStep, Check, Flip, Download, Extract, Render, Create, WriteRoutes,
       FinishInstall, InstallError, TeardownRead, ThawRead, ThawCmd, ThawMark, TeardownFlip,
       RemoveFiles, RemoveRow, At
  <2>2. QED BY <2>1, Whereabouts
<1>2. CASE Check(x) \/ Download(x) \/ Extract(x) \/ Render(x) \/ Create(x)
  BY <1>2 DEF Check, Download, Extract, Render, Create, Steady
<1>3. CASE Flip(x)
  BY <1>1, <1>3, StatusSteady DEF Flip, Steady, Status
<1>4. CASE WriteRoutes(x)
  BY <1>1, <1>4 DEF WriteRoutes, ReleaseAndReturn, Release, Steady
<1>5. CASE FinishInstall(x) \/ InstallError(x)
  BY <1>1, <1>5, StatusSteady DEF FinishInstall, InstallError, Steady, Status
<1>6. CASE TeardownRead(x) \/ ThawRead(x) \/ RemoveFiles(x)
  BY <1>6 DEF TeardownRead, ThawRead, RemoveFiles, Steady
<1>7. CASE ThawCmd(x)
  BY <1>1, <1>7 DEF ThawCmd, ReleaseAndReturn, Release, Steady
<1>8. CASE ThawMark(x) \/ TeardownFlip(x)
  BY <1>1, <1>8, StatusSteady DEF ThawMark, TeardownFlip, Steady, Status
<1>9. QED BY <1>2, <1>3, <1>4, <1>5, <1>6, <1>7, <1>8 DEF WorkerStep

(* The INSERT of a request is the abstract Insert, and the DELETE of the   *)
(* worker the abstract Remove: the worker holds the lock.                  *)
LEMMA RowOwnership ==
    ASSUME IInv, NEW x \in Actors, InsertRow(x) \/ RemoveRow(x)
    PROVE  [Ownership!Next]_(Ownership!ownershipVars)
<1> DEFINE a == co[x].app
           E == {b \in Apps : row[b] # "absent"}
           F == {b \in Apps : row'[b] # "absent"}
<1>1. a \in Apps
  BY Whereabouts DEF InsertRow, RemoveRow, At
<1>2. CASE InsertRow(x) /\ row[a] = "absent"
  <2>1. row' = [row EXCEPT ![a] = "INSTALLATION_QUEUED"] /\ lock' = lock
    BY <1>2 DEF InsertRow
  <2>2. a \notin E /\ F = E \cup {a}
    BY <1>1, <1>2, <2>1 DEF IInv, TypeOK
  <2>3. \E b \in Apps : Ownership!Insert(b)
    BY <1>1, <2>1, <2>2 DEF Ownership!Insert
  <2>4. QED BY <2>3 DEF Ownership!Next
<1>3. CASE InsertRow(x) /\ row[a] # "absent"
  BY <1>3, SteadyOwnership DEF InsertRow, Steady
<1>4. CASE RemoveRow(x)
  <2>1. x = Worker /\ co[x].op = "uninstall" /\ co[x].pc = "remove"
    BY <1>4, Whereabouts DEF RemoveRow, At, UninstallOnlyPC
  <2>2. lock[a] = Worker
    BY <2>1 DEF IInv, Critical
  <2>3. row' = [row EXCEPT ![a] = "absent"] /\ lock' = lock
    BY <1>4 DEF RemoveRow
  <2>4. CASE row[a] = "absent"
    BY <1>1, <2>3, <2>4, SteadyOwnership DEF Steady, IInv, TypeOK
  <2>5. CASE row[a] # "absent"
    <3>1. a \in E /\ F = E \ {a}
      BY <1>1, <2>3, <2>5 DEF IInv, TypeOK
    <3>2. \E b \in Apps : Ownership!Remove(b)
      BY <1>1, <2>2, <2>3, <3>1 DEF Ownership!Remove
    <3>3. QED BY <3>2 DEF Ownership!Next
  <2>6. QED BY <2>4, <2>5
<1>5. QED BY <1>2, <1>3, <1>4

(* Taking an op lock is the abstract Acquire: it was free.                 *)
LEMMA LockOwnership ==
    ASSUME IInv, NEW x \in Tasks \cup {Worker}, StartLock(x) \/ TeardownLock(x)
    PROVE  [Ownership!Next]_(Ownership!ownershipVars)
<1>1. co[x].app \in Apps
  BY Whereabouts DEF StartLock, TeardownLock, At, Actors
<1>2. Ownership!Acquire(co[x].app, x)
  BY DEF StartLock, TeardownLock, Ownership!Acquire
<1>3. QED BY <1>1, <1>2 DEF Ownership!Next

(* When the process stops, only locks are given back.                      *)
LEMMA StopOwnership ==
    ASSUME IInv, Shutdown \/ ShutdownComplete \/ Crash
    PROVE  [Ownership!Next]_(Ownership!ownershipVars)
<1> DEFINE gone == {a \in Apps : lock'[a] = None}
<1>1. row' = row
  BY DEF Shutdown, ShutdownComplete, Crash, Exit
<1>2. lock' = [a \in Apps |-> IF a \in gone THEN None ELSE lock[a]]
  <2>1. CASE Shutdown
    BY <2>1 DEF Shutdown
  <2>2. CASE ShutdownComplete \/ Crash
    BY <2>2 DEF ShutdownComplete, Crash, Exit
  <2>3. QED BY <2>1, <2>2
<1>3. \E S \in SUBSET Apps : lock' = [a \in Apps |-> IF a \in S THEN None ELSE lock[a]]
  BY <1>2
<1>4. Ownership!Leave
  BY <1>1, <1>3 DEF Ownership!Leave
<1>5. QED BY <1>4 DEF Ownership!Next

(* The refinement, for every number of apps, tasks and restarts: every     *)
(* step of requests, wakes, ticks, worker, shutdown and crash is a step of *)
(* the abstract ownership or changes neither the rows' existence nor the   *)
(* locks.  So no lock is ever taken from its holder, and a row vanishes    *)
(* only while the worker owns its app.                                     *)
THEOREM OwnershipKept == Spec => ImplementsOwnership
<1>1. Init => Ownership!Init
  BY DEF Init, Ownership!Init
<1>2. ASSUME IInv, [Next]_vars
      PROVE  [Ownership!Next]_(Ownership!ownershipVars)
  <2>1. ASSUME NEW t \in Tasks, TaskStep(t)
        PROVE  [Ownership!Next]_(Ownership!ownershipVars)
    <3>1. t \in Actors
      BY DEF Actors
    <3>2. CASE MoveZip(t) \/ Enqueue(t)
      BY <1>2, <3>2, SteadyOwnership DEF MoveZip, Enqueue, Steady
    <3>3. QED BY <1>2, <2>1, <3>1, <3>2, ToolsSteady, SteadyOwnership, RowOwnership
           DEF TaskStep, RequestStep
  <2>2. ASSUME TeardownOrInstall
        PROVE  [Ownership!Next]_(Ownership!ownershipVars)
    <3>1. Worker \in Actors
      BY DEF Actors
    <3>2. QED BY <1>2, <2>2, <3>1, ToolsSteady, WorkerSteady, SteadyOwnership, RowOwnership
           DEF TeardownOrInstall
  <2>3. CASE \E a \in Apps : DownStep(a)
    BY <1>2, <2>3, ToolsSteady, SteadyOwnership DEF Actors
  <2>4. CASE (\E t \in Tasks : StartLock(t)) \/ TeardownLock(Worker)
    BY <1>2, <2>4, LockOwnership
  <2>5. ASSUME NEW t \in Tasks, NEW a \in Apps, NEW type \in {"uninstall", "reinstall"},
               RequestChange(t, a, type)
        PROVE  Steady
    BY <1>2, <2>5 DEF RequestChange, QueuedStatus, Steady, IInv, TypeOK
  <2>6. CASE \/ Dequeue \/ Startup
             \/ \E a \in Apps : ContainerExit(a)
             \/ \E t \in Tasks, a \in Apps :
                   \/ \E type \in InstallTypes : RequestInstall(t, a, type)
                   \/ Wake(t, a)
                   \/ \E op \in {"revive", "pause", "stop"} : Control(t, a, op)
    <3>1. Steady
      BY <2>6 DEF Dequeue, Startup, ContainerExit, RequestInstall, Wake, Control, Steady
    <3>2. QED BY <1>2, <3>1, SteadyOwnership
  <2>7. CASE Shutdown \/ ShutdownComplete \/ Crash
    BY <1>2, <2>7, StopOwnership
  <2>8. CASE UNCHANGED vars
    BY <1>2, <2>8, SteadyOwnership DEF vars, Steady
  <2>9. QED BY <1>2, <2>1, <2>2, <2>3, <2>4, <2>5, <2>6, <2>7, <2>8, SteadyOwnership DEF Next
<1>3. QED BY <1>1, <1>2, Invariance, PTL DEF Spec, ImplementsOwnership, Ownership!Spec

-----------------------------------------------------------------------------
(* No row is left in a transitional status that nothing will leave.        *)

(* A task on a is queued, or a request is about to enqueue it.             *)
Waiting(a, types) ==
    \/ \E i \in 1..Len(queue) : queue[i].app = a /\ queue[i].type \in types
    \/ \E t \in Tasks : co[t].app = a /\ co[t].op \in types /\ At(t, "enqueue")

WorksOn(a, types) == co[Worker].app = a /\ co[Worker].op \in types

(* The worker has not written the status of its task yet.                  *)
EarlyPC == {"check", "flip"}

(* An uninstall is still to come or on its way to the DELETE.  From        *)
(* "thawCmd" the worker may give up, and at "route" it is past the DELETE; *)
(* a status that says otherwise there comes from another request.          *)
UninstallKept(a) ==
    row[a] \in {"UNINSTALLATION_QUEUED", "UNINSTALLING"} =>
        \/ Waiting(a, {"uninstall"})
        \/ WorksOn(a, {"uninstall"}) /\ co[Worker].pc \notin {"thawCmd", "route"}

(* The same for tasks that wait in one status and are worked on in another.*)
InstallKept(a, types, queued, doing) ==
    /\ row[a] = queued =>
          Waiting(a, types) \/ (WorksOn(a, types) /\ co[Worker].pc \in EarlyPC)
    /\ row[a] = doing => WorksOn(a, types) /\ co[Worker].pc \notin EarlyPC

InstallsKept(a) ==
    /\ InstallKept(a, InstallTypes, "INSTALLATION_QUEUED", "INSTALLING")
    /\ InstallKept(a, {"reinstall"}, "REINSTALLATION_QUEUED", "REINSTALLING")

OnlyInstallsInsert ==
    \A t \in Tasks : co[t].pc \in {"move", "insert"} => co[t].op \in InstallTypes

KeptInv ==
    /\ OnlyInstallsInsert
    /\ phase = "down" => restarts # 0
    /\ phase = "up" => \A a \in Apps : UninstallKept(a)
    /\ phase = "up" /\ restarts = 0 => \A a \in Apps : InstallsKept(a)

(* Statuses no task has to leave.                                          *)
Settled == {"absent", "RUNNING", "PAUSED", "STOPPED", "DOWN", "ERROR"}

Settles == \A a \in Apps : row'[a] = row[a] \/ row'[a] \in Settled

(* The UPDATE of a status to a settled one.                                *)
LEMMA StatusSettles ==
    ASSUME NEW a \in Apps, NEW s \in Settled, row \in [Apps -> Status \cup {"absent"}],
           SetStatus(a, s)
    PROVE  Settles
  BY DEF SetStatus, Settles

(* What waits goes on waiting while nobody enqueues or takes a task.       *)
LEMMA WaitingStays ==
    ASSUME UNCHANGED queue, \A t \in Tasks : At(t, "enqueue") => co'[t] = co[t],
           NEW a, NEW types, Waiting(a, types)
    PROVE  Waiting(a, types)'
  BY DEF Waiting, At

(* A step of a request, wake, tick or shutdown that enqueues nothing and   *)
(* writes a settled status at most.                                        *)
LEMMA OthersKeep ==
    ASSUME KeptInv, NEW x \in Actors \ {Worker}, ~At(x, "enqueue"),
           \A y \in Actors \ {x} : co'[y] = co[y],
           co'[x].pc \in {"move", "insert"} => co'[x].op \in InstallTypes,
           Settles, UNCHANGED <<queue, phase, restarts>>
    PROVE  KeptInv'
<1>1. co'[Worker] = co[Worker] /\ \A t \in Tasks : At(t, "enqueue") => co'[t] = co[t]
  BY DEF Actors
<1>2. \A a, types : Waiting(a, types) => Waiting(a, types)'
  BY <1>1, WaitingStays
<1>3. OnlyInstallsInsert'
  BY DEF KeptInv, OnlyInstallsInsert, Actors
<1>4. ASSUME NEW a \in Apps, UninstallKept(a)
      PROVE  UninstallKept(a)'
  BY <1>1, <1>2, <1>4 DEF UninstallKept, WorksOn, Settles, Settled
<1>5. ASSUME NEW a \in Apps, InstallsKept(a)
      PROVE  InstallsKept(a)'
  BY <1>1, <1>2, <1>5 DEF InstallsKept, InstallKept, WorksOn, Settles, Settled
<1>6. QED BY <1>3, <1>4, <1>5 DEF KeptInv

(* The worker goes on, writing a settled status at most.                   *)
LEMMA WorkerGoes ==
    ASSUME IInv, KeptInv, NEW pc \in PC, Goto(Worker, pc), Settles,
           UNCHANGED <<queue, phase, restarts>>,
           pc \in EarlyPC <=> co[Worker].pc \in EarlyPC,
           pc \in {"thawCmd", "route"} /\ co[Worker].op = "uninstall" =>
              row'[co[Worker].app] \notin {"UNINSTALLATION_QUEUED", "UNINSTALLING"}
    PROVE  KeptInv'
<1>1. /\ co'[Worker].pc = pc /\ co'[Worker].op = co[Worker].op
      /\ co'[Worker].app = co[Worker].app
      /\ \A t \in Tasks : co'[t] = co[t]
  BY GotoType, ActorsAssumption DEF IInv, TypeOK, Actors
<1>2. \A a, types : Waiting(a, types) => Waiting(a, types)'
  BY <1>1, WaitingStays
<1>3. OnlyInstallsInsert'
  BY <1>1 DEF KeptInv, OnlyInstallsInsert
<1>4. ASSUME NEW a \in Apps, UninstallKept(a)
      PROVE  UninstallKept(a)'
  BY <1>1, <1>2, <1>4 DEF UninstallKept, WorksOn, Settles, Settled
<1>5. ASSUME NEW a \in Apps, InstallsKept(a)
      PROVE  InstallsKept(a)'
  BY <1>1, <1>2, <1>5 DEF InstallsKept, InstallKept, WorksOn, Settles, Settled
<1>6. QED BY <1>3, <1>4, <1>5 DEF KeptInv

(* The worker ends a task whose status the row does not have any more.     *)
LEMMA WorkerEnds ==
    ASSUME IInv, KeptInv, Return(Worker), Settles, UNCHANGED <<queue, phase, restarts>>,
           co[Worker].op = "uninstall" => co[Worker].pc \in {"thawCmd", "route"},
           co[Worker].op \in InstallTypes =>
              IF co[Worker].pc \in EarlyPC THEN row'[co[Worker].app] # "INSTALLATION_QUEUED"
              ELSE row'[co[Worker].app] # "INSTALLING",
           co[Worker].op = "reinstall" =>
              IF co[Worker].pc \in EarlyPC THEN row'[co[Worker].app] # "REINSTALLATION_QUEUED"
              ELSE row'[co[Worker].app] # "REINSTALLING"
    PROVE  KeptInv'
<1>1. \A t \in Tasks : co'[t] = co[t]
  BY ReturnType, ActorsAssumption DEF IInv, TypeOK, Actors
<1>2. \A a, types : Waiting(a, types) => Waiting(a, types)'
  BY <1>1, WaitingStays
<1>3. OnlyInstallsInsert'
  BY <1>1 DEF KeptInv, OnlyInstallsInsert
<1>4. ASSUME NEW a \in Apps, UninstallKept(a)
      PROVE  UninstallKept(a)'
  BY <1>2, <1>4 DEF UninstallKept, WorksOn, Settles, Settled
<1>5. ASSUME NEW a \in Apps, InstallsKept(a)
      PROVE  InstallsKept(a)'
  <2>1. InstallKept(a, InstallTypes, "INSTALLATION_QUEUED", "INSTALLING")'
    BY <1>2, <1>5 DEF InstallsKept, InstallKept, WorksOn, Settles, Settled
  <2>2. InstallKept(a, {"reinstall"}, "REINSTALLATION_QUEUED", "REINSTALLING")'
    BY <1>2, <1>5 DEF InstallsKept, InstallKept, WorksOn, Settles, Settled
  <2>3. QED BY <2>1, <2>2 DEF InstallsKept
<1>6. QED BY <1>3, <1>4, <1>5 DEF KeptInv

(* A coroutine that goes on outside the requests, or returns, inserts      *)
(* nothing next.                                                           *)
LEMMA NoInsertNext ==
    ASSUME IInv, NEW x \in Actors,
           Return(x) \/ \E pc \in PC \ RequestPC : Goto(x, pc)
    PROVE  co'[x].pc \notin {"move", "insert"} /\ \A y \in Actors \ {x} : co'[y] = co[y]
<1>1. CASE Return(x)
  BY <1>1, ReturnType DEF IInv, TypeOK, Idle, Coro
<1>2. ASSUME NEW pc \in PC \ RequestPC, Goto(x, pc)
      PROVE  co'[x].pc = pc /\ \A y \in Actors \ {x} : co'[y] = co[y]
  BY <1>2, GotoType DEF IInv, TypeOK
<1>3. QED BY <1>1, <1>2 DEF RequestPC

(* start_app and docker_pause_app keep every pending task.                 *)
LEMMA StartKeeps ==
    ASSUME IInv, KeptInv, NEW x \in Actors, StartLock(x) \/ StartStep(x) \/ PauseStep(x)
    PROVE  KeptInv'
<1> DEFINE a == co[x].app
<1>1. co[x].pc \in StartPC \cup PausePC
  BY DEF StartLock, StartStep, StartRead, StartProbe, StartUnpause, StartUp, StartMark,
     PauseStep, PauseRead, PauseCmd, PauseWrite, At, StartPC, PausePC
<1>2. x \in Actors \ {Worker} /\ a \in Apps /\ ~At(x, "enqueue")
  BY <1>1, Whereabouts, ActorsAssumption DEF StartPC, PausePC, At
<1>3. Return(x) \/ \E pc \in PC \ RequestPC : Goto(x, pc)
  <2>1. CASE StartLock(x)
    BY <2>1 DEF StartLock, PC, RequestPC
  <2>2. CASE StartStep(x)
    BY <2>2 DEF StartStep, StartRead, StartProbe, StartUnpause, StartUp, StartMark,
       ReleaseAndReturn, PC, RequestPC
  <2>3. CASE PauseStep(x)
    BY <2>3 DEF PauseStep, PauseRead, PauseCmd, PauseWrite, PC, RequestPC
  <2>4. QED BY <2>1, <2>2, <2>3
<1>4. Settles
  <2>1. CASE row' = row
    BY <2>1 DEF Settles
  <2>2. CASE SetStatus(a, "RUNNING") \/ SetStatus(a, "PAUSED")
    BY <1>2, <2>2, StatusSettles DEF Settled, IInv, TypeOK
  <2>3. QED BY <2>1, <2>2 DEF StartLock, StartStep, StartRead, StartProbe, StartUnpause,
         StartUp, StartMark, PauseStep, PauseRead, PauseCmd, PauseWrite
<1>5. UNCHANGED <<queue, phase, restarts>>
  BY DEF StartLock, StartStep, StartRead, StartProbe, StartUnpause, StartUp, StartMark,
     PauseStep, PauseRead, PauseCmd, PauseWrite
<1>6. QED BY <1>2, <1>3, <1>4, <1>5, NoInsertNext, OthersKeep

(* docker_stop_app and docker_shutdown_app, called by the worker, go on to *)
(* its next step, also when docker fails.                                  *)
LEMMA StopGoes ==
    ASSUME NEW x, StopStep(x) \/ DownStep(x)
    PROVE  IF x = Worker THEN \E pc \in StopPC \cup DownPC \cup {"rmtree"} : Goto(x, pc)
           ELSE Return(x) \/ \E pc \in StopPC \cup DownPC : Goto(x, pc)
<1>1. CASE StopRead(x)
  BY <1>1 DEF StopRead, AfterStop, StopPC, DownPC
<1>2. CASE StopUnpause(x) \/ StopCmd(x) \/ StopWrite(x)
  BY <1>2 DEF StopUnpause, StopCmd, StopWrite, AfterStop, Raise, StopPC, DownPC
<1>3. CASE DownStep(x)
  BY <1>3 DEF DownStep, DownRead, DownUnpause, DownCmd, DownWrite, AfterDown, Raise, DownPC
<1>4. QED BY <1>1, <1>2, <1>3 DEF StopStep

(* docker_stop_app and docker_shutdown_app keep every pending task.        *)
LEMMA StopKeeps ==
    ASSUME IInv, KeptInv, NEW x \in Actors, StopStep(x) \/ DownStep(x)
    PROVE  KeptInv'
<1> DEFINE a == co[x].app
<1>1. co[x].pc \in StopPC \cup DownPC /\ UNCHANGED <<queue, phase, restarts>>
  BY DEF StopStep, StopRead, StopUnpause, StopCmd, StopWrite, DownStep, DownRead,
     DownUnpause, DownCmd, DownWrite, At, StopPC, DownPC
<1>2. a \in Apps /\ ~At(x, "enqueue")
  BY <1>1, Whereabouts DEF StopPC, DownPC, At
<1>3. IF x = Worker THEN \E pc \in StopPC \cup DownPC \cup {"rmtree"} : Goto(x, pc)
      ELSE Return(x) \/ \E pc \in StopPC \cup DownPC : Goto(x, pc)
  BY StopGoes
<1>4. Settles
  <2>1. CASE row' = row
    BY <2>1 DEF Settles
  <2>2. CASE SetStatus(a, "STOPPED") \/ SetStatus(a, "DOWN")
    BY <1>2, <2>2, StatusSettles DEF Settled, IInv, TypeOK
  <2>3. QED BY <2>1, <2>2 DEF StopStep, StopRead, StopUnpause, StopCmd, StopWrite, DownStep,
         DownRead, DownUnpause, DownCmd, DownWrite
<1>5. StopPC \cup DownPC \cup {"rmtree"} \subseteq (PC \ RequestPC) \ (EarlyPC \cup {"thawCmd", "route"})
  BY DEF StopPC, DownPC, PC, RequestPC, EarlyPC
<1>6. CASE x = Worker
  BY <1>1, <1>3, <1>4, <1>5, <1>6, WorkerGoes
<1>7. CASE x # Worker
  <2>1. Return(x) \/ \E pc \in PC \ RequestPC : Goto(x, pc)
    BY <1>3, <1>5, <1>7
  <2>2. QED BY <1>1, <1>2, <1>4, <1>7, <2>1, NoInsertNext, OthersKeep
<1>8. QED BY <1>6, <1>7

(* The steps of a request on the way to its INSERT.                        *)
LEMMA InsertKeeps ==
    ASSUME IInv, KeptInv, NEW x \in Actors, MoveZip(x) \/ InsertRow(x)
    PROVE  KeptInv'
<1> DEFINE a == co[x].app
<1>1. co[x].pc \in {"move", "insert"} /\ UNCHANGED <<queue, phase, restarts>>
  BY DEF MoveZip, InsertRow, At
<1>2. x \in Tasks /\ x # Worker /\ a \in Apps /\ ~At(x, "enqueue") /\ co[x].op \in InstallTypes
  BY <1>1, Whereabouts, ActorsAssumption DEF RequestPC, At, KeptInv, OnlyInstallsInsert
<1>3. CASE MoveZip(x)
  <2>1. Goto(x, "insert") /\ row' = row
    BY <1>3 DEF MoveZip
  <2>2. co'[x].op = co[x].op /\ \A y \in Actors \ {x} : co'[y] = co[y]
    BY <2>1, GotoType DEF IInv, TypeOK, PC
  <2>3. QED BY <1>1, <1>2, <2>1, <2>2, OthersKeep DEF Settles
<1>4. CASE InsertRow(x) /\ row' = row /\ Return(x)
  BY <1>1, <1>2, <1>4, NoInsertNext, OthersKeep DEF Settles
<1>5. CASE /\ row[a] = "absent" /\ row' = [row EXCEPT ![a] = "INSTALLATION_QUEUED"]
           /\ Goto(x, "enqueue")
  <2>1. /\ co'[x].op = co[x].op /\ co'[x].app = a /\ co'[x].pc = "enqueue"
        /\ \A y \in Actors \ {x} : co'[y] = co[y]
    BY <1>5, GotoType DEF IInv, TypeOK, PC
  <2>2. co'[Worker] = co[Worker] /\ \A t \in Tasks : At(t, "enqueue") => co'[t] = co[t]
    BY <1>2, <2>1 DEF Actors
  <2>3. \A b, types : Waiting(b, types) => Waiting(b, types)'
    BY <1>1, <2>2, WaitingStays
  <2>4. ASSUME NEW b, b = a
        PROVE  Waiting(b, InstallTypes)'
    BY <1>2, <2>1, <2>4 DEF Waiting, At
  <2>5. row'[a] = "INSTALLATION_QUEUED" /\ \A b \in Apps \ {a} : row'[b] = row[b]
    BY <1>2, <1>5 DEF IInv, TypeOK
  <2>6. OnlyInstallsInsert'
    BY <1>2, <2>1 DEF KeptInv, OnlyInstallsInsert, Actors
  <2>7. ASSUME NEW b \in Apps, UninstallKept(b)
        PROVE  UninstallKept(b)'
    BY <2>2, <2>3, <2>5, <2>7 DEF UninstallKept, WorksOn
  <2>8. ASSUME NEW b \in Apps, InstallsKept(b)
        PROVE  InstallsKept(b)'
    <3>1. InstallKept(b, InstallTypes, "INSTALLATION_QUEUED", "INSTALLING")'
      <4>1. CASE b = a
        BY <2>4, <2>5, <4>1 DEF InstallKept
      <4>2. CASE b # a
        BY <2>2, <2>3, <2>5, <2>8, <4>2 DEF InstallsKept, InstallKept, WorksOn
      <4>3. QED BY <4>1, <4>2
    <3>2. InstallKept(b, {"reinstall"}, "REINSTALLATION_QUEUED", "REINSTALLING")'
      BY <2>2, <2>3, <2>5, <2>8 DEF InstallsKept, InstallKept, WorksOn
    <3>3. QED BY <3>1, <3>2 DEF InstallsKept
  <2>9. QED BY <1>1, <2>6, <2>7, <2>8 DEF KeptInv
<1>6. QED BY <1>3, <1>4, <1>5 DEF InsertRow

(* A request for an uninstall or a reinstall writes the status and holds   *)
(* the task that it announces.                                             *)
LEMMA ChangeKeeps ==
    ASSUME IInv, KeptInv, NEW t \in Tasks, NEW a \in Apps, NEW type \in {"uninstall", "reinstall"},
           RequestChange(t, a, type)
    PROVE  KeptInv'
<1>1. /\ co[t] = Idle /\ co' = [co EXCEPT ![t] = Coro(type, a, "enqueue")]
      /\ row' = [row EXCEPT ![a] = QueuedStatus(type)] /\ UNCHANGED <<queue, phase, restarts>>
  BY DEF RequestChange, CanRequest
<1>2. /\ co'[t].op = type /\ co'[t].app = a /\ co'[t].pc = "enqueue"
      /\ \A y \in Actors \ {t} : co'[y] = co[y]
  BY <1>1 DEF IInv, TypeOK, Actors, Coro
<1>3. co'[Worker] = co[Worker] /\ \A u \in Tasks : At(u, "enqueue") => co'[u] = co[u]
  BY <1>1, <1>2, ActorsAssumption DEF Actors, At, Idle, Coro
<1>4. \A b, types : Waiting(b, types) => Waiting(b, types)'
  BY <1>1, <1>3, WaitingStays
<1>5. Waiting(a, {type})'
  BY <1>2 DEF Waiting, At
<1>6. /\ row'[a] = IF type = "uninstall" THEN "UNINSTALLATION_QUEUED" ELSE "REINSTALLATION_QUEUED"
      /\ \A b \in Apps \ {a} : row'[b] = row[b]
  BY <1>1 DEF IInv, TypeOK, QueuedStatus
<1>7. OnlyInstallsInsert'
  BY <1>2 DEF KeptInv, OnlyInstallsInsert, Actors
<1>8. ASSUME NEW b \in Apps, UninstallKept(b)
      PROVE  UninstallKept(b)'
  BY <1>3, <1>4, <1>5, <1>6, <1>8 DEF UninstallKept, WorksOn
<1>9. ASSUME NEW b \in Apps, InstallsKept(b)
      PROVE  InstallsKept(b)'
  BY <1>3, <1>4, <1>5, <1>6, <1>9 DEF InstallsKept, InstallKept, WorksOn
<1>10. QED BY <1>1, <1>7, <1>8, <1>9 DEF KeptInv

(* Enqueueing keeps what waits: the request's task is now in the queue.    *)
LEMMA EnqueueKeeps ==
    ASSUME IInv, KeptInv, NEW x \in Actors, Enqueue(x)
    PROVE  KeptInv'
<1> DEFINE task == [app |-> co[x].app, type |-> co[x].op]
<1>1. /\ At(x, "enqueue") /\ queue' = Append(queue, task) /\ Return(x)
      /\ UNCHANGED <<row, phase, restarts>>
  BY DEF Enqueue
<1>2. x \in Tasks /\ x # Worker /\ task \in InstallationTask
  BY <1>1, Whereabouts, ActorsAssumption DEF RequestPC, At, InstallationTask
<1>3. co'[x] = Idle /\ \A y \in Actors \ {x} : co'[y] = co[y]
  BY <1>1, ReturnType DEF IInv, TypeOK
<1>4. ASSUME NEW a, NEW types, Waiting(a, types)
      PROVE  Waiting(a, types)'
  <2>1. queue \in Seq(InstallationTask)
    BY DEF IInv, TypeOK
  <2>2. /\ Len(queue') = Len(queue) + 1 /\ Len(queue) \in Nat
        /\ \A i \in 1..Len(queue) : queue'[i] = queue[i]
        /\ queue'[Len(queue) + 1] = task
    BY <1>1, <1>2, <2>1
  <2>3. CASE \E i \in 1..Len(queue) : queue[i].app = a /\ queue[i].type \in types
    <3>1. PICK i \in 1..Len(queue) : queue[i].app = a /\ queue[i].type \in types
      BY <2>3
    <3>2. i \in 1..Len(queue') /\ queue'[i] = queue[i]
      BY <2>2
    <3>3. QED BY <3>1, <3>2 DEF Waiting
  <2>4. ASSUME NEW t \in Tasks, co[t].app = a, co[t].op \in types, At(t, "enqueue")
        PROVE  Waiting(a, types)'
    <3>1. CASE t = x
      <4>1. Len(queue) + 1 \in 1..Len(queue')
        BY <2>2
      <4>2. queue'[Len(queue) + 1].app = a /\ queue'[Len(queue) + 1].type \in types
        BY <2>2, <2>4, <3>1
      <4>3. QED BY <4>1, <4>2 DEF Waiting
    <3>2. CASE t # x
      BY <1>3, <2>4, <3>2 DEF Waiting, At, Actors
    <3>3. QED BY <3>1, <3>2
  <2>5. QED BY <1>4, <2>3, <2>4 DEF Waiting
<1>5. co'[Worker] = co[Worker]
  BY <1>2, <1>3 DEF Actors
<1>6. OnlyInstallsInsert'
  BY <1>3 DEF KeptInv, OnlyInstallsInsert, Actors, Idle, Coro
<1>7. ASSUME NEW a \in Apps, UninstallKept(a)
      PROVE  UninstallKept(a)'
  BY <1>1, <1>4, <1>5, <1>7 DEF UninstallKept, WorksOn
<1>8. ASSUME NEW a \in Apps, InstallsKept(a)
      PROVE  InstallsKept(a)'
  BY <1>1, <1>4, <1>5, <1>8 DEF InstallsKept, InstallKept, WorksOn
<1>9. QED BY <1>1, <1>6, <1>7, <1>8 DEF KeptInv

(* Taking a task makes it the worker's.                                    *)
LEMMA DequeueKeeps ==
    ASSUME IInv, KeptInv, Dequeue
    PROVE  KeptInv'
<1> DEFINE h == Head(queue)
<1>1. /\ queue # <<>> /\ queue' = Tail(queue) /\ co[Worker] = Idle
      /\ UNCHANGED <<row, phase, restarts>>
  BY DEF Dequeue
<1>2. queue \in Seq(InstallationTask) /\ Len(queue) \in Nat \ {0} /\ h = queue[1]
  BY <1>1 DEF IInv, TypeOK
<1>3. h \in InstallationTask
  BY <1>2
<1>4. /\ co'[Worker].app = h.app /\ co'[Worker].op = h.type
      /\ co'[Worker].pc = IF h.type = "uninstall" THEN "teardownLock" ELSE "check"
      /\ \A t \in Tasks : co'[t] = co[t]
  BY ActorsAssumption DEF Dequeue, Coro, IInv, TypeOK, Actors
<1>5. ASSUME NEW a, NEW types, Waiting(a, types)
      PROVE  Waiting(a, types)' \/ (h.app = a /\ h.type \in types)
  <2>1. CASE \E i \in 1..Len(queue) : queue[i].app = a /\ queue[i].type \in types
    <3>1. PICK i \in 1..Len(queue) : queue[i].app = a /\ queue[i].type \in types
      BY <2>1
    <3>2. CASE i = 1
      BY <1>2, <3>1, <3>2
    <3>3. CASE i # 1
      <4>1. i - 1 \in 1..Len(queue') /\ queue'[i - 1] = queue[i]
        BY <1>1, <1>2, <3>3
      <4>2. QED BY <3>1, <4>1 DEF Waiting
    <3>4. QED BY <3>2, <3>3
  <2>2. CASE \E t \in Tasks : co[t].app = a /\ co[t].op \in types /\ At(t, "enqueue")
    BY <1>4, <2>2 DEF Waiting, At
  <2>3. QED BY <1>5, <2>1, <2>2 DEF Waiting
<1>6. OnlyInstallsInsert'
  BY <1>4 DEF KeptInv, OnlyInstallsInsert
<1>7. co[Worker].op = "none" /\ "none" \notin TaskType /\ InstallTypes \subseteq TaskType
  BY <1>1 DEF Idle, Coro, TaskType, InstallTypes
<1>8. "uninstall" \notin InstallTypes
  BY DEF InstallTypes
<1>9. ASSUME NEW a \in Apps, UninstallKept(a)
      PROVE  UninstallKept(a)'
  BY <1>1, <1>4, <1>5, <1>7, <1>9 DEF UninstallKept, WorksOn
<1>10. ASSUME NEW a \in Apps, InstallsKept(a)
       PROVE  InstallsKept(a)'
  <2>1. InstallKept(a, InstallTypes, "INSTALLATION_QUEUED", "INSTALLING")'
    BY <1>1, <1>4, <1>5, <1>7, <1>8, <1>10 DEF InstallsKept, InstallKept, WorksOn, EarlyPC
  <2>2. InstallKept(a, {"reinstall"}, "REINSTALLATION_QUEUED", "REINSTALLING")'
    BY <1>1, <1>4, <1>5, <1>7, <1>10 DEF InstallsKept, InstallKept, WorksOn, EarlyPC
  <2>3. QED BY <2>1, <2>2 DEF InstallsKept
<1>11. QED BY <1>1, <1>6, <1>9, <1>10 DEF KeptInv

(* What an install is not, and the status it waits in.                     *)
LEMMA InstallNature ==
    ASSUME NEW type \in InstallTypes
    PROVE  type \notin {"uninstall", "reinstall"} /\ QueuedStatus(type) = "INSTALLATION_QUEUED"
<1>1. type # "uninstall" /\ type # "reinstall"
  BY DEF InstallTypes
<1>2. QED BY <1>1 DEF QueuedStatus

(* The worker writes the status of the task that it has in hand, whatever  *)
(* the row says by now.                                                    *)
LEMMA FlipKeeps ==
    ASSUME IInv, KeptInv, NEW pc \in PC \ (EarlyPC \cup {"thawCmd", "route"}), Goto(Worker, pc),
           NEW s, SetStatus(co[Worker].app, s), co[Worker].app \in Apps,
           \/ s = "INSTALLING" /\ co[Worker].op \in InstallTypes
           \/ s = "REINSTALLING" /\ co[Worker].op = "reinstall"
           \/ s = "UNINSTALLING" /\ co[Worker].op = "uninstall",
           UNCHANGED <<queue, phase, restarts>>
    PROVE  KeptInv'
<1> DEFINE a == co[Worker].app
<1>1. /\ co'[Worker].pc = pc /\ co'[Worker].op = co[Worker].op /\ co'[Worker].app = a
      /\ \A t \in Tasks : co'[t] = co[t]
  BY GotoType, ActorsAssumption DEF IInv, TypeOK, Actors
<1>2. \A b, types : Waiting(b, types) => Waiting(b, types)'
  BY <1>1, WaitingStays
<1>3. row'[a] \in {"absent", s} /\ \A b \in Apps \ {a} : row'[b] = row[b]
  BY DEF SetStatus, IInv, TypeOK
<1>4. OnlyInstallsInsert'
  BY <1>1 DEF KeptInv, OnlyInstallsInsert
<1>5. ASSUME NEW b \in Apps, UninstallKept(b)
      PROVE  UninstallKept(b)'
  <2>1. CASE b = a
    BY <1>1, <1>3, <2>1 DEF UninstallKept, WorksOn
  <2>2. CASE b # a
    BY <1>1, <1>2, <1>3, <1>5, <2>2 DEF UninstallKept, WorksOn
  <2>3. QED BY <2>1, <2>2
<1>6. ASSUME NEW b \in Apps, InstallsKept(b)
      PROVE  InstallsKept(b)'
  <2>1. CASE b = a
    BY <1>1, <1>3, <2>1 DEF InstallsKept, InstallKept, WorksOn
  <2>2. CASE b # a
    BY <1>1, <1>2, <1>3, <1>6, <2>2 DEF InstallsKept, InstallKept, WorksOn
  <2>3. QED BY <2>1, <2>2
<1>7. QED BY <1>4, <1>5, <1>6 DEF KeptInv

(* The steps of an install or a reinstall.                                 *)
LEMMA InstallKeeps ==
    ASSUME IInv, KeptInv, NEW x \in Actors,
           \/ Check(x) \/ Flip(x) \/ Download(x) \/ Extract(x) \/ Render(x) \/ Create(x)
           \/ FinishInstall(x) \/ InstallError(x)
    PROVE  KeptInv'
<1> DEFINE a == co[x].app
<1>1. co[x].pc \in InstallPC \ {"route"} /\ UNCHANGED <<queue, phase, restarts>>
  BY DEF Check, Flip, Download, Extract, Render, Create, FinishInstall, InstallError, At, InstallPC
<1>2. x = Worker /\ a \in Apps /\ co[x].op \in InstallTypes \cup {"reinstall"}
  BY <1>1, Whereabouts DEF InstallPC
<1>3. co[x].op # "uninstall" /\ (co[x].op \in InstallTypes => co[x].op # "reinstall")
  BY <1>2, InstallNature
<1>4. QueuedStatus(co[x].op) =
        IF co[x].op = "reinstall" THEN "REINSTALLATION_QUEUED" ELSE "INSTALLATION_QUEUED"
  BY <1>2, InstallNature DEF QueuedStatus
<1>5. CASE Check(x)
  <2>1. CASE Goto(x, "flip")
    BY <1>1, <1>2, <1>3, <1>5, <2>1, WorkerGoes DEF Check, At, PC, EarlyPC, Settles
  <2>2. CASE row[a] # QueuedStatus(co[x].op) /\ Return(x)
    BY <1>1, <1>2, <1>3, <1>4, <1>5, <2>2, WorkerEnds DEF Check, At, EarlyPC, Settles
  <2>3. QED BY <1>5, <2>1, <2>2 DEF Check
<1>6. CASE Flip(x)
  <2>1. \/ /\ co[x].op \in InstallTypes /\ SetStatus(a, "INSTALLING")
           /\ Goto(x, "download") \/ Goto(x, "extract")
        \/ co[x].op = "reinstall" /\ SetStatus(a, "REINSTALLING") /\ Goto(x, "stopRead")
        \/ row[a] = "absent" /\ Return(x) /\ UNCHANGED row
    BY <1>6 DEF Flip, InstallTypes
  <2>2. CASE row[a] = "absent" /\ Return(x) /\ UNCHANGED row
    <3>1. At(x, "flip")
      BY <1>6 DEF Flip
    <3>2. QED BY <1>1, <1>2, <1>3, <2>2, <3>1, WorkerEnds DEF At, EarlyPC, Settles
  <2>3. "download" \in PC /\ "extract" \in PC /\ "stopRead" \in PC
    BY DEF PC
  <2>4. QED BY <1>1, <1>2, <2>1, <2>2, <2>3, FlipKeeps DEF EarlyPC
<1>7. CASE Download(x) \/ Extract(x) \/ Render(x) \/ Create(x)
  <2>1. /\ co[x].pc \notin EarlyPC /\ row' = row
        /\ \E pc \in {"extract", "render", "create", "route", "error"} : Goto(x, pc)
    BY <1>7 DEF Download, Extract, Render, Create, At, EarlyPC
  <2>2. QED BY <1>1, <1>2, <1>3, <2>1, WorkerGoes DEF PC, EarlyPC, Settles
<1>8. CASE FinishInstall(x) \/ InstallError(x)
  <2>1. co[x].pc \notin EarlyPC /\ Return(x) /\ (SetStatus(a, "STOPPED") \/ SetStatus(a, "ERROR"))
    BY <1>8 DEF FinishInstall, InstallError, At, EarlyPC
  <2>2. Settles /\ row'[a] \in Settled
    BY <1>2, <2>1, StatusSettles DEF Settled, IInv, TypeOK, SetStatus
  <2>3. QED BY <1>1, <1>2, <1>3, <2>1, <2>2, WorkerEnds DEF Settled
<1>9. QED BY <1>5, <1>6, <1>7, <1>8

(* The steps of an uninstall, and those it shares with the others.         *)
LEMMA TeardownKeeps ==
    ASSUME IInv, KeptInv, NEW x \in Actors,
           \/ TeardownLock(x) \/ TeardownRead(x) \/ ThawRead(x) \/ ThawCmd(x) \/ ThawMark(x)
           \/ TeardownFlip(x) \/ RemoveFiles(x) \/ RemoveRow(x) \/ WriteRoutes(x)
    PROVE  KeptInv'
<1> DEFINE a == co[x].app
<1>1. /\ co[x].pc \in UninstallOnlyPC \cup {"rmtree", "route"}
      /\ UNCHANGED <<queue, phase, restarts>>
  BY DEF TeardownLock, TeardownRead, ThawRead, ThawCmd, ThawMark, TeardownFlip, RemoveFiles,
     RemoveRow, WriteRoutes, At, UninstallOnlyPC
<1>2. /\ x = Worker /\ a \in Apps /\ co[x].pc \notin EarlyPC
      /\ co[x].pc \in UninstallOnlyPC => co[x].op = "uninstall"
  BY <1>1, Whereabouts DEF UninstallOnlyPC, EarlyPC
<1>3. CASE TeardownLock(x) \/ TeardownRead(x) \/ RemoveFiles(x)
  <2>1. row' = row /\ \E pc \in {"teardownRead", "stopRead", "thawRead", "teardownFlip",
                                 "remove", "download"} : Goto(x, pc)
    BY <1>3 DEF TeardownLock, TeardownRead, RemoveFiles
  <2>2. QED BY <1>1, <1>2, <2>1, WorkerGoes DEF PC, EarlyPC, Settles
<1>4. CASE ThawRead(x)
  <2>1. row' = row /\ (Goto(x, "teardownFlip") \/ (row[a] = "PAUSED" /\ Goto(x, "thawCmd")))
    BY <1>4 DEF ThawRead
  <2>2. QED BY <1>1, <1>2, <2>1, WorkerGoes DEF PC, EarlyPC, Settles
<1>5. CASE ThawCmd(x)
  <2>1. co[x].pc = "thawCmd" /\ row' = row /\ (Goto(x, "thawMark") \/ Return(x))
    BY <1>5 DEF ThawCmd, At, ReleaseAndReturn
  <2>2. co[x].op = "uninstall"
    BY <1>2, <2>1 DEF UninstallOnlyPC
  <2>3. CASE Goto(x, "thawMark")
    BY <1>1, <1>2, <2>1, <2>3, WorkerGoes DEF PC, EarlyPC, Settles
  <2>4. CASE Return(x)
    BY <1>1, <1>2, <2>1, <2>2, <2>4, WorkerEnds, InstallNature DEF Settles
  <2>5. QED BY <2>1, <2>3, <2>4
<1>6. CASE ThawMark(x)
  <2>1. Settles
    BY <1>2, <1>6, StatusSettles DEF ThawMark, Settled, IInv, TypeOK
  <2>2. QED BY <1>1, <1>2, <1>6, <2>1, WorkerGoes DEF ThawMark, PC, EarlyPC
<1>7. CASE TeardownFlip(x)
  <2>1. SetStatus(a, "UNINSTALLING") /\ Goto(x, "stopRead") /\ co[x].op = "uninstall"
    BY <1>2, <1>7 DEF TeardownFlip, At, UninstallOnlyPC
  <2>2. QED BY <1>1, <1>2, <2>1, FlipKeeps DEF PC, EarlyPC
<1>8. CASE RemoveRow(x)
  <2>1. Goto(x, "route") /\ Settles /\ row'[a] = "absent"
    BY <1>2, <1>8 DEF RemoveRow, Settles, Settled, IInv, TypeOK
  <2>2. QED BY <1>1, <1>2, <2>1, WorkerGoes DEF PC, EarlyPC
<1>9. CASE WriteRoutes(x)
  <2>1. /\ co[x].pc = "route" /\ row' = row
        /\ IF co[x].op = "uninstall" THEN Return(x) ELSE Goto(x, "finish")
    BY <1>9 DEF WriteRoutes, At, ReleaseAndReturn
  <2>2. CASE co[x].op = "uninstall"
    BY <1>1, <1>2, <2>1, <2>2, WorkerEnds, InstallNature DEF Settles
  <2>3. CASE co[x].op # "uninstall"
    BY <1>1, <1>2, <2>1, <2>3, WorkerGoes DEF PC, EarlyPC, Settles
  <2>4. QED BY <2>2, <2>3
<1>10. QED BY <1>3, <1>4, <1>5, <1>6, <1>7, <1>8, <1>9

(* A request, a wake or a tick that starts announces nothing yet.          *)
LEMMA SpawnKeeps ==
    ASSUME IInv, KeptInv, NEW t \in Tasks, NEW a \in Apps,
           \/ \E type \in InstallTypes : RequestInstall(t, a, type)
           \/ Wake(t, a)
           \/ \E op \in {"revive", "pause", "stop"} : Control(t, a, op)
    PROVE  KeptInv'
<1>1. co[t] = Idle /\ Settles /\ UNCHANGED <<queue, phase, restarts>>
  BY DEF RequestInstall, CanRequest, Wake, Control, Settles
<1>2. \E op, pc : /\ co' = [co EXCEPT ![t] = Coro(op, a, pc)]
                  /\ op \in InstallTypes \/ pc \notin {"move", "insert"}
  <2>1. CASE \E type \in InstallTypes : RequestInstall(t, a, type)
    BY <2>1, Zenon DEF RequestInstall
  <2>2. CASE Wake(t, a)
    <3>1. co' = [co EXCEPT ![t] = Coro("wake", a, "startLock")]
      BY <2>2 DEF Wake
    <3>2. "startLock" \notin {"move", "insert"}
      OBVIOUS
    <3>3. QED BY <3>1, <3>2, Zenon
  <2>3. CASE \E op \in {"revive", "pause", "stop"} : Control(t, a, op)
    <3>1. \E op, pc : /\ co' = [co EXCEPT ![t] = Coro(op, a, pc)]
                      /\ pc \in {"startLock", "pauseRead", "stopRead"}
      BY <2>3, Zenon DEF Control
    <3>2. QED BY <3>1
  <2>4. QED BY <2>1, <2>2, <2>3
<1>3. /\ co'[t].pc \in {"move", "insert"} => co'[t].op \in InstallTypes
      /\ \A y \in Actors \ {t} : co'[y] = co[y]
  BY <1>2 DEF IInv, TypeOK, Actors, Coro
<1>4. t \in Actors \ {Worker} /\ ~At(t, "enqueue")
  BY <1>1, ActorsAssumption DEF Actors, At, Idle, Coro
<1>5. QED BY <1>1, <1>3, <1>4, OthersKeep

(* A process that stops promises nothing.                                  *)
LEMMA StopsKeep ==
    ASSUME IInv, KeptInv, Shutdown \/ ShutdownComplete \/ Crash
    PROVE  KeptInv'
<1>1. phase' # "up" /\ (phase' = "down" => restarts' # 0)
  BY BoundsAssumption DEF Shutdown, ShutdownComplete, Crash, Exit, IInv, TypeOK
<1>2. \A t \in Tasks : co'[t] = co[t] \/ co'[t].pc \notin {"move", "insert"}
  <2>1. CASE Shutdown
    BY <2>1, ShutdownEnds DEF Idle, Coro
  <2>2. CASE Exit
    BY <2>2 DEF Exit, Actors, Idle, Coro
  <2>3. QED BY <2>1, <2>2 DEF ShutdownComplete, Crash
<1>3. QED BY <1>1, <1>2 DEF KeptInv, OnlyInstallsInsert

(* reconcile_interrupted_uninstalls: a restarted process has a task for    *)
(* every row that it finds in an uninstalling status.                      *)
LEMMA StartupKeeps ==
    ASSUME IInv, KeptInv, Startup
    PROVE  KeptInv'
<1> DEFINE n == Cardinality(Interrupted)
<1>1. row' = row /\ co' = co /\ restarts' # 0
  BY DEF Startup, KeptInv
<1>2. IsFiniteSet(Interrupted) /\ n \in Nat
  BY FiniteAssumption, FS_Subset, FS_CardinalityType DEF Interrupted
<1>3. PICK rows \in Surjection(1..n, Interrupted) :
             queue' = [i \in 1..n |-> ResumeTask(rows[i])]
  BY DEF Startup
<1>4. Len(queue') = n
  BY <1>2, <1>3
<1>5. ASSUME NEW a \in Interrupted
      PROVE  Waiting(a, {"uninstall"})'
  <2>1. PICK i \in 1..n : rows[i] = a
    BY <1>3 DEF Surjection
  <2>2. i \in 1..Len(queue') /\ queue'[i].app = a /\ queue'[i].type = "uninstall"
    BY <1>3, <1>4, <2>1 DEF ResumeTask
  <2>3. QED BY <2>2 DEF Waiting
<1>6. \A a \in Apps : UninstallKept(a)'
  BY <1>1, <1>5 DEF UninstallKept, Interrupted
<1>7. QED BY <1>1, <1>6 DEF KeptInv, OnlyInstallsInsert

(* Every step keeps the invariant.                                         *)
LEMMA StepKeeps ==
    ASSUME IInv, KeptInv, [Next]_vars
    PROVE  KeptInv'
<1>1. ASSUME NEW t \in Tasks, TaskStep(t) \/ StartLock(t)
      PROVE  KeptInv'
  BY <1>1, StartKeeps, StopKeeps, InsertKeeps, EnqueueKeeps DEF TaskStep, RequestStep, Actors
<1>2. CASE TeardownOrInstall \/ TeardownLock(Worker)
  BY <1>2, StopKeeps, InstallKeeps, TeardownKeeps DEF TeardownOrInstall, WorkerStep, Actors
<1>3. ASSUME NEW a \in Apps, DownStep(a)
      PROVE  KeptInv'
  BY <1>3, StopKeeps DEF Actors
<1>4. CASE Dequeue
  BY <1>4, DequeueKeeps
<1>5. ASSUME NEW t \in Tasks, NEW a \in Apps,
             \/ \E type \in InstallTypes : RequestInstall(t, a, type)
             \/ \E type \in {"uninstall", "reinstall"} : RequestChange(t, a, type)
             \/ Wake(t, a)
             \/ \E op \in {"revive", "pause", "stop"} : Control(t, a, op)
      PROVE  KeptInv'
  BY <1>5, SpawnKeeps, ChangeKeeps
<1>6. CASE (\E a \in Apps : ContainerExit(a)) \/ UNCHANGED vars
  <2>1. UNCHANGED <<row, queue, co, phase, restarts>>
    BY <1>6 DEF ContainerExit, vars
  <2>2. QED BY <2>1 DEF KeptInv, OnlyInstallsInsert, UninstallKept, InstallsKept, InstallKept,
         Waiting, WorksOn, At
<1>7. CASE Shutdown \/ ShutdownComplete \/ Crash
  BY <1>7, StopsKeep
<1>8. CASE Startup
  BY <1>8, StartupKeeps
<1>9. QED BY <1>1, <1>2, <1>3, <1>4, <1>5, <1>6, <1>7, <1>8 DEF Next

(* Whatever requests, ticks, crashes and restarts come between: as long as *)
(* the process is up, every announced uninstall is still to come, and, in  *)
(* a process that was never restarted, every announced install and         *)
(* reinstall.                                                              *)
THEOREM TasksKept == Spec => []KeptInv
<1>1. Init => KeptInv
  BY DEF Init, KeptInv, OnlyInstallsInsert, UninstallKept, InstallsKept, InstallKept, Idle, Coro,
     Actors
<1>2. IInv /\ KeptInv /\ [Next]_vars => KeptInv'
  BY StepKeeps
<1>3. QED BY <1>1, <1>2, Invariance, PTL DEF Spec

(* What waits or is worked on is pending.                                  *)
LEMMA KeptPending ==
    ASSUME IInv, NEW a \in Apps, NEW types, types = {"uninstall"} \/ types = {"reinstall"} \/ types = InstallTypes,
           Waiting(a, types) \/ WorksOn(a, types)
    PROVE  Pending(a, types)
<1>1. "none" \notin types
  <2>1. "none" \notin InstallTypes
    BY DEF InstallTypes
  <2>2. QED BY <2>1
<1>2. CASE Waiting(a, types)
  BY <1>2 DEF Waiting, Pending, At
<1>3. CASE WorksOn(a, types)
  <2>1. co[Worker] # Idle /\ InCode(Worker)
    BY <1>1, <1>3 DEF WorksOn, Idle, Coro, IInv, Actors
  <2>2. co[Worker].pc # "idle"
    BY <2>1, ActorsAssumption DEF InCode, InstallPC, StopPC, DownPC, TeardownPC
  <2>3. QED BY <1>3, <2>2 DEF WorksOn, Pending
<1>4. QED BY <1>2, <1>3

(* NoStrandedUninstall of every behaviour: the status update and the       *)
(* enqueueing of uninstall_app are two steps, every worker step may fail,  *)
(* the process may end anywhere, and the row is still never left in an     *)
(* uninstalling status that nobody will act on.                            *)
THEOREM NoUninstallStranded == Spec => []NoStrandedUninstall
<1>1. IInv /\ KeptInv => NoStrandedUninstall
  BY KeptPending DEF KeptInv, UninstallKept, NoStrandedUninstall
<1>2. QED BY <1>1, Invariance, TasksKept, PTL

(* NoStrandedInstall of every behaviour: every error path of the worker    *)
(* ends in a status that no task has to leave, and no task of another kind *)
(* overwrites the status that a pending install or reinstall waits in.     *)
THEOREM NoInstallStranded == Spec => []NoStrandedInstall
<1>1. IInv /\ KeptInv => NoStrandedInstall
  <2>1. SUFFICES ASSUME IInv, KeptInv, phase = "up", restarts = 0, NEW a \in Apps
                 PROVE  /\ row[a] \in {"INSTALLATION_QUEUED", "INSTALLING"} => Pending(a, InstallTypes)
                        /\ row[a] \in {"REINSTALLATION_QUEUED", "REINSTALLING"} => Pending(a, {"reinstall"})
    BY DEF NoStrandedInstall
  <2>2. InstallsKept(a)
    BY <2>1 DEF KeptInv
  <2>3. row[a] \in {"INSTALLATION_QUEUED", "INSTALLING"} =>
           Waiting(a, InstallTypes) \/ WorksOn(a, InstallTypes)
    BY <2>2 DEF InstallsKept, InstallKept
  <2>4. row[a] \in {"REINSTALLATION_QUEUED", "REINSTALLING"} =>
           Waiting(a, {"reinstall"}) \/ WorksOn(a, {"reinstall"})
    BY <2>2 DEF InstallsKept, InstallKept
  <2>5. QED BY <2>1, <2>3, <2>4, KeptPending
<1>2. QED BY <1>1, Invariance, TasksKept, PTL

-----------------------------------------------------------------------------
(* Nothing of a removed app is left behind.                                *)

(* The DELETE comes after the rmtree.                                      *)
RemovesLast == At(Worker, "remove") => files[co[Worker].app] \subseteq {"zip"}

(* An install or reinstall that has written its status has a row: nobody   *)
(* but the worker itself removes one.                                      *)
WorksOnRow ==
    co[Worker].op # "uninstall" /\ co[Worker].pc \notin EarlyPC \cup {"idle"} =>
        row[co[Worker].app] # "absent"

LeftInv == RemovedMeansGone /\ NoDanglingRoute /\ RemovesLast /\ WorksOnRow

(* A step that removes no row and writes no route.  Only the archive of an *)
(* upload may appear in a directory, unless the row is there.              *)
LEMMA Leaves ==
    ASSUME LeftInv,
           \A a \in Apps : row'[a] = "absent" => row[a] = "absent",
           \A a \in Apps : row[a] = "absent" => files'[a] \subseteq files[a] \cup {"zip"},
           routes' = routes, phase' = phase, routes \subseteq Apps,
           co[Worker].pc = "route" => co'[Worker] = co[Worker],
           RemovesLast', WorksOnRow'
    PROVE  LeftInv'
<1>1. RemovedMeansGone'
  BY DEF LeftInv, RemovedMeansGone
<1>2. NoDanglingRoute'
  BY DEF LeftInv, NoDanglingRoute, TearingDown, At
<1>3. QED BY <1>1, <1>2 DEF LeftInv

(* A step of anyone but the worker.                                        *)
LEMMA OthersLeave ==
    ASSUME IInv, LeftInv, co'[Worker] = co[Worker],
           \A a \in Apps : row'[a] = "absent" => row[a] = "absent",
           \A a \in Apps : files'[a] \subseteq files[a] \cup {"zip"},
           routes' = routes, phase' = phase
    PROVE  LeftInv'
<1>1. At(Worker, "remove") => co[Worker].app \in Apps
  BY Whereabouts DEF At, Actors
<1>2. RemovesLast'
  BY <1>1 DEF LeftInv, RemovesLast, At
<1>3. WorksOnRow'
  <2>1. co[Worker].pc # "idle" => co[Worker].app \in Apps
    BY Whereabouts DEF Actors
  <2>2. QED BY <2>1 DEF LeftInv, WorksOnRow
<1>4. QED BY <1>2, <1>3, Leaves DEF IInv, TypeOK

(* A step of the worker to another place.                                  *)
LEMMA WorkerLeaves ==
    ASSUME IInv, LeftInv, NEW pc \in PC, Goto(Worker, pc), co[Worker].pc \notin {"route", "idle"},
           \A a \in Apps : row'[a] = "absent" => row[a] = "absent",
           \A a \in Apps : row[a] = "absent" => files'[a] \subseteq files[a] \cup {"zip"},
           routes' = routes, phase' = phase,
           pc = "remove" => files'[co[Worker].app] \subseteq {"zip"},
           \/ pc \in EarlyPC
           \/ co[Worker].op = "uninstall"
           \/ co[Worker].pc \notin EarlyPC
           \/ row[co[Worker].app] # "absent"
    PROVE  LeftInv'
<1>1. co'[Worker].pc = pc /\ co'[Worker].op = co[Worker].op /\ co'[Worker].app = co[Worker].app
  BY GotoType DEF IInv, TypeOK, Actors
<1>2. co[Worker].app \in Apps
  BY Whereabouts DEF Actors
<1>3. RemovesLast'
  BY <1>1 DEF RemovesLast, At
<1>4. WorksOnRow'
  BY <1>1, <1>2 DEF LeftInv, WorksOnRow
<1>5. QED BY <1>3, <1>4, Leaves DEF IInv, TypeOK

(* A step of the worker that ends the task.                                *)
LEMMA WorkerLeft ==
    ASSUME IInv, LeftInv, Return(Worker), co[Worker].pc # "route", files' = files,
           \A a \in Apps : row'[a] = "absent" => row[a] = "absent",
           routes' = routes, phase' = phase
    PROVE  LeftInv'
<1>1. co'[Worker].pc = "idle"
  BY ReturnType DEF IInv, TypeOK, Actors, Idle, Coro
<1>2. RemovesLast' /\ WorksOnRow'
  BY <1>1 DEF RemovesLast, WorksOnRow, At
<1>3. QED BY <1>2, Leaves DEF IInv, TypeOK

(* The UPDATE of a status removes no row.                                  *)
LEMMA StatusLeaves ==
    ASSUME IInv, NEW a \in Apps, NEW s, s # "absent", SetStatus(a, s)
    PROVE  \A b \in Apps : row'[b] = "absent" => row[b] = "absent"
  BY DEF SetStatus, IInv, TypeOK

(* A request, wake, tick or shutdown removes no row and no route, and puts *)
(* nothing on disk but the archive of an upload.                           *)
LEMMA CoroutineLeaves ==
    ASSUME IInv, LeftInv, NEW x \in Actors \ {Worker},
           \/ StartLock(x) \/ StartStep(x) \/ PauseStep(x) \/ StopStep(x) \/ DownStep(x)
           \/ RequestStep(x)
    PROVE  LeftInv'
<1>1. Good(x)
  BY RunningGood, LockGood
<1>2. co'[Worker] = co[Worker] /\ \A a \in Apps : row'[a] = "absent" => row[a] = "absent"
  BY <1>1 DEF Good, Moves, RowCase, Actors
<1>3. routes' = routes /\ phase' = phase /\ (files' = files \/ MoveZip(x))
  BY <1>1 DEF Good, StartLock, StartStep, StartRead, StartProbe, StartUnpause, StartUp, StartMark,
     PauseStep, PauseRead, PauseCmd, PauseWrite, StopStep, StopRead, StopUnpause, StopCmd,
     StopWrite, DownStep, DownRead, DownUnpause, DownCmd, DownWrite, RequestStep, MoveZip,
     InsertRow, Enqueue
<1>4. \A a \in Apps : files'[a] \subseteq files[a] \cup {"zip"}
  BY <1>3 DEF MoveZip, IInv, TypeOK
<1>5. QED BY <1>2, <1>3, <1>4, OthersLeave

(* The worker in docker_stop_app or docker_shutdown_app.                   *)
LEMMA WorkerStopLeaves ==
    ASSUME IInv, LeftInv, StopStep(Worker) \/ DownStep(Worker)
    PROVE  LeftInv'
<1>1. co[Worker].pc \in StopPC \cup DownPC /\ UNCHANGED <<files, routes, phase>>
  BY DEF StopStep, StopRead, StopUnpause, StopCmd, StopWrite, DownStep, DownRead,
     DownUnpause, DownCmd, DownWrite, At, StopPC, DownPC
<1>2. co[Worker].app \in Apps /\ co[Worker].pc \notin EarlyPC \cup {"route", "idle"}
  BY <1>1, Whereabouts DEF StopPC, DownPC, EarlyPC, Actors
<1>3. \A b \in Apps : row'[b] = "absent" => row[b] = "absent"
  <2>1. \/ row' = row \/ SetStatus(co[Worker].app, "STOPPED") \/ SetStatus(co[Worker].app, "DOWN")
    BY DEF StopStep, StopRead, StopUnpause, StopCmd, StopWrite, DownStep, DownRead,
       DownUnpause, DownCmd, DownWrite
  <2>2. QED BY <1>2, <2>1, StatusLeaves
<1>4. PICK pc \in StopPC \cup DownPC \cup {"rmtree"} : Goto(Worker, pc)
  BY StopGoes
<1>5. pc \in PC /\ pc # "remove"
  BY DEF StopPC, DownPC, PC
<1>6. QED BY <1>1, <1>2, <1>3, <1>4, <1>5, WorkerLeaves

(* The steps of an install or a reinstall.                                 *)
LEMMA InstallLeaves ==
    ASSUME IInv, LeftInv,
           \/ Check(Worker) \/ Flip(Worker) \/ Download(Worker) \/ Extract(Worker)
           \/ Render(Worker) \/ Create(Worker) \/ FinishInstall(Worker) \/ InstallError(Worker)
    PROVE  LeftInv'
<1> DEFINE a == co[Worker].app
<1>1. co[Worker].pc \in InstallPC \ {"route"} /\ UNCHANGED <<routes, phase>>
  BY DEF Check, Flip, Download, Extract, Render, Create, FinishInstall, InstallError, At, InstallPC
<1>2. a \in Apps /\ co[Worker].op \in InstallTypes \cup {"reinstall"}
  BY <1>1, Whereabouts DEF InstallPC, Actors
<1>3. co[Worker].pc \notin {"route", "idle"} /\ co[Worker].op # "uninstall"
  BY <1>1, <1>2, InstallNature DEF InstallPC
<1>4. CASE Check(Worker)
  <2>1. UNCHANGED <<row, files>> /\ (Goto(Worker, "flip") \/ Return(Worker))
    BY <1>4 DEF Check
  <2>2. QED BY <1>1, <1>3, <2>1, WorkerLeaves, WorkerLeft DEF PC, EarlyPC
<1>5. CASE Flip(Worker)
  <2>1. files' = files /\
        (\/ /\ row[a] # "absent" /\ (SetStatus(a, "INSTALLING") \/ SetStatus(a, "REINSTALLING"))
            /\ Goto(Worker, "download") \/ Goto(Worker, "extract") \/ Goto(Worker, "stopRead")
         \/ Return(Worker) /\ UNCHANGED row)
    BY <1>5 DEF Flip
  <2>2. \A b \in Apps : row'[b] = "absent" => row[b] = "absent"
    BY <1>2, <2>1, StatusLeaves
  <2>3. QED BY <1>1, <1>3, <2>1, <2>2, WorkerLeaves, WorkerLeft DEF PC
<1>6. CASE Download(Worker) \/ Extract(Worker) \/ Render(Worker) \/ Create(Worker)
  <2>1. /\ co[Worker].pc \notin EarlyPC /\ row' = row
        /\ \E pc \in {"extract", "render", "create", "route", "error"} : Goto(Worker, pc)
        /\ files' = files \/ \E F : files' = [files EXCEPT ![a] = F]
    BY <1>6 DEF Download, Extract, Render, Create, At, EarlyPC
  <2>2. row[a] # "absent"
    BY <1>3, <2>1 DEF LeftInv, WorksOnRow
  <2>3. \A b \in Apps : row[b] = "absent" => files'[b] = files[b]
    BY <2>1, <2>2 DEF IInv, TypeOK
  <2>4. QED BY <1>1, <1>3, <2>1, <2>3, WorkerLeaves DEF PC
<1>7. CASE FinishInstall(Worker) \/ InstallError(Worker)
  <2>1. files' = files /\ Return(Worker) /\ (SetStatus(a, "STOPPED") \/ SetStatus(a, "ERROR"))
    BY <1>7 DEF FinishInstall, InstallError
  <2>2. QED BY <1>1, <1>2, <1>3, <2>1, StatusLeaves, WorkerLeft
<1>8. QED BY <1>4, <1>5, <1>6, <1>7

(* The steps of an uninstall.                                              *)
LEMMA TeardownLeaves ==
    ASSUME IInv, LeftInv,
           \/ TeardownLock(Worker) \/ TeardownRead(Worker) \/ ThawRead(Worker) \/ ThawCmd(Worker)
           \/ ThawMark(Worker) \/ TeardownFlip(Worker) \/ RemoveFiles(Worker)
    PROVE  LeftInv'
<1> DEFINE a == co[Worker].app
<1>1. /\ co[Worker].pc \in (UninstallOnlyPC \ {"remove"}) \cup {"rmtree"}
      /\ UNCHANGED <<routes, phase>>
  BY DEF TeardownLock, TeardownRead, ThawRead, ThawCmd, ThawMark, TeardownFlip, RemoveFiles,
     At, UninstallOnlyPC
<1>2. a \in Apps /\ co[Worker].pc \notin EarlyPC \cup {"route", "idle"}
  BY <1>1, Whereabouts DEF UninstallOnlyPC, EarlyPC, Actors
<1>3. CASE TeardownLock(Worker) \/ TeardownRead(Worker) \/ ThawRead(Worker) \/ ThawCmd(Worker)
  <2>1. /\ UNCHANGED <<row, files>>
        /\ \/ Return(Worker)
           \/ \E pc \in {"teardownRead", "stopRead", "thawRead", "thawCmd", "thawMark",
                         "teardownFlip"} : Goto(Worker, pc)
    BY <1>3 DEF TeardownLock, TeardownRead, ThawRead, ThawCmd, ReleaseAndReturn
  <2>2. QED BY <1>1, <1>2, <2>1, WorkerLeaves, WorkerLeft DEF PC
<1>4. CASE ThawMark(Worker) \/ TeardownFlip(Worker)
  <2>1. /\ files' = files /\ (SetStatus(a, "RUNNING") \/ SetStatus(a, "UNINSTALLING"))
        /\ Goto(Worker, "teardownFlip") \/ Goto(Worker, "stopRead")
    BY <1>4 DEF ThawMark, TeardownFlip
  <2>2. \A b \in Apps : row'[b] = "absent" => row[b] = "absent"
    BY <1>2, <2>1, StatusLeaves
  <2>3. QED BY <1>1, <1>2, <2>1, <2>2, WorkerLeaves DEF PC
<1>5. CASE RemoveFiles(Worker)
  <2>1. /\ row' = row /\ files' = [files EXCEPT ![a] = {}]
        /\ Goto(Worker, "remove") \/ Goto(Worker, "download")
    BY <1>5 DEF RemoveFiles
  <2>2. files'[a] = {} /\ \A b \in Apps : files'[b] \subseteq files[b]
    BY <1>2, <2>1 DEF IInv, TypeOK
  <2>3. QED BY <1>1, <1>2, <2>1, <2>2, WorkerLeaves DEF PC
<1>6. QED BY <1>3, <1>4, <1>5

(* The DELETE: the files are gone, and the route goes next.                *)
LEMMA RemoveLeaves ==
    ASSUME IInv, LeftInv, RemoveRow(Worker)
    PROVE  LeftInv'
<1> DEFINE a == co[Worker].app
<1>1. /\ At(Worker, "remove") /\ row' = [row EXCEPT ![a] = "absent"] /\ Goto(Worker, "route")
      /\ UNCHANGED <<files, routes, phase>>
  BY DEF RemoveRow
<1>2. a \in Apps /\ co[Worker].op = "uninstall"
  BY <1>1, Whereabouts DEF At, UninstallOnlyPC, Actors
<1>3. co'[Worker].pc = "route" /\ co'[Worker].op = "uninstall" /\ co'[Worker].app = a
  BY <1>1, <1>2, GotoType DEF IInv, TypeOK, Actors, PC
<1>4. row'[a] = "absent" /\ \A b \in Apps \ {a} : row'[b] = row[b]
  BY <1>1, <1>2 DEF IInv, TypeOK
<1>5. RemovedMeansGone'
  BY <1>1, <1>4 DEF LeftInv, RemovedMeansGone, RemovesLast
<1>6. NoDanglingRoute'
  <2>1. SUFFICES ASSUME phase = "up", NEW b \in routes, row'[b] = "absent"
                 PROVE  b = a
    BY <1>1, <1>3 DEF NoDanglingRoute, TearingDown, At
  <2>2. b \in Apps
    BY DEF IInv, TypeOK
  <2>3. QED BY <1>1, <1>4, <2>1, <2>2 DEF LeftInv, NoDanglingRoute, At
<1>7. RemovesLast' /\ WorksOnRow'
  BY <1>3 DEF RemovesLast, WorksOnRow, At
<1>8. QED BY <1>5, <1>6, <1>7 DEF LeftInv

(* The rewrite of the configuration routes to rows only.                   *)
LEMMA RouteLeaves ==
    ASSUME IInv, LeftInv, WriteRoutes(Worker)
    PROVE  LeftInv'
<1>1. /\ co[Worker].pc = "route" /\ routes' = Routable /\ UNCHANGED <<row, files, phase>>
      /\ IF co[Worker].op = "uninstall" THEN Return(Worker) ELSE Goto(Worker, "finish")
  BY DEF WriteRoutes, At, ReleaseAndReturn
<1>2. RemovedMeansGone' /\ NoDanglingRoute'
  BY <1>1 DEF LeftInv, RemovedMeansGone, NoDanglingRoute, Routable
<1>3. CASE Return(Worker)
  <2>1. co'[Worker].pc = "idle"
    BY <1>3, ReturnType DEF IInv, TypeOK, Actors, Idle, Coro
  <2>2. QED BY <1>2, <2>1 DEF LeftInv, RemovesLast, WorksOnRow, At
<1>4. CASE Goto(Worker, "finish") /\ co[Worker].op # "uninstall"
  <2>1. co'[Worker].pc = "finish" /\ co'[Worker].app = co[Worker].app
    BY <1>4, GotoType DEF IInv, TypeOK, Actors, PC
  <2>2. RemovesLast' /\ WorksOnRow'
    BY <1>1, <1>4, <2>1 DEF LeftInv, RemovesLast, WorksOnRow, At, EarlyPC
  <2>3. QED BY <1>2, <2>2 DEF LeftInv
<1>5. QED BY <1>1, <1>3, <1>4

(* The start of a request, wake or tick, and of a task of the worker.      *)
LEMMA SpawnLeaves ==
    ASSUME IInv, LeftInv,
           \/ Dequeue
           \/ \E t \in Tasks, a \in Apps :
                 \/ \E type \in InstallTypes : RequestInstall(t, a, type)
                 \/ \E type \in {"uninstall", "reinstall"} : RequestChange(t, a, type)
                 \/ Wake(t, a)
                 \/ \E op \in {"revive", "pause", "stop"} : Control(t, a, op)
    PROVE  LeftInv'
<1>1. CASE Dequeue
  <2>1. UNCHANGED <<row, files, routes, phase>> /\ co[Worker] = Idle
    BY <1>1 DEF Dequeue
  <2>2. co'[Worker].pc \in {"teardownLock", "check"}
        /\ (co'[Worker].pc = "teardownLock" => co'[Worker].op = "uninstall")
    BY <1>1 DEF Dequeue, Coro, IInv, TypeOK, Actors
  <2>3. RemovesLast' /\ WorksOnRow'
    BY <2>2 DEF RemovesLast, WorksOnRow, At, EarlyPC
  <2>4. QED BY <2>1, <2>3, Leaves DEF IInv, TypeOK, Idle, Coro
<1>2. ASSUME NEW t \in Tasks, NEW a \in Apps,
             \/ \E type \in InstallTypes : RequestInstall(t, a, type)
             \/ \E type \in {"uninstall", "reinstall"} : RequestChange(t, a, type)
             \/ Wake(t, a)
             \/ \E op \in {"revive", "pause", "stop"} : Control(t, a, op)
      PROVE  LeftInv'
  <2>1. Good(t) /\ t # Worker
    BY <1>2, SpawnGood, ActorsAssumption
  <2>2. co'[Worker] = co[Worker] /\ \A b \in Apps : row'[b] = "absent" => row[b] = "absent"
    BY <2>1 DEF Good, Moves, RowCase, Actors
  <2>3. UNCHANGED <<files, routes, phase>>
    BY <1>2 DEF RequestInstall, RequestChange, Wake, Control
  <2>4. QED BY <2>2, <2>3, OthersLeave
<1>3. QED BY <1>1, <1>2

(* The process stops, anywhere in a teardown: what the rows and the disk   *)
(* say stays true.  Its start writes the routes anew.                      *)
LEMMA ProcessLeaves ==
    ASSUME IInv, LeftInv, Shutdown \/ ShutdownComplete \/ Crash \/ Startup
    PROVE  LeftInv'
<1>1. CASE Shutdown \/ ShutdownComplete \/ Crash
  <2>1. UNCHANGED <<row, files>> /\ phase' # "up" /\ co'[Worker] = Idle
    <3>1. CASE Shutdown
      BY <3>1, ShutdownEnds DEF Shutdown
    <3>2. CASE Exit
      BY <3>2 DEF Exit, Actors
    <3>3. QED BY <1>1, <3>1, <3>2 DEF ShutdownComplete, Crash
  <2>2. QED BY <2>1 DEF LeftInv, RemovedMeansGone, NoDanglingRoute, RemovesLast, WorksOnRow, At,
         Idle, Coro
<1>2. CASE Startup
  <2>1. /\ UNCHANGED <<row, co>> /\ routes' = Routable
        /\ files' = [a \in Apps |-> IF row[a] # "absent" /\ "meta" \in files[a]
                                    THEN files[a] \cup {"compose"} ELSE files[a]]
    BY <1>2 DEF Startup
  <2>2. RemovedMeansGone' /\ NoDanglingRoute'
    BY <2>1 DEF LeftInv, RemovedMeansGone, NoDanglingRoute, Routable
  <2>3. At(Worker, "remove") => co[Worker].app \in Apps
    BY Whereabouts DEF At, Actors
  <2>4. RemovesLast' /\ WorksOnRow'
    BY <2>1, <2>3 DEF LeftInv, RemovesLast, WorksOnRow, At
  <2>5. QED BY <2>2, <2>4 DEF LeftInv
<1>3. QED BY <1>1, <1>2

(* Every step keeps the invariant.                                         *)
LEMMA StepLeaves ==
    ASSUME IInv, LeftInv, [Next]_vars
    PROVE  LeftInv'
<1>1. ASSUME NEW t \in Tasks, TaskStep(t) \/ StartLock(t)
      PROVE  LeftInv'
  BY <1>1, CoroutineLeaves, ActorsAssumption DEF TaskStep, Actors
<1>2. CASE TeardownOrInstall \/ TeardownLock(Worker)
  BY <1>2, WorkerStopLeaves, InstallLeaves, TeardownLeaves, RemoveLeaves, RouteLeaves
     DEF TeardownOrInstall, WorkerStep
<1>3. ASSUME NEW a \in Apps, DownStep(a)
      PROVE  LeftInv'
  BY <1>3, CoroutineLeaves, ActorsAssumption DEF Actors
<1>4. CASE (\E a \in Apps : ContainerExit(a)) \/ UNCHANGED vars
  <2>1. UNCHANGED <<row, files, routes, co, phase>>
    BY <1>4 DEF ContainerExit, vars
  <2>2. QED BY <2>1, OthersLeave
<1>5. QED BY <1>1, <1>2, <1>3, <1>4, SpawnLeaves, ProcessLeaves DEF Next

(* NothingLeftBehind of every behaviour: whatever fails in an uninstall,   *)
(* whoever else works on the app and wherever the process ends, an app     *)
(* without a row has no metadata, no compose file and, in a running        *)
(* process, no route once the uninstall is done.                           *)
THEOREM NothingStays == Spec => []NothingLeftBehind
<1>1. Init => LeftInv
  BY DEF Init, LeftInv, RemovedMeansGone, NoDanglingRoute, RemovesLast, WorksOnRow, At, Idle, Coro,
     Actors
<1>2. IInv /\ LeftInv /\ [Next]_vars => LeftInv'
  BY StepLeaves
<1>3. LeftInv => NothingLeftBehind
  BY DEF LeftInv, NothingLeftBehind
<1>4. QED BY <1>1, <1>2, <1>3, Invariance, PTL DEF Spec
=============================================================================
