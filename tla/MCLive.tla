------------------------------- MODULE MCLive -------------------------------
(***************************************************************************)
(* What must happen in the end: to apps, to messages for web clients, to   *)
(* the start of a new shard and to a backup.  Each behaviour is one of the *)
(* part that is chosen at its beginning; the other parts stay as they are, *)
(* and owe nothing.                                                        *)
(***************************************************************************)
EXTENDS AppLifecycle, FirstStart

CONSTANTS
    Sockets,
    i1, i2, other,                \* of FirstStart: two initial apps and another one
    Jobs, Nobody, Missing         \* of Recovery

VARIABLES
    part,
    sock, active, outgoing, enqueued, sender, heartbeat, received,
    table, writer, last, newest, silent, lost,   \* of Push
    start, db, seq, snapshot, tinydb, remote, busy, job, minted, crashes,   \* of Recovery
    changes, committed, chosen

pushVars == <<sock, active, outgoing, enqueued, sender, heartbeat, received,
              table, writer, last, newest, silent, lost>>
backupVars == <<start, db, seq, snapshot, tinydb, remote, busy, job, minted, crashes,
                changes, committed, chosen>>

P == INSTANCE Push
     WITH Writers <- {}, MaxMessages <- 2, MaxTableChanges <- 0, queue <- outgoing, worker <- sender

R == INSTANCE Recovery WITH MaxChanges <- 0, MaxReports <- 2, MaxCrashes <- 1, phase <- start

TwoStores == {{i1, i2, other}, {i1, other}}

LiveInit ==
    /\ part \in {"apps", "push", "start", "backup"}
    /\ Init /\ P!PushInit
    /\ FirstInit /\ (part # "start" => store = {i1, other})
    /\ R!Init /\ (part # "backup" => ~tinydb /\ remote.snapshot = Missing /\ ~remote.tinydb)

LiveNext ==
    /\ UNCHANGED part
    /\ \/ part = "apps" /\ Next /\ UNCHANGED <<pushVars, startVars, backupVars>>
       \/ part = "push" /\ P!PushNext /\ UNCHANGED <<vars, startVars, backupVars>>
       \/ part = "start" /\ FirstNext /\ UNCHANGED <<vars, pushVars, backupVars>>
       \/ part = "backup" /\ R!Next /\ UNCHANGED <<vars, pushVars, startVars>>

(* Fairness and P!Fairness ask for nothing in the initial states of their  *)
(* parts.                                                                  *)
LiveFairness ==
    /\ Fairness
    /\ P!Fairness
    /\ WF_startVars(part = "start" /\ LifespanStep)
    /\ WF_startVars(part = "start" /\ \E outcome \in {"STOPPED", "ERROR"} : WorkerEnds(outcome))
    /\ WF_backupVars(part = "backup" /\ R!StartupStep)
    /\ \A b \in Jobs : WF_backupVars(part = "backup" /\ R!BackupStep(b))

LiveSpec ==
    LiveInit /\ [][LiveNext]_<<part, vars, pushVars, startVars, backupVars>> /\ LiveFairness

-----------------------------------------------------------------------------
(* Every message reaches every client that stays connected.                *)
EveryClientServed == P!EveryClientServed

(* The in-progress lock of a backup is given back whatever fails.          *)
BackupEnds == R!BackupEnds
=============================================================================
