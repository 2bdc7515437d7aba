-------------------------------- MODULE Push --------------------------------
(***************************************************************************)
(* service/websocket.py: messages to the web clients over websockets, and  *)
(* the handlers of on_terminals_update that read the table and enqueue it. *)
(*                                                                         *)
(* Messages are numbered in the order they are enqueued, the content of    *)
(* the table of terminals is the number of changes that were committed.    *)
(* send_text writes to the socket at once and then waits until the client  *)
(* has taken enough of it; gather waits for all of them or for the first   *)
(* exception.                                                              *)
(***************************************************************************)
EXTENDS Naturals, Sequences, FiniteSets

CONSTANTS
    Sockets,      \* connections of clients
    Writers,      \* requests that change terminals
    MaxMessages,  \* bound: messages that are enqueued
    MaxTableChanges    \* bound: changes of the table

ASSUME PushBounds == MaxMessages \in Nat /\ MaxTableChanges \in Nat

VARIABLES
    sock,      \* new, open, closed by the client, gone, or crashed
    active,    \* active_sockets
    queue,     \* outgoing_messages
    enqueued,  \* number of messages so far
    worker,    \* _send_messages: the sends it waits for, and whether one failed
    heartbeat, \* _send_heartbeats
    received,  \* what was written to each socket
    table,     \* terminals: changes committed
    writer,    \* the requests that change terminals
    last,      \* the content of the last terminals_update
    newest,    \* history: the newest content that was ever announced
    silent,    \* history: the newest change that was announced before its commit
    lost       \* history: the newest change whose request failed before the signal

sockVars == <<sock, active>>
workVars == <<worker, received>>
tableVars == <<table, writer, last, newest, silent, lost>>

pushVars == <<sockVars, queue, enqueued, workVars, heartbeat, tableVars>>

-----------------------------------------------------------------------------
Waiting(pc) == [pc |-> pc, sends |-> {}, failed |-> FALSE]

(* change is the number of the change the request has committed.           *)
NoWriter == [pc |-> "idle", edit |-> FALSE, change |-> 0, seen |-> 0]

PushInit ==
    /\ sock = [s \in Sockets |-> "new"] /\ active = {}
    /\ queue = <<>> /\ enqueued = 0
    /\ worker = Waiting("get")
    /\ heartbeat = "running"
    /\ received = [s \in Sockets |-> <<>>]
    /\ table = 0 /\ last = 0 /\ newest = 0 /\ silent = 0 /\ lost = 0
    /\ writer = [w \in Writers |-> NoWriter]

(* broadcast_message: the queue has no bound, put_nowait never fails.      *)
Broadcast ==
    /\ enqueued < MaxMessages
    /\ enqueued' = enqueued + 1
    /\ queue' = Append(queue, enqueued + 1)

-----------------------------------------------------------------------------
(* Sockets *)

Connect(s) ==
    /\ sock[s] = "new"
    /\ sock' = [sock EXCEPT ![s] = "open"]
    /\ active' = active \cup {s}
    /\ UNCHANGED <<queue, enqueued, workVars, heartbeat, tableVars>>

(* The client goes away; the handler will see it later.                    *)
Leave(s) ==
    /\ sock[s] = "open"
    /\ sock' = [sock EXCEPT ![s] = "closed"]
    /\ UNCHANGED <<active, queue, enqueued, workVars, heartbeat, tableVars>>

(* WebSocketDisconnect: disconnect.                                        *)
Disconnect(s) ==
    /\ sock[s] = "closed"
    /\ sock' = [sock EXCEPT ![s] = "gone"]
    /\ active' = active \ {s}
    /\ UNCHANGED <<queue, enqueued, workVars, heartbeat, tableVars>>

(* The client sends something that is no JSON: receive_json raises another *)
(* exception, which ends the handler and the connection.                   *)
ReceiveText(s) ==
    /\ sock[s] = "open"
    /\ sock' = [sock EXCEPT ![s] = "crashed"]
    /\ UNCHANGED <<active, queue, enqueued, workVars, heartbeat, tableVars>>

-----------------------------------------------------------------------------
(* _send_messages *)

(* gather starts every send; a closed socket raises.                       *)
Reached == {s \in active : sock[s] = "open"}

(* Fault: a message that some client cannot take stays in the queue.       *)
GetMessageAgain ==
    /\ worker.pc = "get"
    /\ queue # <<>>
    /\ queue' = IF Reached = active THEN Tail(queue) ELSE queue
    /\ worker' = [pc |-> "sending", sends |-> active, failed |-> FALSE]
    /\ received' = [s \in Sockets |->
                       IF s \in Reached THEN Append(received[s], Head(queue)) ELSE received[s]]
    /\ UNCHANGED <<sockVars, enqueued, heartbeat, tableVars>>

GetMessage ==
    /\ worker.pc = "get"
    /\ queue # <<>>
    /\ queue' = Tail(queue)
    /\ worker' = [pc |-> "sending", sends |-> active, failed |-> FALSE]
    /\ received' = [s \in Sockets |->
                       IF s \in Reached THEN Append(received[s], Head(queue)) ELSE received[s]]
    /\ UNCHANGED <<sockVars, enqueued, heartbeat, tableVars>>

SendEnds(s) ==
    /\ s \in worker.sends
    /\ worker' = [worker EXCEPT !.sends = @ \ {s}, !.failed = @ \/ sock[s] # "open"]
    /\ UNCHANGED <<sockVars, queue, enqueued, received, heartbeat, tableVars>>

(* Fault: the exception ends the task.                                     *)
GatherRaises ==
    /\ worker.pc = "sending"
    /\ worker.sends = {} \/ worker.failed
    /\ worker' = Waiting(IF worker.failed THEN "dead" ELSE "get")
    /\ UNCHANGED <<sockVars, queue, enqueued, received, heartbeat, tableVars>>

(* All sends have ended, or one has raised and the others are left to      *)
(* themselves; the exception is logged.                                    *)
GatherEnds ==
    /\ worker.pc = "sending"
    /\ worker.sends = {} \/ worker.failed
    /\ worker' = Waiting("get")
    /\ UNCHANGED <<sockVars, queue, enqueued, received, heartbeat, tableVars>>

(* stop: both tasks are cancelled.                                         *)
StopPush ==
    /\ worker.pc # "stopped"
    /\ worker' = Waiting("stopped")
    /\ heartbeat' = "stopped"
    /\ UNCHANGED <<sockVars, queue, enqueued, received, tableVars>>

(* _send_heartbeats: broadcast_message returns None, and awaiting that     *)
(* raises a TypeError.                                                     *)
Heartbeat ==
    /\ heartbeat = "running"
    /\ Broadcast
    /\ heartbeat' = "raised"
    /\ UNCHANGED <<sockVars, workVars, tableVars>>

(* A backup, disk usage, apps or install error message, or one of the      *)
(* management's notifications.                                             *)
Notify ==
    /\ Broadcast
    /\ UNCHANGED <<sockVars, workVars, heartbeat, tableVars>>

-----------------------------------------------------------------------------
(* Requests that change terminals, and send_terminals_update *)

WriterGoto(w, pc) == writer' = [writer EXCEPT ![w].pc = pc]

(* Fault: no signal.                                                       *)
ChangeSilently(w) ==
    /\ writer[w].pc = "idle" /\ table < MaxTableChanges
    /\ table' = table + 1
    /\ UNCHANGED <<sockVars, queue, enqueued, workVars, heartbeat, writer, last, newest, silent, lost>>

(* add_terminal and delete_terminal_by_id: commit, then the signal.        *)
ChangeTerminals(w) ==
    /\ writer[w].pc = "idle" /\ table < MaxTableChanges
    /\ table' = table + 1
    /\ writer' = [writer EXCEPT ![w] = [pc |-> "read", edit |-> FALSE, change |-> table', seen |-> 0]]
    /\ UNCHANGED <<sockVars, queue, enqueued, workVars, heartbeat, last, newest, silent, lost>>

(* edit_terminal: UPDATE, and the signal inside the transaction.           *)
Edit(w) ==
    /\ writer[w].pc = "idle" /\ table < MaxTableChanges
    /\ writer' = [writer EXCEPT ![w] = [pc |-> "read", edit |-> TRUE, change |-> 0, seen |-> 0]]
    /\ UNCHANGED <<sockVars, queue, enqueued, workVars, heartbeat, table, last, newest, silent,
                   lost>>

(* The handler reads through a connection of its own.                      *)
ReadTerminals(w) ==
    /\ writer[w].pc = "read"
    /\ writer' = [writer EXCEPT ![w].pc = "send", ![w].seen = table]
    /\ UNCHANGED <<sockVars, queue, enqueued, workVars, heartbeat, table, last, newest, silent,
                   lost>>

SendTerminalsUpdate(w) ==
    /\ writer[w].pc = "send"
    /\ Broadcast
    /\ last' = writer[w].seen
    /\ newest' = IF writer[w].seen > newest THEN writer[w].seen ELSE newest
    /\ WriterGoto(w, IF writer[w].edit THEN "commit" ELSE "idle")
    /\ UNCHANGED <<sockVars, workVars, heartbeat, table, silent, lost>>

CommitEdit(w) ==
    /\ writer[w].pc = "commit"
    /\ table' = table + 1 /\ silent' = table + 1
    /\ WriterGoto(w, "idle")
    /\ UNCHANGED <<sockVars, queue, enqueued, workVars, heartbeat, last, newest, lost>>

(* The request ends by an exception: a pairing between its commit and its  *)
(* signal, or the handler's SELECT, or the commit of an edit, which is     *)
(* rolled back.                                                            *)
WriterFails(w) ==
    /\ writer[w].pc \in {"read", "commit"}
    /\ lost' = IF writer[w].change > lost THEN writer[w].change ELSE lost
    /\ WriterGoto(w, "idle")
    /\ UNCHANGED <<sockVars, queue, enqueued, workVars, heartbeat, table, last, newest, silent>>

-----------------------------------------------------------------------------
SocketStep(s) ==
    Connect(s) \/ Leave(s) \/ Disconnect(s) \/ ReceiveText(s) \/ SendEnds(s)

WriterStep(w) ==
    \/ ChangeTerminals(w) \/ Edit(w) \/ ReadTerminals(w) \/ SendTerminalsUpdate(w)
    \/ CommitEdit(w) \/ WriterFails(w)

PushNext ==
    \/ \E s \in Sockets : SocketStep(s)
    \/ GetMessage \/ GatherEnds \/ StopPush \/ Heartbeat \/ Notify
    \/ \E w \in Writers : WriterStep(w)

PushSpec == PushInit /\ [][PushNext]_pushVars

(* The worker runs, and a send to a client that takes nothing ends at the  *)
(* latest when the server's ping finds it dead.                            *)
Fairness ==
    /\ WF_pushVars(GetMessage) /\ WF_pushVars(GatherEnds)
    /\ \A s \in Sockets : WF_pushVars(SendEnds(s))

PushFairSpec == PushSpec /\ Fairness

-----------------------------------------------------------------------------
(* Types of the variables.                                                 *)
PushTypeOK ==
    /\ sock \in [Sockets -> {"new", "open", "closed", "gone", "crashed"}]
    /\ active \in SUBSET Sockets
    /\ enqueued \in 0..MaxMessages
    /\ queue \in Seq(1..enqueued)
    /\ worker \in [pc : {"get", "sending", "stopped"}, sends : SUBSET Sockets, failed : BOOLEAN]
    /\ heartbeat \in {"running", "raised", "stopped"}
    /\ received \in [Sockets -> Seq(1..enqueued)]
    /\ {table, last, newest, silent, lost} \subseteq Nat
    /\ writer \in [Writers -> [pc : {"idle", "read", "send", "commit"}, edit : BOOLEAN,
                               change : Nat, seen : Nat]]

(* A client that is connected misses no message, gets none twice and none  *)
(* out of order, although other clients are broken (_send_messages).       *)
NoGaps ==
    \A s \in Sockets : \A n \in 1..(Len(received[s]) - 1) :
        received[s][n + 1] = received[s][n] + 1

(* A client is told of the latest change of the terminals, unless the      *)
(* handlers of two changes overtook each other between read and enqueue,   *)
(* the change was made by edit_terminal, or its request failed after the   *)
(* commit (add_terminal before its signal, send_terminals_update).         *)
LastUpdateCurrent ==
    (\A w \in Writers : writer[w].pc = "idle") =>
        last = table \/ last < newest \/ table \in {silent, lost}

(* Every message reaches every client that was connected when it was sent, *)
(* whatever the other clients do, until the process stops.                 *)
EveryClientServed ==
    \A s \in Sockets, n \in 1..MaxMessages :
        (enqueued >= n /\ s \in active /\ sock[s] = "open" /\ \E i \in DOMAIN queue : queue[i] = n)
            ~> (\/ \E i \in DOMAIN received[s] : received[s][i] = n
                \/ sock[s] # "open" \/ worker.pc = "stopped")
=============================================================================
