----------------------------- MODULE JobsProofs -----------------------------
(***************************************************************************)
(* Safety of the background jobs for any bounds: what telemetry reports,   *)
(* what the usage reports count and what web clients are sent.             *)
(***************************************************************************)
EXTENDS Telemetry, UsageReporting, Push, FiniteSetTheorems, WellFoundedInduction, TLAPS

-----------------------------------------------------------------------------
(* Telemetry *)

(* Reports that were answered are over when the next interval and the next *)
(* count begin; while the reset is still to come, the report being sent    *)
(* is the last of them.  What is being posted began where the counter did. *)
AnsweredOver ==
    \A i \in DOMAIN stored : stored[i].known =>
        IF send.pc = "posted" THEN stored[i].end <= send.end
        ELSE stored[i].end <= lastSend /\ stored[i].upto <= recorded - requests

SendCurrent ==
    /\ send.pc # "idle" => send.start = lastSend /\ lastSend <= send.end
    /\ send.pc = "posting" => send.upto - send.requests = recorded - requests

TelemetryInv == TelemetryTypeOK /\ ReportedOnce /\ AnsweredOver /\ SendCurrent

LEMMA TelemetryStarts == TelemetryInit => TelemetryInv
BY TelemetryBounds
   DEF TelemetryInit, TelemetryInv, TelemetryTypeOK, ReportedOnce, NotReportedTwice, IntervalsInOrder,
       AnsweredOver, SendCurrent, NoSend, Sends

(* One more report: it begins where those that were answered end.          *)
LEMMA StoreKeeps ==
    ASSUME TelemetryInv, send.pc = "posting", NEW known \in BOOLEAN,
           stored' = Append(stored, Report(known)), UNCHANGED <<now, recorded>>
    PROVE  /\ ReportedOnce'
           /\ stored' \in Seq(Reports)
           /\ DOMAIN stored' = 1..(Len(stored) + 1) /\ Len(stored) \in Nat
           /\ \A i \in 1..Len(stored) : stored'[i] = stored[i]
           /\ stored'[Len(stored) + 1] = Report(known)
<1>1. /\ stored \in Seq(Reports) /\ Len(stored) \in Nat /\ DOMAIN stored = 1..Len(stored)
      /\ \A i \in 1..Len(stored) : stored[i] \in Reports
  BY DEF TelemetryInv, TelemetryTypeOK
<1>2. Report(known) \in Reports
  BY DEF TelemetryInv, TelemetryTypeOK, Sends, Reports, Report
<1>3. /\ stored' \in Seq(Reports)
      /\ DOMAIN stored' = 1..(Len(stored) + 1)
      /\ \A i \in 1..Len(stored) : stored'[i] = stored[i]
      /\ stored'[Len(stored) + 1] = Report(known)
  BY <1>1, <1>2
<1>4. /\ Report(known).start = lastSend
      /\ Report(known).upto - Report(known).requests = recorded - requests
  BY DEF Report, TelemetryInv, SendCurrent
<1>5. ASSUME NEW i \in DOMAIN stored', NEW j \in DOMAIN stored', i < j, stored'[i].known
      PROVE  /\ stored'[i].upto <= stored'[j].upto - stored'[j].requests
             /\ stored'[i].end <= stored'[j].start
  <2>1. i \in 1..Len(stored) /\ stored'[i] = stored[i] /\ stored[i].known
    BY <1>1, <1>3, <1>5
  <2>2. CASE j = Len(stored) + 1
    BY <1>1, <1>3, <1>4, <2>1, <2>2 DEF TelemetryInv, AnsweredOver
  <2>3. CASE j # Len(stored) + 1
    <3>1. j \in 1..Len(stored) /\ stored'[j] = stored[j]
      BY <1>1, <1>3, <2>3
    <3>2. QED BY <1>1, <1>5, <2>1, <3>1 DEF TelemetryInv, ReportedOnce, NotReportedTwice, IntervalsInOrder
  <2>4. QED BY <2>2, <2>3
<1>6. QED BY <1>1, <1>3, <1>5 DEF ReportedOnce, NotReportedTwice, IntervalsInOrder

LEMMA TelemetryStep ==
    ASSUME TelemetryInv, [TelemetryNext]_telemetryVars
    PROVE  TelemetryInv'
<1>0. /\ now \in Nat /\ lastSend \in Nat /\ lastSend <= now
      /\ recorded \in Nat /\ requests \in Nat /\ requests <= recorded
      /\ snapshots \in 0..MaxSnapshots /\ MaxSnapshots \in Nat
      /\ send \in Sends /\ send.end <= now /\ send.upto <= recorded
  BY TelemetryBounds DEF TelemetryInv, TelemetryTypeOK
<1>s. /\ stored \in Seq(Reports) /\ Len(stored) \in Nat /\ DOMAIN stored = 1..Len(stored)
      /\ \A i \in DOMAIN stored : /\ stored[i].end \in Nat /\ stored[i].upto \in Nat
                                  /\ stored[i].end <= now /\ stored[i].upto <= recorded
  <2>1. stored \in Seq(Reports) /\ \A i \in DOMAIN stored : stored[i].end <= now /\ stored[i].upto <= recorded
    BY DEF TelemetryInv, TelemetryTypeOK
  <2>2. \A i \in DOMAIN stored : stored[i] \in Reports
    BY <2>1
  <2>3. \A i \in DOMAIN stored : stored[i].end \in Nat /\ stored[i].upto \in Nat
    BY <2>2 DEF Reports
  <2>4. QED BY <2>1, <2>3
<1>f. send.start \in Nat /\ send.end \in Nat /\ send.upto \in Nat
  BY <1>0 DEF Sends
<1>n. NoSend \in Sends /\ NoSend.pc = "idle" /\ NoSend.end = 0 /\ NoSend.upto = 0
  BY <1>0 DEF NoSend, Sends
<1>p. \A pc \in {"posted", "refused"} :
        LET s == [send EXCEPT !.pc = pc]
        IN  /\ s \in Sends /\ s.pc = pc /\ s.start = send.start /\ s.end = send.end /\ s.upto = send.upto
  BY <1>0 DEF Sends
<1>1. CASE UNCHANGED telemetryVars
  BY <1>1 DEF telemetryVars, TelemetryInv, TelemetryTypeOK, ReportedOnce, NotReportedTwice,
     IntervalsInOrder, AnsweredOver, SendCurrent
<1>2. CASE Tick \/ RecordRequest
  <2>1. now' \in Nat /\ recorded' \in Nat /\ now <= now' /\ recorded <= recorded' /\ UNCHANGED <<send, stored, lastSend>>
    BY <1>0, <1>f, <1>2 DEF Tick, RecordRequest
  <2>2. \A i \in DOMAIN stored : stored[i].end <= now' /\ stored[i].upto <= recorded'
    BY <1>0, <1>f, <1>s, <2>1
  <2>3. requests' \in Nat /\ requests' <= recorded' /\ snapshots' = snapshots
    BY <1>0, <1>f, <1>2 DEF Tick, RecordRequest
  <2>4. TelemetryTypeOK'
    BY <1>0, <1>f, <1>s, <2>1, <2>2, <2>3 DEF TelemetryTypeOK
  <2>5. recorded' - requests' = recorded - requests
    BY <1>0, <1>f, <1>2 DEF Tick, RecordRequest
  <2>6. QED BY <1>2, <2>4, <2>5 DEF TelemetryInv, Tick, RecordRequest, ReportedOnce, NotReportedTwice,
         IntervalsInOrder, AnsweredOver, SendCurrent
<1>3. CASE RecordSnapshot
  BY <1>0, <1>f, <1>s, <1>3 DEF RecordSnapshot, TelemetryInv, TelemetryTypeOK, ReportedOnce, NotReportedTwice,
     IntervalsInOrder, AnsweredOver, SendCurrent
<1>4. CASE BuildReport
  <2>1. /\ send' \in Sends /\ send'.pc = "posting" /\ send'.start = lastSend /\ send'.end = now
        /\ send'.upto = recorded /\ send'.requests = requests
    BY <1>0, <1>f, <1>4 DEF BuildReport, Sends
  <2>2. QED BY <1>0, <1>f, <1>s, <1>4, <2>1
         DEF BuildReport, TelemetryInv, TelemetryTypeOK, ReportedOnce, NotReportedTwice,
             IntervalsInOrder, AnsweredOver, SendCurrent
<1>5. CASE PostRefused \/ PostFails
  <2>1. /\ send.pc = "posting" /\ send' \in Sends /\ send'.pc \in {"refused", "idle"}
        /\ send'.pc = "refused" => send'.start = send.start /\ send'.end = send.end
        /\ send'.end <= now /\ send'.upto <= recorded
    <3>1. CASE PostRefused
      <4>1. send' = [send EXCEPT !.pc = "refused"] /\ send.pc = "posting"
        BY <3>1 DEF PostRefused
      <4>2. QED BY <1>0, <4>1 DEF Sends
    <3>2. CASE PostFails
      <4>1. send' = NoSend /\ send.pc = "posting"
        BY <3>2 DEF PostFails
      <4>2. QED BY <1>0, <1>n, <4>1
    <3>3. QED BY <1>5, <3>1, <3>2
  <2>2. UNCHANGED <<now, requests, snapshots, lastSend, stored, recorded>>
    BY <1>5 DEF PostRefused, PostFails
  <2>3. TelemetryTypeOK'
    BY <2>1, <2>2 DEF TelemetryInv, TelemetryTypeOK
  <2>4. QED BY <2>1, <2>2, <2>3 DEF TelemetryInv, ReportedOnce, NotReportedTwice,
         IntervalsInOrder, AnsweredOver, SendCurrent
<1>6. CASE PostAccepted
  <2>1. /\ ReportedOnce' /\ stored' \in Seq(Reports)
        /\ DOMAIN stored' = 1..(Len(stored) + 1)
        /\ \A i \in 1..Len(stored) : stored'[i] = stored[i]
        /\ stored'[Len(stored) + 1] = Report(TRUE)
    BY <1>6, StoreKeeps DEF PostAccepted
  <2>2. TelemetryTypeOK'
    <3>1. \A i \in DOMAIN stored' : stored'[i].end <= now /\ stored'[i].upto <= recorded
      BY <1>0, <1>f, <1>s, <2>1 DEF Report
    <3>2. QED BY <1>0, <1>f, <1>p, <1>6, <2>1, <3>1 DEF PostAccepted, TelemetryTypeOK
  <2>3. /\ send'.pc = "posted" /\ send'.start = lastSend' /\ send'.end = send.end
        /\ lastSend' <= send.end /\ lastSend' = lastSend
    BY <1>p, <1>6 DEF PostAccepted, TelemetryInv, SendCurrent
  <2>4. AnsweredOver' /\ SendCurrent'
    <3>1. ASSUME NEW i \in DOMAIN stored', stored'[i].known PROVE stored'[i].end <= send'.end
      <4>1. CASE i = Len(stored) + 1
        BY <1>0, <1>f, <2>1, <2>3, <4>1 DEF Report
      <4>2. CASE i # Len(stored) + 1
        <5>1. i \in DOMAIN stored /\ stored'[i] = stored[i]
          BY <1>s, <2>1, <4>2
        <5>2. stored[i].end <= lastSend /\ stored[i].end \in Nat
          BY <1>s, <1>6, <3>1, <5>1 DEF PostAccepted, TelemetryInv, AnsweredOver
        <5>3. QED BY <1>0, <1>f, <2>3, <5>1, <5>2
      <4>3. QED BY <4>1, <4>2
    <3>2. QED BY <2>3, <3>1 DEF AnsweredOver, SendCurrent
  <2>5. QED BY <2>1, <2>2, <2>4 DEF TelemetryInv
<1>7. CASE AnswerLost
  <2>1. /\ ReportedOnce' /\ stored' \in Seq(Reports)
        /\ DOMAIN stored' = 1..(Len(stored) + 1)
        /\ \A i \in 1..Len(stored) : stored'[i] = stored[i]
        /\ stored'[Len(stored) + 1] = Report(FALSE)
    BY <1>7, StoreKeeps DEF AnswerLost
  <2>2. TelemetryTypeOK'
    <3>1. \A i \in DOMAIN stored' : stored'[i].end <= now /\ stored'[i].upto <= recorded
      BY <1>0, <1>f, <1>s, <2>1 DEF Report
    <3>2. /\ send' \in Sends /\ send'.end <= now /\ send'.upto <= recorded
          /\ UNCHANGED <<now, requests, snapshots, lastSend, recorded>>
      BY <1>0, <1>n, <1>7 DEF AnswerLost
    <3>3. QED BY <1>0, <2>1, <3>1, <3>2 DEF TelemetryTypeOK
  <2>3. ASSUME NEW i \in DOMAIN stored', stored'[i].known
        PROVE  stored'[i].end <= lastSend /\ stored'[i].upto <= recorded - requests
    <3>1. i # Len(stored) + 1
      BY <2>1, <2>3 DEF Report
    <3>2. i \in DOMAIN stored /\ stored'[i] = stored[i]
      BY <1>s, <2>1, <3>1
    <3>3. QED BY <1>7, <2>3, <3>2 DEF AnswerLost, TelemetryInv, AnsweredOver
  <2>4. QED BY <1>n, <1>7, <2>1, <2>2, <2>3 DEF AnswerLost, TelemetryInv, AnsweredOver, SendCurrent
<1>8. CASE Finish \/ Restart
  <2>1. TelemetryTypeOK'
    <3>1. /\ requests' = 0 /\ snapshots' = 0 /\ send' = NoSend
          /\ UNCHANGED <<now, stored, recorded>>
      BY <1>8 DEF Finish, Restart
    <3>2. lastSend' \in Nat /\ lastSend' <= now
      BY <1>0, <1>f, <1>8 DEF Finish, Restart
    <3>3. send' \in Sends /\ send'.end <= now /\ send'.upto <= recorded
      BY <1>0, <1>n, <3>1
    <3>4. QED BY <1>0, <1>s, <3>1, <3>2, <3>3 DEF TelemetryTypeOK
  <2>2. ASSUME NEW i \in DOMAIN stored, stored[i].known
        PROVE  stored[i].end <= lastSend' /\ stored[i].upto <= recorded' - requests'
    <3>1. stored[i].upto <= recorded /\ stored[i].end <= now /\ stored[i].upto \in Nat /\ stored[i].end \in Nat
      BY <1>s
    <3>2. requests' = 0 /\ recorded' = recorded
      BY <1>8 DEF Finish, Restart
    <3>3. stored[i].end <= lastSend'
      <4>1. CASE Restart
        BY <3>1, <4>1 DEF Restart
      <4>2. CASE Finish
        BY <1>0, <1>f, <2>2, <3>1, <4>2 DEF Finish, TelemetryInv, AnsweredOver, SendCurrent
      <4>3. QED BY <1>8, <4>1, <4>2
    <3>4. QED BY <1>0, <1>f, <3>1, <3>2, <3>3
  <2>3. QED BY <1>n, <1>8, <2>1, <2>2 DEF Finish, Restart, TelemetryInv, ReportedOnce, NotReportedTwice,
         IntervalsInOrder, AnsweredOver, SendCurrent
<1>9. QED BY <1>1, <1>2, <1>3, <1>4, <1>5, <1>6, <1>7, <1>8 DEF TelemetryNext

(* Requests are reported once at most and in one interval, over sends that *)
(* fail or are refused, requests that come during a send and restarts,     *)
(* unless the answer to a report was lost: send_telemetry.                 *)
THEOREM RequestsReportedOnce == TelemetrySpec => []ReportedOnce
<1>1. TelemetryInv => ReportedOnce
  BY DEF TelemetryInv
<1>2. QED BY TelemetryStarts, TelemetryStep, <1>1, PTL DEF TelemetrySpec

-----------------------------------------------------------------------------
(* Push *)

(* The queue holds the last messages in their order: what was taken from   *)
(* it is the rest.                                                         *)
Taken == enqueued - Len(queue)

QueueInOrder ==
    /\ enqueued \in Nat /\ queue \in Seq(Nat) /\ Len(queue) <= enqueued
    /\ \A i \in 1..Len(queue) : queue[i] = Taken + i

(* A connected client that was sent anything was sent the last message     *)
(* that was taken.                                                         *)
ClientUpToDate(s) ==
    /\ received[s] \in Seq(Nat)
    /\ sock[s] = "new" => received[s] = <<>>
    /\ \A n \in 1..(Len(received[s]) - 1) : received[s][n + 1] = received[s][n] + 1
    /\ s \in active /\ sock[s] = "open" /\ received[s] # <<>> =>
          received[s][Len(received[s])] = Taken

SocketsTyped ==
    /\ sock \in [Sockets -> {"new", "open", "closed", "gone", "crashed"}]
    /\ DOMAIN received = Sockets

PushInv == QueueInOrder /\ SocketsTyped /\ \A s \in Sockets : ClientUpToDate(s)

LEMMA PushStarts == PushInit => PushInv
<1>1. <<>> \in Seq(Nat) /\ Len(<<>>) = 0
  OBVIOUS
<1>2. PushInit => QueueInOrder /\ SocketsTyped
  BY <1>1 DEF PushInit, QueueInOrder, SocketsTyped
<1>3. ASSUME PushInit, NEW s \in Sockets PROVE ClientUpToDate(s)
  <2>1. received[s] = <<>>
    BY <1>3 DEF PushInit
  <2>2. QED BY <1>1, <2>1 DEF ClientUpToDate
<1>4. QED BY <1>2, <1>3 DEF PushInv

LEMMA BroadcastKeeps ==
    ASSUME QueueInOrder, Broadcast
    PROVE  QueueInOrder' /\ Taken' = Taken
<1>1. /\ enqueued' = enqueued + 1 /\ queue' \in Seq(Nat) /\ Len(queue') = Len(queue) + 1
      /\ queue'[Len(queue) + 1] = enqueued + 1 /\ Len(queue) \in Nat
      /\ \A i \in 1..Len(queue) : queue'[i] = queue[i]
  BY DEF QueueInOrder, Broadcast
<1>2. Taken' = Taken
  BY <1>1 DEF Taken, QueueInOrder
<1>3. ASSUME NEW i \in 1..Len(queue') PROVE queue'[i] = Taken + i
  <2>1. CASE i = Len(queue) + 1
    BY <1>1, <2>1 DEF Taken, QueueInOrder
  <2>2. CASE i # Len(queue) + 1
    <3>1. i \in 1..Len(queue) /\ queue'[i] = queue[i]
      BY <1>1, <2>2
    <3>2. QED BY <3>1 DEF QueueInOrder
  <2>3. QED BY <2>1, <2>2
<1>4. QED BY <1>1, <1>2, <1>3 DEF QueueInOrder

LEMMA GetMessageKeeps ==
    ASSUME PushInv, GetMessage
    PROVE  PushInv'
<1>1. /\ queue # <<>> /\ queue \in Seq(Nat) /\ Len(queue) \in Nat \ {0} /\ enqueued \in Nat
      /\ Len(queue) <= enqueued
  BY DEF PushInv, QueueInOrder, GetMessage
<1>2. /\ queue' \in Seq(Nat) /\ Len(queue') = Len(queue) - 1 /\ enqueued' = enqueued
      /\ \A i \in 1..(Len(queue) - 1) : queue'[i] = queue[i + 1]
      /\ Head(queue) = queue[1]
  BY <1>1 DEF GetMessage
<1>3. Head(queue) = Taken + 1 /\ Taken' = Taken + 1 /\ Taken \in Nat
  BY <1>1, <1>2 DEF PushInv, QueueInOrder, Taken
<1>4. QueueInOrder'
  <2>1. \A i \in 1..Len(queue') : queue'[i] = Taken' + i
    BY <1>1, <1>2, <1>3 DEF PushInv, QueueInOrder
  <2>2. QED BY <1>1, <1>2, <2>1 DEF QueueInOrder
<1>5. SocketsTyped' /\ sock' = sock /\ active' = active
  BY DEF PushInv, SocketsTyped, GetMessage, sockVars
<1>6. ASSUME NEW s \in Sockets PROVE ClientUpToDate(s)'
  <2>1. ClientUpToDate(s) /\ received[s] \in Seq(Nat) /\ Len(received[s]) \in Nat
    BY DEF PushInv, ClientUpToDate
  <2>2. CASE s \in Reached
    <3>1. received'[s] = Append(received[s], Head(queue)) /\ sock[s] = "open" /\ s \in active
      BY <2>2 DEF GetMessage, Reached
    <3>2. /\ received'[s] \in Seq(Nat) /\ Len(received'[s]) = Len(received[s]) + 1
          /\ received'[s][Len(received[s]) + 1] = Taken + 1
          /\ \A n \in 1..Len(received[s]) : received'[s][n] = received[s][n]
      BY <1>3, <2>1, <3>1
    <3>3. ASSUME NEW n \in 1..(Len(received'[s]) - 1)
          PROVE  received'[s][n + 1] = received'[s][n] + 1
      <4>1. n \in 1..Len(received[s]) /\ n \in Nat
        BY <2>1, <3>2
      <4>2. CASE n = Len(received[s])
        <5>1. received[s] # <<>>
          BY <4>1
        <5>2. received[s][n] = Taken
          BY <2>1, <3>1, <4>2, <5>1 DEF ClientUpToDate
        <5>3. QED BY <3>2, <4>1, <4>2, <5>2
      <4>3. CASE n # Len(received[s])
        <5>1. n \in 1..(Len(received[s]) - 1) /\ n + 1 \in 1..Len(received[s])
          BY <2>1, <4>1, <4>3
        <5>2. received[s][n + 1] = received[s][n] + 1
          BY <2>1, <5>1 DEF ClientUpToDate
        <5>3. QED BY <3>2, <4>1, <5>1, <5>2
      <4>4. QED BY <4>2, <4>3
    <3>4. QED BY <1>3, <1>5, <3>1, <3>2, <3>3 DEF ClientUpToDate
  <2>3. CASE s \notin Reached
    <3>1. received'[s] = received[s] /\ ~(s \in active /\ sock[s] = "open")
      BY <2>3 DEF GetMessage, Reached
    <3>2. QED BY <1>5, <2>1, <3>1 DEF ClientUpToDate
  <2>4. QED BY <2>2, <2>3
<1>7. QED BY <1>4, <1>5, <1>6 DEF PushInv

LEMMA PushStep ==
    ASSUME PushInv, [PushNext]_pushVars
    PROVE  PushInv'
<1>1. CASE GetMessage
  BY <1>1, GetMessageKeeps
<1>2. CASE /\ QueueInOrder' /\ Taken' = Taken /\ received' = received /\ SocketsTyped'
           /\ \A s \in Sockets : \/ sock'[s] = sock[s] /\ (s \in active' => s \in active)
                                 \/ sock[s] = "new" /\ sock'[s] = "open"
                                 \/ sock'[s] \notin {"new", "open"}
  <2>1. ASSUME NEW s \in Sockets PROVE ClientUpToDate(s)'
    <3>1. ClientUpToDate(s) /\ received'[s] = received[s]
      BY <1>2 DEF PushInv
    <3>2. QED BY <1>2, <3>1 DEF ClientUpToDate
  <2>2. QED BY <1>2, <2>1 DEF PushInv
<1>3. CASE UNCHANGED <<queue, enqueued, received>> /\ \E s \in Sockets : Connect(s) \/ Leave(s) \/ Disconnect(s) \/ ReceiveText(s)
  <2>1. QueueInOrder' /\ Taken' = Taken
    BY <1>3 DEF PushInv, QueueInOrder, Taken
  <2>2. /\ SocketsTyped'
        /\ \A s \in Sockets : \/ sock'[s] = sock[s] /\ (s \in active' => s \in active)
                              \/ sock[s] = "new" /\ sock'[s] = "open"
                              \/ sock'[s] \notin {"new", "open"}
    BY <1>3 DEF PushInv, SocketsTyped, Connect, Leave, Disconnect, ReceiveText
  <2>3. QED BY <1>2, <1>3, <2>1, <2>2
<1>4. CASE UNCHANGED <<queue, enqueued, received, sock, active>>
  BY <1>2, <1>4 DEF PushInv, QueueInOrder, Taken, SocketsTyped
<1>5. CASE Broadcast /\ UNCHANGED <<received, sock, active>>
  BY <1>2, <1>5, BroadcastKeeps DEF PushInv, SocketsTyped
<1>6. QED
  BY <1>1, <1>3, <1>4, <1>5
     DEF PushNext, SocketStep, WriterStep, pushVars, sockVars, workVars, tableVars, Connect, Leave, Disconnect,
         ReceiveText, SendEnds, GatherEnds, StopPush, Heartbeat, Notify, ChangeTerminals, Edit, ReadTerminals,
         SendTerminalsUpdate, CommitEdit, WriterFails

(* However clients come, break and go, a connected one misses no message   *)
(* and gets none twice or out of order: _send_messages, for any number of  *)
(* clients and messages.                                                   *)
THEOREM ClientsMissNothing == PushSpec => []NoGaps
<1>1. PushInv => NoGaps
  BY DEF PushInv, ClientUpToDate, NoGaps
<1>2. QED BY PushStarts, PushStep, <1>1, PTL DEF PushSpec

(* The newest content that was announced is that of the table, unless the  *)
(* request of the last change is on its way to announce it or has failed,  *)
(* or the last change was made by edit_terminal.                           *)
Announces(w) ==
    /\ writer[w].change = table
    /\ writer[w].pc = "read" \/ (writer[w].pc = "send" /\ writer[w].seen = table)

UpdatesComing ==
    \/ newest = table \/ silent = table \/ lost = table
    \/ \E w \in Writers : Announces(w)

UpdatesInv ==
    /\ table \in Nat /\ last \in Nat /\ newest \in Nat /\ lost \in Nat
    /\ writer \in [Writers -> [pc : {"idle", "read", "send", "commit"}, edit : BOOLEAN,
                               change : Nat, seen : Nat]]
    /\ last <= newest /\ newest <= table /\ lost <= table
    /\ \A w \in Writers : writer[w].seen <= table /\ writer[w].change <= table
    /\ UpdatesComing

LEMMA UpdatesStart == PushInit => UpdatesInv
BY DEF PushInit, UpdatesInv, UpdatesComing, NoWriter

LEMMA UpdatesStep ==
    ASSUME UpdatesInv, [PushNext]_pushVars
    PROVE  UpdatesInv'
<1> DEFINE Writer == [pc : {"idle", "read", "send", "commit"}, edit : BOOLEAN, change : Nat,
                      seen : Nat]
<1> DEFINE Bounded(w) == writer[w].seen <= table /\ writer[w].change <= table
<1>0. /\ table \in Nat /\ last \in Nat /\ newest \in Nat /\ lost \in Nat
      /\ writer \in [Writers -> Writer]
      /\ last <= newest /\ newest <= table /\ lost <= table
      /\ \A v \in Writers : writer[v] \in Writer /\ Bounded(v)
                            /\ writer[v].seen \in Nat /\ writer[v].change \in Nat
  BY DEF UpdatesInv
<1>1. CASE UNCHANGED tableVars
  BY <1>1 DEF tableVars, UpdatesInv, UpdatesComing, Announces
<1>2. ASSUME NEW w \in Writers, ChangeTerminals(w) PROVE UpdatesInv'
  <2>1. table' = table + 1 /\ UNCHANGED <<last, newest, silent, lost>>
    BY <1>2 DEF ChangeTerminals
  <2>2. /\ writer' \in [Writers -> Writer]
        /\ writer'[w].pc = "read" /\ writer'[w].seen = 0 /\ writer'[w].change = table'
        /\ \A v \in Writers : v # w => writer'[v] = writer[v]
    BY <1>0, <1>2, <2>1 DEF ChangeTerminals
  <2>3. \A v \in Writers : Bounded(v)'
    BY <1>0, <2>1, <2>2
  <2>4. QED BY <1>0, <2>1, <2>2, <2>3 DEF UpdatesInv, UpdatesComing, Announces
<1>3. ASSUME NEW w \in Writers, Edit(w) PROVE UpdatesInv'
  <2>1. /\ writer' \in [Writers -> Writer] /\ writer[w].pc = "idle"
        /\ writer'[w].pc = "read" /\ writer'[w].seen = 0 /\ writer'[w].change = 0
        /\ \A v \in Writers : v # w => writer'[v] = writer[v]
    BY <1>0, <1>3 DEF Edit
  <2>2. UNCHANGED <<table, last, newest, silent, lost>>
    BY <1>3 DEF Edit
  <2>3. \A v \in Writers : Bounded(v)'
    BY <1>0, <2>1, <2>2
  <2>4. \A v \in Writers : Announces(v) => Announces(v)'
    BY <2>1, <2>2 DEF Announces
  <2>5. QED BY <1>0, <2>1, <2>2, <2>3, <2>4 DEF UpdatesInv, UpdatesComing
<1>4. ASSUME NEW w \in Writers, ReadTerminals(w) PROVE UpdatesInv'
  <2>1. writer' = [writer EXCEPT ![w] = [writer[w] EXCEPT !.pc = "send", !.seen = table]]
    BY <1>0, <1>4 DEF ReadTerminals
  <2>2. /\ writer' \in [Writers -> Writer] /\ writer'[w].pc = "send" /\ writer'[w].seen = table
        /\ writer'[w].change = writer[w].change
        /\ \A v \in Writers : v # w => writer'[v] = writer[v]
    BY <1>0, <2>1
  <2>3. UNCHANGED <<table, last, newest, silent, lost>>
    BY <1>4 DEF ReadTerminals
  <2>4. \A v \in Writers : Bounded(v)'
    BY <1>0, <2>2, <2>3
  <2>5. \A v \in Writers : Announces(v) => Announces(v)'
    BY <2>2, <2>3 DEF Announces
  <2>6. QED BY <1>0, <2>2, <2>3, <2>4, <2>5 DEF UpdatesInv, UpdatesComing
<1>5. ASSUME NEW w \in Writers, NEW pc \in {"commit", "idle"}, WriterGoto(w, pc)
      PROVE  /\ writer' \in [Writers -> Writer] /\ writer'[w].pc = pc
             /\ writer'[w].seen = writer[w].seen /\ writer'[w].change = writer[w].change
             /\ \A v \in Writers : v # w => writer'[v] = writer[v]
  <2>1. writer' = [writer EXCEPT ![w] = [writer[w] EXCEPT !.pc = pc]]
    BY <1>0, <1>5 DEF WriterGoto
  <2>2. QED BY <1>0, <2>1
<1>6. ASSUME NEW w \in Writers, SendTerminalsUpdate(w) PROVE UpdatesInv'
  <2>1. /\ writer' \in [Writers -> Writer]
        /\ writer'[w].seen = writer[w].seen /\ writer'[w].change = writer[w].change
        /\ \A v \in Writers : v # w => writer'[v] = writer[v]
    BY <1>5, <1>6 DEF SendTerminalsUpdate
  <2>2. /\ last' = writer[w].seen /\ UNCHANGED <<table, silent, lost>> /\ writer[w].pc = "send"
        /\ newest' = IF writer[w].seen > newest THEN writer[w].seen ELSE newest
    BY <1>6 DEF SendTerminalsUpdate
  <2>3. \A v \in Writers : Bounded(v)'
    BY <1>0, <2>1, <2>2
  <2>4. newest' \in Nat /\ last' <= newest' /\ newest' <= table' /\ newest <= newest'
    BY <1>0, <2>2
  <2>5. UpdatesComing'
    <3>1. CASE writer[w].seen = table \/ newest = table
      BY <1>0, <2>2, <2>4, <3>1 DEF UpdatesComing
    <3>2. CASE silent = table \/ lost = table
      BY <2>2, <3>2 DEF UpdatesComing
    <3>3. ASSUME NEW v \in Writers, Announces(v), writer[w].seen # table
          PROVE  Announces(v)'
      BY <2>1, <2>2, <3>3 DEF Announces
    <3>4. QED BY <3>1, <3>2, <3>3 DEF UpdatesInv, UpdatesComing
  <2>6. QED BY <1>0, <2>1, <2>2, <2>3, <2>4, <2>5 DEF UpdatesInv
<1>7. ASSUME NEW w \in Writers, CommitEdit(w) PROVE UpdatesInv'
  <2>1. /\ writer' \in [Writers -> Writer]
        /\ writer'[w].seen = writer[w].seen /\ writer'[w].change = writer[w].change
        /\ \A v \in Writers : v # w => writer'[v] = writer[v]
    BY <1>5, <1>7 DEF CommitEdit
  <2>2. table' = table + 1 /\ silent' = table' /\ UNCHANGED <<last, newest, lost>>
    BY <1>7 DEF CommitEdit
  <2>3. \A v \in Writers : Bounded(v)'
    BY <1>0, <2>1, <2>2
  <2>4. QED BY <1>0, <2>1, <2>2, <2>3 DEF UpdatesInv, UpdatesComing
<1>8. ASSUME NEW w \in Writers, WriterFails(w) PROVE UpdatesInv'
  <2>1. /\ writer' \in [Writers -> Writer] /\ writer'[w].pc = "idle"
        /\ writer'[w].seen = writer[w].seen /\ writer'[w].change = writer[w].change
        /\ \A v \in Writers : v # w => writer'[v] = writer[v]
    BY <1>5, <1>8 DEF WriterFails
  <2>2. /\ UNCHANGED <<table, last, newest, silent>>
        /\ lost' = IF writer[w].change > lost THEN writer[w].change ELSE lost
    BY <1>8 DEF WriterFails
  <2>3. \A v \in Writers : Bounded(v)'
    BY <1>0, <2>1, <2>2
  <2>4. lost' \in Nat /\ lost' <= table' /\ lost <= lost' /\ writer[w].change <= lost'
    BY <1>0, <2>2
  <2>5. UpdatesComing'
    <3>1. CASE newest = table \/ silent = table
      BY <2>2, <3>1 DEF UpdatesComing
    <3>2. CASE lost = table \/ writer[w].change = table
      BY <1>0, <2>2, <2>4, <3>2 DEF UpdatesComing
    <3>3. ASSUME NEW v \in Writers, Announces(v), v # w
          PROVE  Announces(v)'
      BY <2>1, <2>2, <3>3 DEF Announces
    <3>4. QED BY <3>1, <3>2, <3>3 DEF UpdatesInv, UpdatesComing, Announces
  <2>6. QED BY <1>0, <2>1, <2>2, <2>3, <2>4, <2>5 DEF UpdatesInv
<1>9. QED
  BY <1>1, <1>2, <1>3, <1>4, <1>6, <1>7, <1>8
     DEF PushNext, SocketStep, WriterStep, pushVars, Connect, Leave, Disconnect,
         ReceiveText, SendEnds, GetMessage, GatherEnds, StopPush, Heartbeat, Notify

(* When every handler is done, the last list of terminals that was sent is *)
(* the current one, unless two handlers overtook each other between their  *)
(* read and their broadcast, edit_terminal made the last change, or the    *)
(* request of the last change failed before its announcement:              *)
(* send_terminals_update, for any number of requests.                      *)
THEOREM TerminalsUpdateCurrent == PushSpec => []LastUpdateCurrent
<1>1. UpdatesInv => LastUpdateCurrent
  BY DEF UpdatesInv, UpdatesComing, Announces, LastUpdateCurrent
<1>2. QED BY UpdatesStart, UpdatesStep, <1>1, PTL DEF PushSpec

-----------------------------------------------------------------------------
(* Usage reports *)

TrackRows == [hour : Nat, apps : SUBSET Apps]

UsageTyped ==
    /\ hour \in Nat /\ Day(hour) < MaxDays
    /\ installed \in SUBSET Apps
    /\ tracks \subseteq TrackRows /\ IsFiniteSet(tracks)
    /\ DOMAIN due = CronJobs /\ DOMAIN accepted = Months
    /\ atTwo \in [0..(MaxDays - 1) -> (SUBSET Apps) \cup {None}]

(* A track is what was installed at two o'clock of its day ...             *)
TracksRight ==
    \A t \in tracks : t.hour % 3 = 1 /\ t.hour <= hour /\ atTwo[Day(t.hour)] = t.apps

(* ... and there is none of a day whose track is due.                      *)
TrackDue ==
    /\ due["track"] # None =>
          due["track"] \in Nat /\ due["track"] % 3 = 1 /\ hour <= due["track"]
    /\ due["track"] = hour => \A t \in tracks : t.hour < hour
    /\ track.pc = "insert" => due["track"] = hour /\ track.apps = atTwo[Day(hour)]
    /\ track.pc = "insert" => track.apps \in SUBSET Apps

(* The tracks of a month, by app.                                          *)
Counts(m) == [a \in Apps |-> Cardinality({t \in tracks : InRange(t, m) /\ a \in t.apps})]

(* What is being sent and what was accepted are the counts of months that  *)
(* are over.                                                               *)
SentCounts ==
    report.pc = "send" =>
        report.month \in Months /\ report.month < Month(hour) /\ report.usage = Counts(report.month)

AcceptedCounts ==
    \A m \in Months : accepted[m] # None => m < Month(hour) /\ accepted[m] = Counts(m)

UsageInv == UsageTyped /\ TracksRight /\ TrackDue /\ SentCounts /\ AcceptedCounts

LEMMA LeastHour ==
    ASSUME NEW S \in SUBSET Nat, S # {}
    PROVE  \E n \in S : \A k \in S : n <= k
<1>1. PICK n \in S : \A k \in S : ~(<<k, n>> \in OpToRel(<, Nat))
  BY NatLessThanWellFounded, WFMin
<1>2. \A k \in S : ~(k < n)
  BY <1>1 DEF OpToRel
<1>3. QED BY <1>2

LEMMA DaysIn ==
    /\ DaysPerMonth \in Nat /\ DaysPerMonth # 0
    /\ MaxDays \in Nat /\ MaxDays # 0
BY DaysAssumption

LEMMA DayBounds ==
    ASSUME NEW h \in Nat
    PROVE  Day(h) \in Nat /\ 3 * Day(h) <= h /\ h < 3 * Day(h) + 3 /\ h % 3 = h - 3 * Day(h)
BY SMT DEF Day

LEMMA TwoOClock ==
    ASSUME NEW h \in Nat, h % 3 = 1
    PROVE  Day(h) \in Nat /\ h = 3 * Day(h) + 1
BY SMT DEF Day

LEMMA QuotientBounds ==
    ASSUME NEW D \in Nat, D # 0, NEW n \in Nat
    PROVE  n \div D \in Nat /\ D * (n \div D) <= n /\ n < D * ((n \div D) + 1)
BY SMT

LEMMA ProductGrows ==
    ASSUME NEW D \in Nat, NEW a \in Nat, NEW b \in Nat, a <= b
    PROVE  D * a \in Nat /\ D * b \in Nat /\ D * a <= D * b
BY SMT

(* The quotient is the only number with these bounds.                      *)
LEMMA QuotientIs ==
    ASSUME NEW D \in Nat, D # 0, NEW n \in Nat, NEW m \in Nat
    PROVE  n \div D = m <=> D * m <= n /\ n < D * (m + 1)
<1> DEFINE q == n \div D
<1>1. q \in Nat /\ D * q <= n /\ n < D * (q + 1)
  BY QuotientBounds
<1>2. ASSUME D * m <= n, n < D * (m + 1) PROVE q = m
  <2> HIDE DEF q
  <2>1. ASSUME q + 1 <= m PROVE FALSE
    <3>1. D * (q + 1) <= D * m /\ D * m \in Nat /\ D * (q + 1) \in Nat
      BY <1>1, <2>1, ProductGrows
    <3>2. QED BY <1>1, <1>2, <3>1
  <2>2. ASSUME m + 1 <= q PROVE FALSE
    <3>1. D * (m + 1) <= D * q /\ D * q \in Nat /\ D * (m + 1) \in Nat
      BY <1>1, <2>2, ProductGrows
    <3>2. QED BY <1>1, <1>2, <3>1
  <2>3. QED BY <1>1, <2>1, <2>2
<1>3. QED BY <1>1, <1>2

LEMMA QuotientGrows ==
    ASSUME NEW D \in Nat, D # 0, NEW a \in Nat, NEW b \in Nat, a <= b
    PROVE  a \div D \in Nat /\ b \div D \in Nat /\ a \div D <= b \div D
<1> DEFINE p == a \div D  q == b \div D
<1>1. p \in Nat /\ D * p <= a /\ q \in Nat /\ b < D * (q + 1)
  BY QuotientBounds
<1> HIDE DEF p, q
<1>2. ASSUME q + 1 <= p PROVE FALSE
  <2>1. D * (q + 1) <= D * p /\ D * p \in Nat /\ D * (q + 1) \in Nat
    BY <1>1, <1>2, ProductGrows
  <2>2. QED BY <1>1, <2>1
<1>3. p <= q
  BY <1>1, <1>2
<1>4. QED BY <1>1, <1>3 DEF p, q

(* search_by_time_range finds the tracks of the days of a month.           *)
LEMMA RangeIsMonth ==
    ASSUME NEW t, t.hour \in Nat, NEW m \in Nat
    PROVE  InRange(t, m) <=> Day(t.hour) \div DaysPerMonth = m
<1> DEFINE p == DaysPerMonth * m  q == DaysPerMonth * (m + 1)
<1>1. p \in Nat /\ q \in Nat
  BY DaysIn, ProductGrows
<1>2. MonthStart(m) = 3 * p /\ MonthStart(m + 1) = 3 * q
  BY DaysIn DEF MonthStart
<1>3. Day(t.hour) \in Nat /\ 3 * Day(t.hour) <= t.hour /\ t.hour < 3 * Day(t.hour) + 3
  BY DayBounds
<1>4. (3 * p <= t.hour /\ t.hour < 3 * q) <=> (p <= Day(t.hour) /\ Day(t.hour) < q)
  <2> HIDE DEF p, q
  <2>1. QED BY <1>1, <1>3
<1>5. QED BY <1>2, <1>3, <1>4, DaysIn, QuotientIs DEF InRange

LEMMA DayGrows ==
    ASSUME NEW g \in Nat, NEW h \in Nat, g <= h
    PROVE  Day(g) \in Nat /\ Day(h) \in Nat /\ Day(g) <= Day(h) /\ Month(g) \in Nat
           /\ Month(h) \in Nat /\ Month(g) <= Month(h)
<1>1. Day(g) \in Nat /\ Day(h) \in Nat /\ Day(g) <= Day(h)
  BY DayBounds
<1>2. QED BY <1>1, DaysIn, QuotientGrows DEF Month

(* CronTask: the next time of the track is after now.                      *)
LEMMA NextTrack ==
    ASSUME hour \in Nat, Day(hour) < MaxDays
    PROVE  NextExec("track") \in Nat /\ NextExec("track") % 3 = 1 /\ NextExec("track") > hour
<1> DEFINE slots == {h \in 0..(3 * (MaxDays + DaysPerMonth)) : Scheduled("track", h) /\ h > hour}
           next == 3 * (Day(hour) + 1) + 1
<1>1. slots \in SUBSET Nat /\ \A h \in slots : h % 3 = 1 /\ h > hour
  BY DaysIn DEF Scheduled
<1>2. next \in slots
  <2>1. Day(hour) \in Nat /\ hour < 3 * Day(hour) + 3
    BY DayBounds
  <2>2. next \in Nat /\ next > hour /\ next % 3 = 1 /\ next <= 3 * (MaxDays + DaysPerMonth)
    BY <2>1, DaysIn
  <2>3. QED BY <2>2, DaysIn DEF Scheduled
<1>3. \E n \in slots : \A k \in slots : n <= k
  BY <1>1, <1>2, LeastHour
<1>4. NextExec("track") \in slots
  BY <1>3 DEF NextExec
<1>5. QED BY <1>1, <1>4

LEMMA UsageStarts == UsageInit => UsageInv
<1> SUFFICES ASSUME UsageInit PROVE UsageInv
  OBVIOUS
<1>1. Day(0) = 0
  BY DayBounds
<1>2. track.pc # "insert" /\ report.pc # "send"
  BY DEF UsageInit, NoTrack, NoReport
<1>3. UsageTyped
  <2>1. hour \in Nat /\ Day(hour) < MaxDays
    BY <1>1, DaysIn DEF UsageInit
  <2>2. tracks \subseteq TrackRows /\ IsFiniteSet(tracks)
    BY FS_EmptySet DEF UsageInit
  <2>3. DOMAIN due = CronJobs /\ DOMAIN accepted = Months
    BY DEF UsageInit
  <2>4. QED BY <2>1, <2>2, <2>3 DEF UsageInit, UsageTyped
<1>4. TrackDue
  BY <1>2, NoneAssumption DEF UsageInit, TrackDue, CronJobs
<1>5. QED
  BY <1>2, <1>3, <1>4 DEF UsageInit, UsageInv, TracksRight, SentCounts, AcceptedCounts

(* A track of this hour is one of this month, and leaves the counts of the *)
(* months before alone.                                                    *)
LEMMA CountsStay ==
    ASSUME UsageTyped, NEW x, tracks' = tracks \cup {[hour |-> hour, apps |-> x]}
    PROVE  \A m \in Months : m < Month(hour) => Counts(m)' = Counts(m)
<1> SUFFICES ASSUME NEW m \in Months, m < Month(hour)
             PROVE  Counts(m)' = Counts(m)
  OBVIOUS
<1> DEFINE new == [hour |-> hour, apps |-> x]
<1>1. m \in Nat /\ new.hour = hour /\ hour \in Nat
  BY DEF Months, UsageTyped
<1>2. ~InRange(new, m)
  <2>1. Month(hour) \in Nat /\ Month(hour) # m
    BY <1>1, DayGrows
  <2>2. Day(new.hour) \div DaysPerMonth # m
    BY <1>1, <2>1 DEF Month
  <2>3. new.hour \in Nat
    BY <1>1
  <2> HIDE DEF new
  <2>4. QED BY <1>1, <2>2, <2>3, RangeIsMonth
<1>3. \A a \in Apps : {t \in tracks' : InRange(t, m) /\ a \in t.apps}
                        = {t \in tracks : InRange(t, m) /\ a \in t.apps}
  <2> HIDE DEF new
  <2>1. tracks' = tracks \cup {new}
    BY DEF new
  <2>2. QED BY <1>2, <2>1
<1>4. Counts(m)' = [a \in Apps |-> Cardinality({t \in tracks' : InRange(t, m) /\ a \in t.apps})]
  BY DEF Counts, InRange, MonthStart
<1>5. QED BY <1>3, <1>4 DEF Counts

LEMMA UsageStep ==
    ASSUME UsageInv, [UsageNext]_usageVars
    PROVE  UsageInv'
<1>0. /\ hour \in Nat /\ Day(hour) \in Nat /\ Day(hour) \in 0..(MaxDays - 1)
      /\ Day(hour) < MaxDays /\ Month(hour) \in Nat
  BY DaysIn, DayGrows DEF UsageInv, UsageTyped
<1>1. CASE UNCHANGED usageVars
  BY <1>1 DEF UsageInv, UsageTyped, TracksRight, TrackDue, SentCounts, AcceptedCounts, Counts, InRange,
              MonthStart, Month, Day, Months, CronJobs, TrackRows, usageVars
<1>2. CASE NextHour
  <2>1. /\ hour' = hour + 1 /\ hour' \in Nat /\ Day(hour') < MaxDays
        /\ Month(hour) <= Month(hour') /\ Month(hour') \in Nat
    BY <1>0, <1>2, DayGrows DEF NextHour
  <2>2. UNCHANGED <<installed, tracks, due, track, report, accepted, restarts, atTwo>>
    BY <1>2 DEF NextHour
  <2>3. track.pc # "insert" /\ report.pc # "send" /\ (due["track"] # None => due["track"] > hour)
    BY <1>2 DEF NextHour, Resting, NoTrack, NoReport, CronJobs
  <2>4. UsageTyped'
    BY <2>1, <2>2 DEF UsageInv, UsageTyped
  <2>5. \A t \in tracks : t.hour \in Nat /\ t.hour <= hour
    BY DEF UsageInv, UsageTyped, TrackRows, TracksRight
  <2>6. TracksRight' /\ TrackDue'
    BY <1>0, <2>1, <2>2, <2>3, <2>5 DEF UsageInv, TracksRight, TrackDue
  <2>7. SentCounts' /\ AcceptedCounts'
    <3>1. \A m \in Months : Counts(m)' = Counts(m) /\ m \in Nat
      BY <2>2 DEF Counts, Months
    <3>2. \A m \in Months : m < Month(hour) => m < Month(hour')
      BY <1>0, <2>1, <3>1
    <3>3. QED BY <2>2, <2>3, <3>1, <3>2 DEF UsageInv, SentCounts, AcceptedCounts
  <2>8. QED BY <2>4, <2>6, <2>7 DEF UsageInv
<1>3. CASE \E a \in Apps : ChangeInstalled(a)
  <2>1. /\ installed' \in SUBSET Apps
        /\ UNCHANGED <<hour, tracks, due, track, report, accepted, restarts, atTwo>>
    BY <1>3 DEF ChangeInstalled, UsageInv, UsageTyped
  <2>2. QED
    BY <2>1 DEF UsageInv, UsageTyped, TracksRight, TrackDue, SentCounts, AcceptedCounts, Counts
<1>4. CASE StartTasks
  <2>1. DOMAIN due' = CronJobs /\ due'["track"] = NextExec("track")
    BY <1>4 DEF StartTasks, CronJobs
  <2>2. UNCHANGED <<hour, installed, tracks, track, report, accepted, restarts, atTwo>>
    BY <1>4 DEF StartTasks
  <2>3. due["track"] = None
    BY <1>4 DEF StartTasks, CronJobs
  <2>4. track.pc # "insert"
    BY <1>0, <2>3, NoneAssumption DEF UsageInv, TrackDue
  <2>5. TrackDue'
    BY <1>0, <2>1, <2>2, <2>4, NextTrack DEF TrackDue
  <2>6. QED
    BY <2>1, <2>2, <2>5 DEF UsageInv, UsageTyped, TracksRight, SentCounts, AcceptedCounts, Counts
<1>5. CASE StopProcess
  <2>1. DOMAIN due' = CronJobs /\ due'["track"] = None
    BY <1>5 DEF StopProcess, CronJobs
  <2>2. /\ UNCHANGED <<hour, installed, tracks, accepted, atTwo>>
        /\ track'.pc # "insert" /\ report'.pc # "send"
    BY <1>5 DEF StopProcess, NoTrack, NoReport
  <2>3. TrackDue' /\ SentCounts'
    BY <1>0, <2>1, <2>2, NoneAssumption DEF TrackDue, SentCounts
  <2>4. QED
    BY <2>1, <2>2, <2>3 DEF UsageInv, UsageTyped, TracksRight, AcceptedCounts, Counts
<1>6. CASE ReadApps
  <2>1. /\ atTwo' = [atTwo EXCEPT ![Day(hour)] = installed] /\ due["track"] = hour
        /\ track'.pc = "insert" /\ track'.apps = installed
        /\ UNCHANGED <<hour, installed, tracks, due, report, accepted, restarts>>
    BY <1>6 DEF ReadApps, Due
  <2>2. hour % 3 = 1 /\ \A t \in tracks : t.hour < hour /\ t.hour \in Nat /\ t.hour % 3 = 1
    BY <1>0, <2>1, NoneAssumption DEF UsageInv, TrackDue, TracksRight, UsageTyped, TrackRows
  <2>3. /\ UsageTyped' /\ atTwo'[Day(hour)] = installed /\ installed \in SUBSET Apps
        /\ \A d \in 0..(MaxDays - 1) : d # Day(hour) => atTwo'[d] = atTwo[d]
    BY <1>0, <2>1 DEF UsageInv, UsageTyped
  <2>4. \A t \in tracks : Day(t.hour) \in 0..(MaxDays - 1) /\ Day(t.hour) # Day(hour)
    <3> SUFFICES ASSUME NEW t \in tracks
                 PROVE  Day(t.hour) \in 0..(MaxDays - 1) /\ Day(t.hour) # Day(hour)
      OBVIOUS
    <3>1. t.hour < hour /\ t.hour \in Nat /\ t.hour % 3 = 1 /\ hour % 3 = 1
      BY <2>2
    <3>2. /\ Day(t.hour) \in Nat /\ Day(t.hour) <= Day(hour)
          /\ t.hour = 3 * Day(t.hour) + 1 /\ hour = 3 * Day(hour) + 1
      <4>0. t.hour \in Nat /\ hour \in Nat /\ t.hour <= hour
        BY <1>0, <3>1
      <4>1. Day(t.hour) \in Nat /\ Day(t.hour) <= Day(hour)
        BY <4>0, DayGrows
      <4>2. t.hour = 3 * Day(t.hour) + 1
        BY <3>1, TwoOClock
      <4>3. hour = 3 * Day(hour) + 1
        BY <1>0, <3>1, TwoOClock
      <4>4. QED BY <4>1, <4>2, <4>3
    <3>3. QED BY <1>0, <3>1, <3>2, DaysIn
  <2>5. TracksRight' /\ TrackDue'
    BY <1>0, <2>1, <2>2, <2>3, <2>4 DEF UsageInv, TracksRight, TrackDue
  <2>6. QED
    BY <2>1, <2>3, <2>5 DEF UsageInv, SentCounts, AcceptedCounts, Counts
<1>7. CASE InsertTrack
  <2> DEFINE new == [hour |-> hour, apps |-> track.apps]
  <2>1. /\ track.pc = "insert" /\ due["track"] = hour /\ track.apps = atTwo[Day(hour)]
        /\ track.apps \in SUBSET Apps
    BY <1>7 DEF InsertTrack, UsageInv, TrackDue
  <2>2. hour % 3 = 1
    BY <1>0, <2>1, NoneAssumption DEF UsageInv, TrackDue
  <2>3. /\ DOMAIN due' = CronJobs /\ due'["track"] = NextExec("track") /\ track'.pc # "insert"
        /\ UNCHANGED <<hour, installed, report, accepted, restarts, atTwo>>
    BY <1>7 DEF InsertTrack, Sleep, UsageInv, UsageTyped, CronJobs, NoTrack
  <2>4. TrackDue'
    BY <1>0, <2>3, NextTrack DEF TrackDue
  <2>5. CASE tracks' = tracks
    BY <2>3, <2>4, <2>5 DEF UsageInv, UsageTyped, TracksRight, SentCounts, AcceptedCounts, Counts
  <2>6. CASE tracks' = tracks \cup {new}
    <3>1. new \in TrackRows /\ new.hour = hour /\ new.apps = track.apps
      BY <1>0, <2>1 DEF TrackRows
    <3>2. \A m \in Months : m < Month(hour) => Counts(m)' = Counts(m)
      BY <2>6, CountsStay DEF UsageInv
    <3> HIDE DEF new
    <3>3. UsageTyped'
      BY <2>3, <2>6, <3>1, FS_AddElement DEF UsageInv, UsageTyped
    <3>4. TracksRight'
      BY <1>0, <2>1, <2>2, <2>3, <2>6, <3>1 DEF UsageInv, TracksRight
    <3>5. SentCounts' /\ AcceptedCounts'
      BY <2>3, <3>2 DEF UsageInv, SentCounts, AcceptedCounts
    <3>6. QED BY <2>4, <3>3, <3>4, <3>5 DEF UsageInv
  <2>7. QED BY <1>7, <2>5, <2>6 DEF InsertTrack
<1>8. ASSUME due' = due \/ Sleep("report"),
             UNCHANGED <<hour, installed, tracks, track, atTwo>>,
             DOMAIN accepted' = Months, SentCounts', AcceptedCounts'
      PROVE  UsageInv'
  <2>1. DOMAIN due' = CronJobs /\ due'["track"] = due["track"]
    BY <1>8 DEF Sleep, UsageInv, UsageTyped, CronJobs
  <2>2. TrackDue'
    BY <1>8, <2>1 DEF UsageInv, TrackDue
  <2>3. QED BY <1>8, <2>1, <2>2 DEF UsageInv, UsageTyped, TracksRight
<1>9. ASSUME UNCHANGED <<hour, tracks>>
      PROVE  \A m \in Months : Counts(m)' = Counts(m) /\ Month(hour)' = Month(hour)
  BY <1>9 DEF Counts
<1>10. CASE CountUsage
  <2> DEFINE m == Month(hour) - 1
             relevant == {t \in tracks : InRange(t, m)}
             usage == [a \in Apps |-> Cardinality({t \in relevant : a \in t.apps})]
  <2>1. /\ UNCHANGED <<hour, installed, tracks, track, accepted, restarts, atTwo>>
        /\ report = NoReport /\ DOMAIN accepted' = Months
    BY <1>10 DEF CountUsage, UsageInv, UsageTyped
  <2>2. AcceptedCounts'
    BY <1>9, <2>1 DEF UsageInv, AcceptedCounts
  <2>3. CASE Sleep("report") /\ UNCHANGED report
    <3>1. SentCounts'
      BY <2>1, <2>3 DEF SentCounts, NoReport
    <3>2. QED BY <1>8, <2>1, <2>2, <2>3, <3>1
  <2>4. CASE /\ Month(hour) # 0 /\ UNCHANGED due
             /\ report' = [pc |-> "send", month |-> m, tries |-> 0, usage |-> usage]
    <3>1. m \in Months /\ m < Month(hour)
      <4>1. Day(hour) <= MaxDays - 1 /\ MaxDays - 1 \in Nat
        BY <1>0, DaysIn
      <4>2. Month(hour) <= (MaxDays - 1) \div DaysPerMonth /\ (MaxDays - 1) \div DaysPerMonth \in Nat
        BY <1>0, <4>1, DaysIn, QuotientGrows DEF Month
      <4>3. QED BY <1>0, <2>4, <4>2 DEF Months
    <3>2. usage = Counts(m)
      <4>1. \A a \in Apps : {t \in relevant : a \in t.apps} = {t \in tracks : InRange(t, m) /\ a \in t.apps}
        OBVIOUS
      <4> HIDE DEF m, relevant
      <4>2. QED BY <4>1 DEF Counts
    <3>3. report'.month = m /\ report'.usage = usage
      BY <2>4
    <3>4. SentCounts'
      <4> HIDE DEF m, usage
      <4>1. Counts(m) = [a \in Apps |-> Cardinality({t \in tracks' : InRange(t, m) /\ a \in t.apps})]
        BY <2>1 DEF Counts
      <4>2. Month(hour') = Month(hour)
        BY <2>1
      <4>3. QED BY <3>1, <3>2, <3>3, <4>1, <4>2 DEF SentCounts, Counts
    <3>5. QED BY <1>8, <2>1, <2>2, <2>4, <3>4
  <2>5. QED BY <1>10, <2>3, <2>4 DEF CountUsage
<1>11. ASSUME report.pc = "send", UNCHANGED <<hour, tracks>>, ReportEnds \/ Retry
       PROVE  SentCounts' /\ (due' = due \/ Sleep("report"))
  <2>1. CASE report' = NoReport /\ Sleep("report")
    BY <2>1 DEF SentCounts, NoReport
  <2>2. CASE report' = [report EXCEPT !.tries = @ + 1] /\ UNCHANGED due
    <3>1. report'.month = report.month /\ report'.usage = report.usage
      BY <2>2
    <3>2. Counts(report.month) = [a \in Apps |-> Cardinality({t \in tracks' : InRange(t, report.month) /\ a \in t.apps})]
      BY <1>11 DEF Counts
    <3>3. Month(hour') = Month(hour)
      BY <1>11
    <3>4. QED BY <1>11, <2>2, <3>1, <3>2, <3>3 DEF UsageInv, SentCounts, Counts
  <2>3. QED BY <1>11, <2>1, <2>2 DEF ReportEnds, Retry
<1>12. CASE SendReport
  <2>1. /\ UNCHANGED <<hour, installed, tracks, track, restarts, atTwo>>
        /\ report.pc = "send" /\ (ReportEnds \/ Retry)
        /\ \/ UNCHANGED accepted
           \/ accepted' = [accepted EXCEPT ![report.month] = report.usage]
    BY <1>12 DEF SendReport
  <2>2. /\ report.month \in Months /\ report.month < Month(hour)
        /\ report.usage = Counts(report.month) /\ DOMAIN accepted = Months
    BY <2>1 DEF UsageInv, SentCounts, UsageTyped
  <2>3. DOMAIN accepted' = Months
    BY <2>1, <2>2
  <2>4. AcceptedCounts'
    <3> SUFFICES ASSUME NEW m \in Months, accepted'[m] # None
                 PROVE  m < Month(hour)' /\ accepted'[m] = Counts(m)'
      BY DEF AcceptedCounts
    <3>1. Counts(m)' = Counts(m) /\ Month(hour)' = Month(hour)
      BY <1>9, <2>1
    <3>2. CASE m = report.month /\ accepted' = [accepted EXCEPT ![report.month] = report.usage]
      BY <2>2, <3>1, <3>2
    <3>3. CASE accepted'[m] = accepted[m]
      BY <3>1, <3>3 DEF UsageInv, AcceptedCounts
    <3>4. QED BY <2>1, <2>2, <3>2, <3>3
  <2>5. QED BY <1>8, <1>11, <2>1, <2>3, <2>4
<1>13. CASE ConnectionFails
  <2>1. /\ UNCHANGED <<hour, installed, tracks, track, accepted, restarts, atTwo>>
        /\ report.pc = "send" /\ ReportEnds /\ DOMAIN accepted' = Months
    BY <1>13 DEF ConnectionFails, UsageInv, UsageTyped
  <2>2. AcceptedCounts'
    BY <1>9, <2>1 DEF UsageInv, AcceptedCounts
  <2>3. QED BY <1>8, <1>11, <2>1, <2>2
<1>14. QED
  BY <1>1, <1>2, <1>3, <1>4, <1>5, <1>6, <1>7, <1>10, <1>12, <1>13 DEF UsageNext

(* A month is reported when it is over and with what was installed on its  *)
(* days: no app more often than on the days it was there at two o'clock,   *)
(* and as often if every day's track was written (report_app_usage), for   *)
(* any months, restarts and failed inserts.                                *)
THEOREM UsageReportedRight == UsageSpec => []ReportsMonth
<1>1. ASSUME UsageInv PROVE ReportsMonth
  <2> SUFFICES ASSUME NEW m \in Months, accepted[m] # None, NEW a \in Apps
               PROVE  LET days == {d \in DOMAIN atTwo : d \div DaysPerMonth = m}
                          with == {d \in days : atTwo[d] # None /\ a \in atTwo[d]}
                      IN  /\ m < Month(hour)
                          /\ accepted[m][a] <= Cardinality(with)
                          /\ (\A d \in days : \E t \in tracks : Day(t.hour) = d) =>
                                accepted[m][a] = Cardinality(with)
    <3>1. \A m \in Months : accepted[m] # None => m < Month(hour)
      BY <1>1 DEF UsageInv, AcceptedCounts
    <3>2. QED BY <3>1 DEF ReportsMonth
  <2> DEFINE days == {d \in DOMAIN atTwo : d \div DaysPerMonth = m}
             with == {d \in days : atTwo[d] # None /\ a \in atTwo[d]}
             counted == {t \in tracks : InRange(t, m) /\ a \in t.apps}
             f == [t \in counted |-> Day(t.hour)]
  <2>1. m \in Nat /\ m < Month(hour) /\ accepted[m][a] = Cardinality(counted)
    <3>1. m < Month(hour) /\ accepted[m] = Counts(m)
      BY <1>1 DEF UsageInv, AcceptedCounts
    <3>2. QED BY <3>1 DEF Counts, Months
  <2>2. /\ hour \in Nat /\ Day(hour) < MaxDays /\ MaxDays \in Nat /\ DOMAIN atTwo = 0..(MaxDays - 1)
    BY <1>1, DaysIn DEF UsageInv, UsageTyped
  <2>3. \A t \in tracks : /\ t \in TrackRows /\ t.hour \in Nat /\ t.apps \in SUBSET Apps
                          /\ t.hour % 3 = 1 /\ t.hour <= hour /\ atTwo[Day(t.hour)] = t.apps
    BY <1>1 DEF UsageInv, UsageTyped, TrackRows, TracksRight
  <2>4. \A t \in counted : Day(t.hour) \in with
    <3> SUFFICES ASSUME NEW t \in counted PROVE Day(t.hour) \in with
      OBVIOUS
    <3>1. Day(t.hour) \in Nat /\ Day(t.hour) <= Day(hour) /\ Day(hour) \in Nat
      BY <2>2, <2>3, DayGrows
    <3>2. Day(t.hour) \div DaysPerMonth = m
      BY <2>1, <2>3, RangeIsMonth
    <3>3. atTwo[Day(t.hour)] = t.apps /\ t.apps # None
      BY <2>3, NoneAssumption
    <3>4. QED BY <2>2, <3>1, <3>2, <3>3
  <2>5. \A s, t \in counted : Day(s.hour) = Day(t.hour) => s = t
    <3> SUFFICES ASSUME NEW s \in counted, NEW t \in counted, Day(s.hour) = Day(t.hour)
                 PROVE  s = t
      OBVIOUS
    <3>1. s.hour = t.hour
      <4>1. s.hour = 3 * Day(s.hour) + 1 /\ t.hour = 3 * Day(t.hour) + 1
        BY <2>3, TwoOClock
      <4>2. QED BY <4>1
    <3>2. s.apps = t.apps
      BY <2>3
    <3>3. s \in TrackRows /\ t \in TrackRows
      BY <2>3
    <3>4. QED BY <3>1, <3>2, <3>3 DEF TrackRows
  <2>6. f \in Injection(counted, with)
    BY <2>4, <2>5 DEF Injection, IsInjective
  <2>7. IsFiniteSet(with)
    <3>1. with \in SUBSET (0..(MaxDays - 1))
      BY <2>2
    <3>2. IsFiniteSet(0..(MaxDays - 1))
      BY <2>2, FS_Interval
    <3> HIDE DEF with
    <3>3. QED BY <3>1, <3>2, FS_Subset
  <2>8. /\ Cardinality(counted) <= Cardinality(with)
        /\ f \in Surjection(counted, with) => Cardinality(counted) = Cardinality(with)
    <3> HIDE DEF f, counted, with
    <3>1. QED BY <2>6, <2>7, FS_Injection
  <2>9. ASSUME \A d \in days : \E t \in tracks : Day(t.hour) = d
        PROVE  f \in Surjection(counted, with)
    <3>1. ASSUME NEW d \in with PROVE \E t \in counted : f[t] = d
      <4>1. PICK t \in tracks : Day(t.hour) = d
        BY <2>9
      <4>2. InRange(t, m) /\ a \in t.apps
        BY <2>1, <2>3, <4>1, RangeIsMonth
      <4>3. QED BY <4>1, <4>2
    <3>2. f \in [counted -> with]
      BY <2>4
    <3>3. QED BY <3>1, <3>2 DEF Surjection
  <2>10. QED BY <2>1, <2>8, <2>9
<1>2. QED BY UsageStarts, UsageStep, <1>1, PTL DEF UsageSpec
=============================================================================
