----------------------------- MODULE Telemetry -----------------------------
(***************************************************************************)
(* service/telemetry.py and service/pause_metrics.py: counters in memory   *)
(* that a periodic task packs into a report, posts to the controller and   *)
(* resets.  The controller is external: it may accept a report, refuse it  *)
(* with an HTTP error, not be there, or accept it and the answer is lost.  *)
(***************************************************************************)
EXTENDS Naturals, Sequences

CONSTANTS
    MaxSnapshots,   \* _MAX_PSI_SNAPSHOTS
    MaxRecorded,    \* bound: requests that are counted
    MaxTime,        \* bound: of the clock
    MaxStored      \* bound: reports the controller stores

ASSUME TelemetryBounds == {MaxSnapshots, MaxRecorded, MaxTime, MaxStored} \subseteq Nat

VARIABLES
    now,        \* the clock
    requests,   \* no_of_requests
    snapshots,  \* psi_snapshots, which stand for all metrics of the pause tier
    lastSend,   \* last_send
    send,       \* the call of send_telemetry; upto is history: the requests so far
    stored,   \* the reports the controller has stored
    recorded    \* history: all requests so far

telemetryVars == <<now, requests, snapshots, lastSend, send, stored, recorded>>

-----------------------------------------------------------------------------
NoSend == [pc |-> "idle", start |-> 0, end |-> 0, requests |-> 0, snapshots |-> 0, upto |-> 0]

TelemetryInit ==
    /\ now = 0 /\ lastSend = 0
    /\ requests = 0 /\ snapshots = 0
    /\ send = NoSend
    /\ stored = <<>>
    /\ recorded = 0

Tick ==
    /\ now < MaxTime
    /\ now' = now + 1
    /\ UNCHANGED <<requests, snapshots, lastSend, send, stored, recorded>>

(* record_request, for a terminal's request and for one to an app.         *)
RecordRequest ==
    /\ recorded < MaxRecorded
    /\ recorded' = recorded + 1
    /\ requests' = requests + 1
    /\ UNCHANGED <<now, snapshots, lastSend, send, stored>>

(* record_psi_snapshot, and the latencies: samples beyond the bound are    *)
(* dropped.                                                                *)
RecordSnapshot ==
    /\ snapshots < MaxSnapshots
    /\ snapshots' = snapshots + 1
    /\ UNCHANGED <<now, requests, lastSend, send, stored, recorded>>

-----------------------------------------------------------------------------
(* send_telemetry *)

BuildReport ==
    /\ send.pc = "idle"
    /\ send' = [pc |-> "posting", start |-> lastSend, end |-> now, requests |-> requests,
                snapshots |-> snapshots, upto |-> recorded]
    /\ UNCHANGED <<now, requests, snapshots, lastSend, stored, recorded>>

Report(known) ==
    [start |-> send.start, end |-> send.end, requests |-> send.requests, upto |-> send.upto,
     known |-> known]

(* The controller stores the report and the answer arrives.                *)
PostAccepted ==
    /\ send.pc = "posting" /\ Len(stored) < MaxStored
    /\ stored' = Append(stored, Report(TRUE))
    /\ send' = [send EXCEPT !.pc = "posted"]
    /\ UNCHANGED <<now, requests, snapshots, lastSend, recorded>>

(* An HTTP error is an answer like any other: nobody raises for it.        *)
PostRefused ==
    /\ send.pc = "posting"
    /\ send' = [send EXCEPT !.pc = "refused"]
    /\ UNCHANGED <<now, requests, snapshots, lastSend, stored, recorded>>

(* An exception: the controller has not got the report ...                 *)
PostFails ==
    /\ send.pc = "posting"
    /\ send' = NoSend
    /\ UNCHANGED <<now, requests, snapshots, lastSend, stored, recorded>>

(* ... or only its answer was lost.                                        *)
AnswerLost ==
    /\ send.pc = "posting" /\ Len(stored) < MaxStored
    /\ stored' = Append(stored, Report(FALSE))
    /\ send' = NoSend
    /\ UNCHANGED <<now, requests, snapshots, lastSend, recorded>>

(* Fault: only the metrics are reset.                                      *)
FinishKeepsCount ==
    /\ send.pc \in {"posted", "refused"}
    /\ lastSend' = send.end
    /\ snapshots' = 0
    /\ send' = NoSend
    /\ UNCHANGED <<now, requests, stored, recorded>>

(* The counters are reset, with what was recorded while the report was on  *)
(* its way; the next interval begins where the report ended.               *)
Finish ==
    /\ send.pc \in {"posted", "refused"}
    /\ lastSend' = send.end
    /\ requests' = 0 /\ snapshots' = 0
    /\ send' = NoSend
    /\ UNCHANGED <<now, stored, recorded>>

(* The process starts again: what was counted is lost.                     *)
Restart ==
    /\ requests' = 0 /\ snapshots' = 0
    /\ lastSend' = now
    /\ send' = NoSend
    /\ UNCHANGED <<now, stored, recorded>>

-----------------------------------------------------------------------------
TelemetryNext ==
    \/ Tick \/ RecordRequest \/ RecordSnapshot
    \/ BuildReport \/ PostAccepted \/ PostRefused \/ PostFails \/ AnswerLost \/ Finish
    \/ Restart

TelemetrySpec == TelemetryInit /\ [][TelemetryNext]_telemetryVars

-----------------------------------------------------------------------------
Sends == [pc : {"idle", "posting", "posted", "refused"}, start : Nat, end : Nat, requests : Nat,
          snapshots : 0..MaxSnapshots, upto : Nat]

Reports == [start : Nat, end : Nat, requests : Nat, upto : Nat, known : BOOLEAN]

(* Types of the variables; the list of samples keeps to its bound, and     *)
(* nothing lies in the future.                                             *)
TelemetryTypeOK ==
    /\ now \in Nat /\ lastSend \in Nat /\ lastSend <= now
    /\ recorded \in Nat /\ requests \in Nat /\ requests <= recorded
    /\ snapshots \in 0..MaxSnapshots
    /\ send \in Sends /\ send.end <= now /\ send.upto <= recorded
    /\ stored \in Seq(Reports)
    /\ \A i \in DOMAIN stored : stored[i].end <= now /\ stored[i].upto <= recorded

(* A report counts the last of the requests that had come when it was      *)
(* built: none of them was in an earlier report that was answered.         *)
NotReportedTwice ==
    \A i, j \in DOMAIN stored :
        i < j /\ stored[i].known => stored[i].upto <= stored[j].upto - stored[j].requests

(* A report the sender knows to have arrived ends before any later one     *)
(* begins.                                                                 *)
IntervalsInOrder ==
    \A i, j \in DOMAIN stored :
        i < j /\ stored[i].known => stored[i].end <= stored[j].start

(* Every request is reported once at most, in one interval, over sends     *)
(* that fail, restarts and errors, unless an answer was lost.              *)
ReportedOnce == NotReportedTwice /\ IntervalsInOrder
=============================================================================
