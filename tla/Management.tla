----------------------------- MODULE Management -----------------------------
(***************************************************************************)
(* The shared secret by which the controller authenticates itself to the   *)
(* management API: web/internal/auth.py, authenticate_management, and      *)
(* service/freeshard_controller.py.  The shard keeps a copy of the secret  *)
(* and asks the controller again when a request does not match it; the     *)
(* controller may rotate the secret at any time, and handlers run          *)
(* concurrently.  Secrets are numbered in the order of the rotations.      *)
(***************************************************************************)
EXTENDS Naturals

CONSTANTS
    Calls,
    Missing,       \* no secret is stored
    Short,         \* a presented secret of less than 8 characters, or none
    Wrong,         \* one that never was the controller's
    MaxRotations   \* bound of the rotations

VARIABLES
    current,   \* the controller's secret
    stored,    \* freeshard_controller_shared_key in kv_store
    call,      \* the handlers
    valid      \* history: requests whose secret has been current all the time

managementVars == <<current, stored, call, valid>>

Secret == 0..MaxRotations

ASSUME BoundAssumption == MaxRotations \in Nat

ASSUME SecretsAssumption ==
    /\ {Missing, Short, Wrong} \cap Secret = {}
    /\ Missing \notin {Short, Wrong}

Waiting == [pc |-> "idle", secret |-> Short, answer |-> Missing]

ManagementInit ==
    /\ current = 0
    /\ stored = Missing
    /\ call = [r \in Calls |-> Waiting]
    /\ valid = {}

(* The controller's side.                                                  *)
Rotate ==
    /\ current < MaxRotations
    /\ current' = current + 1
    /\ valid' = {}
    /\ UNCHANGED <<stored, call>>

Goto(r, pc) == call' = [call EXCEPT ![r].pc = pc]

(* A call arrives, from the controller or not.                             *)
PresentSecret(r, secret) ==
    /\ call[r].pc = "idle"
    /\ call' = [call EXCEPT ![r] =
                    [Waiting EXCEPT !.pc = IF secret = Short THEN "refused" ELSE "read",
                                    !.secret = secret]]
    /\ valid' = IF secret = current THEN valid \cup {r} ELSE valid
    /\ UNCHANGED <<current, stored>>

(* Fault: a stored secret is final.                                        *)
ReadFinal(r) ==
    /\ call[r].pc = "read"
    /\ \/ stored = call[r].secret /\ Goto(r, "accepted")
       \/ stored = Missing /\ Goto(r, "ask")
       \/ stored \notin {call[r].secret, Missing} /\ Goto(r, "refused")
    /\ UNCHANGED <<current, stored, valid>>

(* validate_shared_secret: the stored secret decides only when it matches. *)
ReadStored(r) ==
    /\ call[r].pc = "read"
    /\ \/ stored = call[r].secret /\ Goto(r, "accepted")
       \/ stored # call[r].secret /\ Goto(r, "ask")
    /\ UNCHANGED <<current, stored, valid>>

(* refresh_shared_secret: GET api/shards/self as the controller answers it *)
(* ...                                                                     *)
AskController(r) ==
    /\ call[r].pc = "ask"
    /\ call' = [call EXCEPT ![r].pc = "save", ![r].answer = current]
    /\ UNCHANGED <<current, stored, valid>>

(* ... or the call fails: a 500.                                           *)
AskFails(r) ==
    /\ call[r].pc = "ask"
    /\ Goto(r, "error")
    /\ UNCHANGED <<current, stored, valid>>

(* The answer is stored, over a newer one as well, and decides.            *)
SaveAnswer(r) ==
    /\ call[r].pc = "save"
    /\ stored' = call[r].answer
    /\ Goto(r, IF call[r].answer = call[r].secret THEN "accepted" ELSE "refused")
    /\ UNCHANGED <<current, valid>>

(* The handler is done; the request's name is free again.                  *)
Respond(r) ==
    /\ call[r].pc \in {"accepted", "refused", "error"}
    /\ call' = [call EXCEPT ![r] = Waiting]
    /\ valid' = valid \ {r}
    /\ UNCHANGED <<current, stored>>

ManagementNext ==
    \/ Rotate
    \/ \E r \in Calls :
          \/ \E secret \in Secret \cup {Short, Wrong} : PresentSecret(r, secret)
          \/ ReadStored(r) \/ AskController(r) \/ AskFails(r) \/ SaveAnswer(r) \/ Respond(r)

ManagementSpec == ManagementInit /\ [][ManagementNext]_managementVars

-----------------------------------------------------------------------------
(* A request with the controller's secret is never turned away, although   *)
(* the copy may be missing or old and other handlers overwrite it with     *)
(* answers from before a rotation.                                         *)
CurrentAccepted == \A r \in valid : call[r].pc # "refused"

(* No secret gets in before the controller has made it, or without it ever *)
(* making it: the copy is always one the controller answered.              *)
AcceptedWasCurrent ==
    /\ stored # Missing => stored \in 0..current
    /\ \A r \in Calls : call[r].pc = "accepted" => call[r].secret \in 0..current

(* The controller's secret, and nothing else, decides: who has it gets in  *)
(* and who never had it does not, during rotations, too.                   *)
SecretDecides == CurrentAccepted /\ AcceptedWasCurrent
=============================================================================
