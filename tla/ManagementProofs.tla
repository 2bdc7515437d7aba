-------------------------- MODULE ManagementProofs --------------------------
(***************************************************************************)
(* Safety of Management for any number of concurrent handlers and any      *)
(* number of rotations.                                                    *)
(***************************************************************************)
EXTENDS Management, TLAPS

Handler ==
    [pc : {"idle", "read", "ask", "save", "accepted", "refused", "error"},
     secret : Secret \cup {Short, Wrong},
     answer : Secret \cup {Missing}]

TypeInv ==
    /\ current \in Secret
    /\ stored \in Secret \cup {Missing}
    /\ call \in [Calls -> Handler]
    /\ valid \in SUBSET Calls

(* What a handler knows: an answer it is about to save was the             *)
(* controller's secret once, and still is if the presented secret has been *)
(* current all the time.                                                   *)
Knows(r) ==
    /\ call[r].pc = "save" => call[r].answer \in 0..current
    /\ call[r].pc = "accepted" => call[r].secret \in 0..current
    /\ r \in valid =>
          /\ call[r].secret = current
          /\ call[r].pc # "idle"
          /\ call[r].pc # "refused"
          /\ call[r].pc = "save" => call[r].answer = current

IInv ==
    /\ TypeInv
    /\ stored # Missing => stored \in 0..current
    /\ \A r \in Calls : Knows(r)

-----------------------------------------------------------------------------
(* A handler changes its own record only.                                  *)
LEMMA GotoHandler ==
    ASSUME TypeInv, NEW r \in Calls,
           NEW pc \in {"idle", "read", "ask", "save", "accepted", "refused", "error"},
           Goto(r, pc)
    PROVE  /\ call' \in [Calls -> Handler]
           /\ call'[r].pc = pc
           /\ call'[r].secret = call[r].secret /\ call'[r].answer = call[r].answer
           /\ \A s \in Calls \ {r} : call'[s] = call[s]
  BY DEF TypeInv, Goto, Handler

(* The arrival of a call keeps the invariant.                              *)
LEMMA PresentKeeps ==
    ASSUME IInv, NEW r \in Calls, NEW secret \in Secret \cup {Short, Wrong},
           PresentSecret(r, secret)
    PROVE  IInv'
<1> DEFINE q == [Waiting EXCEPT !.pc = IF secret = Short THEN "refused" ELSE "read",
                                !.secret = secret]
<1>1. /\ q \in Handler
      /\ q.pc = (IF secret = Short THEN "refused" ELSE "read") /\ q.secret = secret
  BY DEF Handler, Waiting
<1>2. call' = [call EXCEPT ![r] = q]
  BY DEF PresentSecret
<1>3. /\ call' \in [Calls -> Handler] /\ call'[r] = q
      /\ \A s \in Calls \ {r} : call'[s] = call[s]
  BY <1>1, <1>2 DEF IInv, TypeInv
<1>4. current' = current /\ stored' = stored
  BY DEF PresentSecret
<1>5. TypeInv'
  BY <1>3, <1>4 DEF IInv, TypeInv, PresentSecret
<1>6. Knows(r)'
  <2>1. r \in valid' => secret = current
    BY DEF PresentSecret, IInv, Knows
  <2>2. QED BY <1>1, <1>3, <1>4, <2>1, SecretsAssumption DEF Knows, IInv, TypeInv
<1>7. ASSUME NEW s \in Calls \ {r}
      PROVE  Knows(s)'
  BY <1>3, <1>4 DEF Knows, IInv, PresentSecret
<1>8. QED BY <1>4, <1>5, <1>6, <1>7 DEF IInv

(* Every step keeps the invariant.                                         *)
LEMMA StepKeepsIInv ==
    ASSUME IInv, [ManagementNext]_managementVars
    PROVE  IInv'
<1>1. CASE Rotate
  <2>1. /\ current' = current + 1 /\ valid' = {} /\ stored' = stored /\ call' = call
        /\ current \in Nat /\ current' \in Secret
    BY <1>1, BoundAssumption DEF Rotate, IInv, TypeInv, Secret
  <2>2. 0..current \subseteq 0..current'
    BY <2>1
  <2>3. QED BY <2>1, <2>2 DEF IInv, TypeInv, Knows
<1>2. ASSUME NEW r \in Calls, NEW secret \in Secret \cup {Short, Wrong}, PresentSecret(r, secret)
      PROVE  IInv'
  BY <1>2, PresentKeeps
<1>3. ASSUME NEW r \in Calls, ReadStored(r)
      PROVE  IInv'
  <2>1. PICK pc \in {"accepted", "ask"} :
             Goto(r, pc) /\ (pc = "accepted" => stored = call[r].secret)
    BY <1>3 DEF ReadStored
  <2>2. UNCHANGED <<current, stored, valid>>
    BY <1>3 DEF ReadStored
  <2>3. pc = "accepted" => call[r].secret \in 0..current
    <3>1. call[r].secret # Missing
      BY SecretsAssumption DEF IInv, TypeInv, Handler
    <3>2. QED BY <2>1, <3>1 DEF IInv
  <2>4. QED BY <2>1, <2>2, <2>3, GotoHandler DEF IInv, TypeInv, Knows
<1>4. ASSUME NEW r \in Calls, AskController(r)
      PROVE  IInv'
  <2>1. /\ call' \in [Calls -> Handler]
        /\ call'[r].pc = "save" /\ call'[r].secret = call[r].secret /\ call'[r].answer = current
        /\ \A s \in Calls \ {r} : call'[s] = call[s]
    BY <1>4 DEF AskController, IInv, TypeInv, Handler
  <2>2. UNCHANGED <<current, stored, valid>>
    BY <1>4 DEF AskController
  <2>3. current \in 0..current
    BY BoundAssumption DEF IInv, TypeInv, Secret
  <2>4. QED BY <2>1, <2>2, <2>3 DEF IInv, TypeInv, Knows
<1>5. ASSUME NEW r \in Calls, AskFails(r)
      PROVE  IInv'
  BY <1>5, GotoHandler DEF AskFails, IInv, TypeInv, Knows
<1>6. ASSUME NEW r \in Calls, SaveAnswer(r)
      PROVE  IInv'
  <2>1. PICK pc \in {"accepted", "refused"} :
             /\ Goto(r, pc)
             /\ pc = "accepted" <=> call[r].answer = call[r].secret
    BY <1>6 DEF SaveAnswer
  <2>2. /\ current' = current /\ valid' = valid /\ stored' = call[r].answer
        /\ call[r].answer \in 0..current
    BY <1>6 DEF SaveAnswer, IInv, Knows
  <2>3. stored' \in Secret
    BY <2>2, BoundAssumption DEF IInv, TypeInv, Secret
  <2>4. r \in valid => pc = "accepted"
    BY <1>6, <2>1 DEF SaveAnswer, IInv, Knows
  <2>5. QED BY <2>1, <2>2, <2>3, <2>4, GotoHandler DEF IInv, TypeInv, Knows
<1>7. ASSUME NEW r \in Calls, Respond(r)
      PROVE  IInv'
  <2>1. Waiting \in Handler /\ Waiting.pc = "idle"
    BY DEF Waiting, Handler
  <2>2. /\ call' \in [Calls -> Handler] /\ call'[r] = Waiting
        /\ \A s \in Calls \ {r} : call'[s] = call[s]
    BY <1>7, <2>1 DEF Respond, IInv, TypeInv
  <2>3. QED BY <1>7, <2>1, <2>2 DEF Respond, IInv, TypeInv, Knows
<1>8. CASE UNCHANGED managementVars
  BY <1>8 DEF managementVars, IInv, TypeInv, Knows
<1>9. QED BY <1>1, <1>2, <1>3, <1>4, <1>5, <1>6, <1>7, <1>8 DEF ManagementNext

(* The inductive invariant holds in every behaviour.                       *)
THEOREM Invariance == ManagementSpec => []IInv
<1>1. ManagementInit => IInv
  BY BoundAssumption, SecretsAssumption
     DEF ManagementInit, IInv, TypeInv, Knows, Waiting, Handler, Secret
<1>2. QED BY <1>1, StepKeepsIInv, PTL DEF ManagementSpec

(* For any number of calls and rotations: a call whose secret is the       *)
(* controller's from its arrival on is not refused, and only secrets that  *)
(* the controller has made are stored or accepted (validate_shared_secret).*)
THEOREM SecretAlwaysDecides == ManagementSpec => []SecretDecides
<1>1. IInv => CurrentAccepted
  BY DEF IInv, TypeInv, Knows, CurrentAccepted
<1>2. IInv => AcceptedWasCurrent
  BY DEF IInv, Knows, AcceptedWasCurrent
<1>3. QED BY <1>1, <1>2, Invariance, PTL DEF SecretDecides
=============================================================================
