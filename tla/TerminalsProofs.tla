-------------------------- MODULE TerminalsProofs --------------------------
(***************************************************************************)
(* Safety of Terminals for any number of terminals, requests and codes.    *)
(***************************************************************************)
EXTENDS Terminals, TLAPS

CheckRec(n) == [pc : CheckPC, term : Terms \cup {None}, secret : {None} \cup (1..n), gone : BOOLEAN]

(* A request that has left "idle" and was not refused has redeemed a code, *)
(* one past its commit has a row or had one, one before it never had.      *)
Paired(t) ==
    /\ pair[t] \notin {"idle", "refused"} \/ token[t] # None => redeemed[t] # 0
    /\ pair[t] \in {"ensure", "create", "done"} \/ token[t] # None => t \in terminals \cup deleted
    /\ pair[t] \in {"idle", "remove", "insert", "commit"} =>
            t \notin terminals \cup deleted \cup settled
    /\ pair[t] \in {"idle", "remove", "insert"} => t \notin first
    /\ pair[t] \in {"ensure", "create"} => t \notin settled

(* What a request with a token may count on.                               *)
Checking(k) ==
    /\ check[k].term # None => token[check[k].term] # None
    /\ check[k].pc \in {"lookup", "granted"} => check[k].term # None
    /\ check[k].gone => check[k].term \in deleted
    /\ check[k].pc = "granted" => ~check[k].gone

(* Somebody has found no secret and is about to store a new one.           *)
Creating == (\E t \in Terms : PairAt(t, "create")) \/ (\E k \in Checks : CheckAt(k, "create"))

(* Once a token is settled the secret exists and nobody replaces it.       *)
Settled ==
    settled # {} =>
        /\ secret # None /\ ~Creating
        /\ \A t \in settled : token[t] = secret

(* A pairing past its commit is the first one, if there ever was a         *)
(* committed row, or one about to be that did not see itself as the first. *)
FirstKnown ==
    terminals # {} \/ (\E t \in Terms : PairAt(t, "commit") /\ t \notin first) =>
        \E u \in first : ~PairAt(u, "commit")

IInv ==
    /\ TypeOK
    /\ \A t \in Terms : Paired(t)
    /\ terminals \cap deleted = {}
    /\ \A k \in Checks : Checking(k)
    /\ Settled
    /\ FirstKnown

-----------------------------------------------------------------------------
(* Every step keeps the types.                                             *)
LEMMA TypeKept ==
    ASSUME TypeOK, Next
    PROVE  TypeOK'
<1> USE NamesAssumption, IssuedAssumption
<1>1. ASSUME NEW c \in Codes, MakePairingCode(c)
      PROVE  TypeOK'
  BY <1>1 DEF MakePairingCode, TypeOK, secretVars, historyVars
<1>2. CASE Expire
  BY <1>2 DEF Expire, TypeOK, secretVars, historyVars
<1>3. ASSUME NEW t \in Terms, NEW c \in Codes, Redeem(t, c)
      PROVE  TypeOK'
  BY <1>3 DEF Redeem, Accepts, PairGoto, PairPC, TypeOK, codeVars, secretVars
<1>4. ASSUME NEW t \in Terms,
             \/ RemoveCode(t) \/ Insert(t) \/ Commit(t) \/ MissSecret(t)
             \/ PairAborts(t) \/ DeleteTerminal(t)
      PROVE  TypeOK'
  BY <1>4 DEF RemoveCode, Insert, Commit, MissSecret, PairAborts, DeleteTerminal, PairGoto, PairPC,
     TypeOK, codeVars, secretVars, historyVars
<1>5. ASSUME NEW t \in Terms, SignStored(t)
      PROVE  TypeOK'
  BY <1>5 DEF SignStored, Settles, PairGoto, PairPC, TypeOK, codeVars, secretVars
<1>6. secrets \in Nat /\ 1..secrets \subseteq 1..(secrets + 1) /\ secrets + 1 \in 1..(secrets + 1)
  BY DEF TypeOK
<1>7. CheckRec(secrets) \subseteq CheckRec(secrets + 1)
  BY <1>6 DEF CheckRec
<1>8. ASSUME NEW t \in Terms, SignNew(t)
      PROVE  TypeOK'
  <2>1. check' \in [Checks -> CheckRec(secrets + 1)] /\ secrets' = secrets + 1
    BY <1>7, <1>8 DEF SignNew, NewSecret, TypeOK, CheckRec, historyVars
  <2>2. QED BY <1>6, <1>8, <2>1 DEF SignNew, NewSecret, Settles, PairGoto, PairPC, TypeOK, CheckRec,
            codeVars, historyVars
<1>9. ASSUME NEW k \in Checks, StoreSecret(k)
      PROVE  TypeOK'
  <2>1. check \in [Checks -> CheckRec(secrets + 1)] /\ secrets' = secrets + 1
    BY <1>7, <1>9 DEF StoreSecret, NewSecret, TypeOK, CheckRec
  <2>2. check' \in [Checks -> CheckRec(secrets + 1)]
    BY <1>6, <1>9, <2>1 DEF StoreSecret, CheckRec, CheckPC
  <2>3. QED BY <1>6, <1>9, <2>1, <2>2 DEF StoreSecret, NewSecret, TypeOK, CheckRec,
            codeVars, historyVars
<1>10. ASSUME NEW k \in Checks, NEW t \in Terms \cup {None}, Arrive(k, t)
       PROVE  TypeOK'
  <2>1. [pc |-> "ensure", term |-> t, secret |-> None, gone |-> t \in deleted] \in CheckRec(secrets)
    BY DEF CheckRec, CheckPC
  <2>2. check' \in [Checks -> CheckRec(secrets)]
    BY <1>10, <2>1 DEF Arrive, TypeOK, CheckRec
  <2>3. QED BY <1>10, <2>2 DEF Arrive, TypeOK, CheckRec, codeVars, secretVars, historyVars
<1>11. ASSUME NEW k \in Checks, ReadSecret(k) \/ Decode(k) \/ Lookup(k) \/ Answer(k)
       PROVE  TypeOK'
  <2>1. check \in [Checks -> CheckRec(secrets)] /\ NoCheck \in CheckRec(secrets)
    BY DEF TypeOK, CheckRec, NoCheck, CheckPC
  <2>2. CASE ReadSecret(k)
    <3>1. secret = None \/ secret \in 1..secrets
      BY DEF TypeOK
    <3>2. check' \in [Checks -> CheckRec(secrets)]
      BY <2>1, <2>2, <3>1 DEF ReadSecret, CheckRec, CheckPC
    <3>3. QED BY <2>2, <3>2 DEF ReadSecret, TypeOK, CheckRec, codeVars, secretVars, historyVars
  <2>3. CASE Decode(k) \/ Lookup(k)
    <3>1. check' \in [Checks -> CheckRec(secrets)]
      BY <2>1, <2>3 DEF Decode, Lookup, CheckGoto, CheckRec, CheckPC
    <3>2. QED BY <2>3, <3>1 DEF Decode, Lookup, TypeOK, CheckRec, codeVars, secretVars, historyVars
  <2>4. CASE Answer(k)
    <3>1. check' \in [Checks -> CheckRec(secrets)]
      BY <2>1, <2>4 DEF Answer
    <3>2. QED BY <2>4, <3>1 DEF Answer, TypeOK, CheckRec, codeVars, secretVars, historyVars
  <2>5. QED BY <1>11, <2>2, <2>3, <2>4
<1>12. QED BY <1>1, <1>2, <1>3, <1>4, <1>5, <1>8, <1>9, <1>10, <1>11 DEF Next

-----------------------------------------------------------------------------
(* A pairing that was not refused has redeemed a code, and rows, deletions *)
(* and settled tokens belong to pairings past their commit.                *)
LEMMA PairedKept ==
    ASSUME IInv, Next, NEW t \in Terms
    PROVE  Paired(t)'
<1> USE DEF IInv, Paired, TypeOK, PairAt, PairGoto, codeVars, secretVars, historyVars
<1>1. ASSUME NEW c \in Codes, MakePairingCode(c)
      PROVE  Paired(t)'
  BY <1>1 DEF MakePairingCode
<1>2. CASE Expire
  BY <1>2 DEF Expire
<1>3. ASSUME NEW u \in Terms, NEW c \in Codes, Redeem(u, c)
      PROVE  Paired(t)'
  <2>1. Accepts(c) => stored.issue # 0
    BY DEF Accepts
  <2>2. QED BY <1>3, <2>1 DEF Redeem
<1>4. ASSUME NEW u \in Terms, RemoveCode(u) \/ Insert(u) \/ Commit(u)
      PROVE  Paired(t)'
  BY <1>4 DEF RemoveCode, Insert, Commit
<1>5. ASSUME NEW u \in Terms, MissSecret(u) \/ PairAborts(u) \/ DeleteTerminal(u)
      PROVE  Paired(t)'
  BY <1>5 DEF MissSecret, PairAborts, DeleteTerminal
<1>6. ASSUME NEW u \in Terms, SignStored(u) \/ SignNew(u)
      PROVE  Paired(t)'
  BY <1>6 DEF SignStored, SignNew, Settles
<1>7. ASSUME NEW k \in Checks,
             \/ \E u \in Terms \cup {None} : Arrive(k, u)
             \/ ReadSecret(k) \/ StoreSecret(k) \/ Decode(k) \/ Lookup(k) \/ Answer(k)
      PROVE  Paired(t)'
  BY <1>7 DEF Arrive, ReadSecret, StoreSecret, Decode, Lookup, Answer
<1>8. QED BY <1>1, <1>2, <1>3, <1>4, <1>5, <1>6, <1>7 DEF Next

(* No terminal is both there and deleted: a row is inserted once.          *)
LEMMA DeletedKept ==
    ASSUME IInv, Next
    PROVE  (terminals \cap deleted = {})'
<1>1. CASE UNCHANGED <<terminals, deleted>>
  BY <1>1 DEF IInv
<1>2. ASSUME NEW t \in Terms, Commit(t) \/ DeleteTerminal(t)
      PROVE  (terminals \cap deleted = {})'
  BY <1>2 DEF IInv, Paired, Commit, DeleteTerminal, PairAt, historyVars
<1>3. QED BY <1>1, <1>2 DEF Next, MakePairingCode, Expire, Redeem, RemoveCode, Insert, SignStored,
       MissSecret, SignNew, PairAborts, Arrive, ReadSecret, StoreSecret, Decode, Lookup, Answer,
       historyVars

(* Tokens are made once and never unmade, and deletions are not undone.    *)
LEMMA Monotone ==
    ASSUME IInv, Next
    PROVE  /\ \A t \in Terms : token[t] # None => token'[t] # None
           /\ deleted \subseteq deleted'
<1>1. ASSUME NEW t \in Terms, SignStored(t) \/ SignNew(t)
      PROVE  \A u \in Terms : token[u] # None => token'[u] # None
  BY <1>1, NamesAssumption DEF IInv, TypeOK, SignStored, SignNew
<1>2. CASE token' = token
  BY <1>2 DEF Next, MakePairingCode, Expire, Redeem, RemoveCode, Insert, Commit, SignStored,
     MissSecret, SignNew, PairAborts, DeleteTerminal, Arrive, ReadSecret, StoreSecret, Decode,
     Lookup, Answer, historyVars
<1>3. QED BY <1>1, <1>2 DEF Next, MakePairingCode, Expire, Redeem, RemoveCode, Insert, Commit,
       SignStored, MissSecret, SignNew, PairAborts, DeleteTerminal, Arrive, ReadSecret,
       StoreSecret, Decode, Lookup, Answer, historyVars

(* verify_terminal_jwt lets in only who has a row, so nobody who was       *)
(* deleted before.                                                         *)
LEMMA CheckingKept ==
    ASSUME IInv, Next, NEW k \in Checks
    PROVE  Checking(k)'
<1>1. /\ \A t \in Terms : token[t] # None => token'[t] # None
      /\ deleted \subseteq deleted'
  BY Monotone
<1>2. check \in [Checks -> CheckRec(secrets)] /\ Checking(k)
  BY DEF IInv, TypeOK, CheckRec
<1>3. CASE check'[k] = check[k]
  BY <1>1, <1>2, <1>3 DEF Checking, CheckRec
<1>4. ASSUME NEW t \in Terms \cup {None}, Arrive(k, t)
      PROVE  Checking(k)'
  BY <1>2, <1>4 DEF Arrive, Checking, historyVars, IInv, TypeOK
<1>5. CASE ReadSecret(k) \/ StoreSecret(k)
  BY <1>1, <1>2, <1>5 DEF ReadSecret, StoreSecret, Checking, CheckRec, historyVars
<1>6. CASE Decode(k)
  BY <1>2, <1>6 DEF Decode, CheckGoto, Checking, CheckRec, historyVars
<1>7. CASE Lookup(k)
  BY <1>2, <1>7 DEF Lookup, CheckGoto, CheckAt, Checking, CheckRec, historyVars, IInv
<1>8. CASE Answer(k)
  BY <1>2, <1>8 DEF Answer, NoCheck, Checking, CheckRec
<1>9. ASSUME NEW j \in Checks \ {k},
             \/ \E u \in Terms \cup {None} : Arrive(j, u)
             \/ ReadSecret(j) \/ StoreSecret(j) \/ Decode(j) \/ Lookup(j) \/ Answer(j)
      PROVE  check'[k] = check[k]
  BY <1>2, <1>9 DEF Arrive, ReadSecret, StoreSecret, Decode, Lookup, Answer, CheckGoto
<1>10. CASE UNCHANGED check
  BY <1>3, <1>10
<1>11. QED BY <1>3, <1>4, <1>5, <1>6, <1>7, <1>8, <1>9, <1>10
        DEF Next, MakePairingCode, Expire, Redeem, RemoveCode, Insert, Commit, SignStored,
            MissSecret, SignNew, PairAborts, DeleteTerminal

(* A settled token outlives every later step: the secret is there, nobody  *)
(* is about to make one, and nobody can begin to.                          *)
LEMMA SettledKept ==
    ASSUME IInv, Next
    PROVE  Settled'
<1> USE DEF IInv, TypeOK, Settled, Creating, PairAt, CheckAt
<1>1. ASSUME NEW t \in Terms, SignStored(t)
      PROVE  Settled'
  <2>1. CASE OthersCreating(t)
    <3>1. settled = {} /\ settled' = settled
      BY <1>1, <2>1 DEF SignStored, Settles, OthersCreating
    <3>2. QED BY <3>1
  <2>2. CASE ~OthersCreating(t)
    <3>1. secret' = secret /\ check' = check /\ secret # None
      BY <1>1 DEF SignStored, secretVars
    <3>2. ~Creating'
      BY <1>1, <2>2, <3>1 DEF SignStored, PairGoto, OthersCreating
    <3>3. \A u \in settled' : token'[u] = secret
      BY <1>1, <2>2 DEF SignStored, Settles
    <3>4. QED BY <3>1, <3>2, <3>3
  <2>3. QED BY <2>1, <2>2
<1>2. ASSUME NEW t \in Terms, SignNew(t)
      PROVE  Settled'
  <2>1. settled = {}
    BY <1>2 DEF SignNew
  <2>2. CASE OthersCreating(t)
    <3>1. settled' = {}
      BY <1>2, <2>1, <2>2 DEF SignNew, Settles
    <3>2. QED BY <3>1
  <2>3. CASE ~OthersCreating(t)
    <3>1. secret' = secrets + 1 /\ check' = check /\ settled' = {t} /\ token'[t] = secrets + 1
      BY <1>2, <2>1, <2>3 DEF SignNew, NewSecret, Settles
    <3>2. ~Creating'
      BY <1>2, <2>3, <3>1 DEF SignNew, PairGoto, OthersCreating
    <3>3. secrets + 1 # None
      BY NamesAssumption
    <3>4. QED BY <3>1, <3>2, <3>3
  <2>4. QED BY <2>2, <2>3
<1>3. ASSUME NEW k \in Checks, StoreSecret(k)
      PROVE  Settled'
  <2>1. settled = {} /\ settled' = settled
    BY <1>3 DEF StoreSecret, historyVars
  <2>2. QED BY <2>1
<1>4. ASSUME NEW t \in Terms, MissSecret(t)
      PROVE  Settled'
  <2>1. settled = {} /\ settled' = settled
    BY <1>4 DEF MissSecret, historyVars
  <2>2. QED BY <2>1
<1>5. ASSUME UNCHANGED <<secret, token, settled>>, Creating' => Creating
      PROVE  Settled'
  BY <1>5
<1>6. ASSUME NEW c \in Codes, MakePairingCode(c)
      PROVE  Settled'
  BY <1>5, <1>6 DEF MakePairingCode, secretVars, historyVars
<1>7. CASE Expire
  BY <1>5, <1>7 DEF Expire, secretVars, historyVars
<1>8. ASSUME NEW t \in Terms, NEW c \in Codes, Redeem(t, c)
      PROVE  Settled'
  BY <1>5, <1>8 DEF Redeem, PairGoto, secretVars
<1>9. ASSUME NEW t \in Terms,
             RemoveCode(t) \/ Insert(t) \/ Commit(t) \/ PairAborts(t) \/ DeleteTerminal(t)
      PROVE  Settled'
  BY <1>5, <1>9 DEF RemoveCode, Insert, Commit, PairAborts, DeleteTerminal, PairGoto,
     secretVars, historyVars
<1>10. ASSUME NEW k \in Checks, NEW t \in Terms \cup {None}, Arrive(k, t)
       PROVE  Settled'
  BY <1>5, <1>10 DEF Arrive, secretVars, historyVars
<1>11. ASSUME NEW k \in Checks, ReadSecret(k)
       PROVE  Settled'
  BY <1>5, <1>11 DEF ReadSecret, secretVars, historyVars
<1>12. ASSUME NEW k \in Checks, Decode(k) \/ Lookup(k) \/ Answer(k)
       PROVE  Settled'
  BY <1>5, <1>12 DEF Decode, Lookup, Answer, CheckGoto, NoCheck, secretVars, historyVars
<1>13. QED BY <1>1, <1>2, <1>3, <1>4, <1>6, <1>7, <1>8, <1>9, <1>10, <1>11, <1>12 DEF Next

(* Somebody past its commit saw itself as the first terminal: a rollback   *)
(* takes back only what was not committed.                                 *)
LEMMA FirstKept ==
    ASSUME IInv, Next
    PROVE  FirstKnown'
<1> USE DEF IInv, TypeOK, FirstKnown, Paired, PairAt
<1>1. ASSUME NEW t \in Terms, NEW c \in Codes, Redeem(t, c)
      PROVE  FirstKnown'
  BY <1>1 DEF Redeem, PairGoto
<1>2. ASSUME NEW t \in Terms, RemoveCode(t) \/ MissSecret(t) \/ SignStored(t) \/ SignNew(t)
      PROVE  FirstKnown'
  BY <1>2 DEF RemoveCode, MissSecret, SignStored, SignNew, PairGoto, historyVars
<1>3. ASSUME NEW t \in Terms, Insert(t)
      PROVE  FirstKnown'
  BY <1>3 DEF Insert, PairGoto
<1>4. ASSUME NEW t \in Terms, Commit(t)
      PROVE  FirstKnown'
  BY <1>4 DEF Commit, PairGoto, historyVars
<1>5. ASSUME NEW t \in Terms, PairAborts(t)
      PROVE  FirstKnown'
  BY <1>5 DEF PairAborts, PairGoto
<1>6. ASSUME NEW t \in Terms, DeleteTerminal(t)
      PROVE  FirstKnown'
  BY <1>6 DEF DeleteTerminal
<1>7. CASE UNCHANGED <<terminals, pair, first>>
  BY <1>7
<1>8. QED BY <1>1, <1>2, <1>3, <1>4, <1>5, <1>6, <1>7
       DEF Next, MakePairingCode, Expire, Arrive, ReadSecret, StoreSecret, Decode, Lookup,
           Answer, historyVars

(* The inductive invariant holds in every behaviour.                       *)
THEOREM Invariance == Spec => []IInv
<1>1. Init => IInv
  BY NamesAssumption, IssuedAssumption
     DEF Init, IInv, TypeOK, Paired, Checking, Settled, FirstKnown, PairPC, CheckPC, NoCheck, PairAt
<1>2. ASSUME IInv, [Next]_vars
      PROVE  IInv'
  <2>1. CASE Next
    BY <1>2, <2>1, TypeKept, PairedKept, DeletedKept, CheckingKept, SettledKept, FirstKept
       DEF IInv
  <2>2. CASE UNCHANGED vars
    BY <1>2, <2>2 DEF vars, IInv, TypeOK, Paired, Checking, Settled, FirstKnown, Creating,
       PairAt, CheckAt
  <2>3. QED BY <1>2, <2>1, <2>2
<1>3. QED BY <1>1, <1>2, PTL DEF Spec

(* verify_terminal_jwt lets in only terminals that were paired with a code *)
(* and were not deleted before they asked.                                 *)
THEOREM OnlyPairedGranted == Spec => []GrantedRightly
<1>1. IInv => DeletedStaysOut
  BY DEF IInv, Checking, DeletedStaysOut, CheckAt
<1>2. IInv => GrantedWasPaired
  <2> SUFFICES ASSUME IInv, NEW k \in Checks, check[k].pc = "granted"
               PROVE  /\ check[k].term \in terminals \cup deleted
                      /\ redeemed[check[k].term] # 0
    BY DEF GrantedWasPaired, CheckAt
  <2>1. check[k].term \in Terms /\ token[check[k].term] # None
    BY DEF IInv, TypeOK, Checking
  <2>2. QED BY <2>1 DEF IInv, Paired
<1>3. QED BY <1>1, <1>2, Invariance, PTL DEF GrantedRightly

(* Tokens signed while nobody else was creating a secret stay valid.            *)
THEOREM SettledStayValid == Spec => []SettledTokensValid
<1>1. IInv => SettledTokensValid
  BY DEF IInv, Settled, SettledTokensValid
<1>2. QED BY <1>1, Invariance, PTL

(* If there is a terminal, some pairing has seen itself as the first one.  *)
THEOREM FirstAlwaysNoticed == Spec => []FirstNoticed
<1>1. IInv => FirstNoticed
  BY DEF IInv, FirstKnown, FirstNoticed
<1>2. QED BY <1>1, Invariance, PTL

-----------------------------------------------------------------------------
(* Codes are numbered as they are made: no number that was redeemed, and   *)
(* no number that is stored, is ahead of the last one made.                *)
Numbered ==
    /\ \A t \in Terms : redeemed[t] <= issued
    /\ stored # None => stored.issue <= issued

(* The numbers stay in order, and a request removes the code before it     *)
(* goes on: what is stored afterwards has a higher number.                 *)
LEMMA SpentKept ==
    ASSUME TypeOK, TypeOK', Numbered, CodeSpent, Next
    PROVE  Numbered' /\ CodeSpent'
<1> USE NamesAssumption, IssuedAssumption
        DEF TypeOK, Numbered, CodeSpent, PairAt, PairGoto, codeVars, secretVars, historyVars
<1>1. ASSUME NEW c \in Codes, MakePairingCode(c)
      PROVE  Numbered' /\ CodeSpent'
  <2>1. /\ issued' = issued + 1 /\ stored'.issue = issued + 1
        /\ pair' = pair /\ redeemed' = redeemed
    BY <1>1 DEF MakePairingCode
  <2>2. QED BY <2>1
<1>2. CASE Expire
  <2>1. stored # None /\ stored'.issue = stored.issue
    BY <1>2 DEF Expire
  <2>2. QED BY <1>2, <2>1 DEF Expire
<1>3. ASSUME NEW t \in Terms, NEW c \in Codes, Redeem(t, c)
      PROVE  Numbered' /\ CodeSpent'
  <2>1. Accepts(c) => stored # None
    BY DEF Accepts
  <2>2. QED BY <1>3, <2>1 DEF Redeem
<1>4. ASSUME NEW t \in Terms, RemoveCode(t)
      PROVE  Numbered' /\ CodeSpent'
  BY <1>4 DEF RemoveCode
<1>5. ASSUME UNCHANGED <<stored, issued, redeemed>>,
             \A t \in Terms : pair'[t] \in {"insert", "commit", "ensure", "create", "done"} =>
                 pair[t] \in {"insert", "commit", "ensure", "create", "done"}
      PROVE  Numbered' /\ CodeSpent'
  BY <1>5
<1>6. ASSUME NEW t \in Terms,
             \/ Insert(t) \/ Commit(t) \/ SignStored(t) \/ MissSecret(t) \/ SignNew(t)
             \/ PairAborts(t) \/ DeleteTerminal(t)
      PROVE  Numbered' /\ CodeSpent'
  BY <1>5, <1>6
     DEF Insert, Commit, SignStored, MissSecret, SignNew, PairAborts, DeleteTerminal
<1>7. ASSUME NEW k \in Checks,
             \/ \E t \in Terms \cup {None} : Arrive(k, t)
             \/ ReadSecret(k) \/ StoreSecret(k) \/ Decode(k) \/ Lookup(k) \/ Answer(k)
      PROVE  Numbered' /\ CodeSpent'
  BY <1>5, <1>7 DEF Arrive, ReadSecret, StoreSecret, Decode, Lookup, Answer
<1>8. QED BY <1>1, <1>2, <1>3, <1>4, <1>6, <1>7 DEF Next

(* No code is stored any more that a request past its removal redeemed.    *)
THEOREM CodesAreSpent == Spec => []CodeSpent
<1>1. Init => Numbered /\ CodeSpent
  BY IssuedAssumption DEF Init, Numbered, CodeSpent
<1>2. ASSUME IInv, IInv', Numbered, CodeSpent, [Next]_vars
      PROVE  Numbered' /\ CodeSpent'
  <2>1. CASE Next
    BY <1>2, <2>1, SpentKept DEF IInv
  <2>2. CASE UNCHANGED vars
    BY <1>2, <2>2 DEF vars, Numbered, CodeSpent
  <2>3. QED BY <1>2, <2>1, <2>2
<1>3. QED BY <1>1, <1>2, Invariance, PTL DEF Spec
=============================================================================
