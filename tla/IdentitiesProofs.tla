-------------------------- MODULE IdentitiesProofs --------------------------
(***************************************************************************)
(* Safety of Identities for any number of identities, of concurrent        *)
(* requests and of /auth requests that fill the cache, and of Avatars for  *)
(* any names that requests may give for an identity.                       *)
(***************************************************************************)
EXTENDS Identities, Avatars, FiniteSetTheorems, TLAPS

Request == [pc : ReqPC, id : Ids \cup {NoId}, last : Ids \cup {NoId}]

Fill == [pc : {"idle", "store"}, seen : Ids \cup {NoId}, late : BOOLEAN]

(* A change that is committed and not announced yet.                       *)
Unannounced == \E r \in Reqs : At(r, "signal")

(* make_default has read two ids, and past its check the new one exists.   *)
Checked(r) ==
    /\ InMakeDefault(r) => req[r].id \in Ids /\ req[r].last \in Ids
    /\ req[r].pc \in {"clear", "set", "commit"} => rows[req[r].id] # "absent"

(* Without a clash the one make_default under way has read the default.    *)
Alone ==
    ~clashed => \A r \in Reqs : InMakeDefault(r) =>
        /\ Defaults = {req[r].last}
        /\ \A s \in Reqs : InMakeDefault(s) => s = r

(* What a fill is about to store is the default, or known to be late.      *)
Fresh(k) ==
    fill[k].pc = "store" =>
        /\ fill[k].seen \in Ids
        /\ rows[fill[k].seen] # "default" => fill[k].late \/ Unannounced

IInv ==
    /\ IdentitiesTypeOK
    /\ \A r \in Reqs : Checked(r)
    /\ DefaultExists
    /\ SingleUnlessClash
    /\ Alone
    /\ \A k \in Fills : Fresh(k)
    /\ CacheFollows

-----------------------------------------------------------------------------
(* Moving a request to its next statement changes only its pc.             *)
LEMMA GotoType ==
    ASSUME IdentitiesTypeOK, NEW r \in Reqs, NEW pc \in ReqPC, Goto(r, pc)
    PROVE  /\ req' \in [Reqs -> Request]
           /\ req'[r].pc = pc
           /\ \A s \in Reqs \ {r} : req'[s] = req[s]
<1>1. req \in [Reqs -> Request]
  BY DEF IdentitiesTypeOK, Request
<1>2. [req[r] EXCEPT !.pc = pc] \in Request
  BY <1>1 DEF Request
<1>3. QED BY <1>1, <1>2 DEF Goto

(* A step that leaves table, cache and fills alone and does not end an     *)
(* announcement keeps what is said about them.                             *)
LEMMA TableKept ==
    ASSUME IInv, NEW r \in Reqs, UNCHANGED <<rows, cache, fill, late>>,
           ~At(r, "signal"), \A s \in Reqs \ {r} : req'[s] = req[s]
    PROVE  /\ Defaults' = Defaults /\ DefaultExists'
           /\ \A k \in Fills : Fresh(k)'
           /\ CacheFollows'
<1>1. Defaults' = Defaults
  BY DEF Defaults
<1>2. Unannounced => Unannounced'
  BY DEF Unannounced, At
<1>3. QED BY <1>1, <1>2 DEF IInv, DefaultExists, Fresh, CacheFollows, Unannounced

(* A request that is not about to change the table moves on.               *)
LEMMA MoveKeeps ==
    ASSUME IInv, NEW r \in Reqs, NEW q \in Request, ~At(r, "signal"),
           req' = [req EXCEPT ![r] = q],
           UNCHANGED <<rows, cache, fill, clashed, late>>,
           q.pc \in {"check", "clear", "set", "commit"} =>
               /\ InMakeDefault(r) /\ q.id = req[r].id /\ q.last = req[r].last
               /\ q.pc # "check" => rows[q.id] # "absent",
           lock' \in [Ids -> Reqs \cup {NoId}],
           \A i \in Ids : lock'[i] # NoId => req'[lock'[i]].pc \in {"set", "commit"}
    PROVE  IInv'
<1>1. /\ req' \in [Reqs -> Request] /\ req'[r] = q
      /\ \A s \in Reqs \ {r} : req'[s] = req[s]
  BY DEF IInv, IdentitiesTypeOK, Request
<1>2. IdentitiesTypeOK'
  BY <1>1 DEF IInv, IdentitiesTypeOK, Request
<1>3. \A s \in Reqs : Checked(s)'
  BY <1>1 DEF IInv, Checked, InMakeDefault
<1>4. /\ Defaults' = Defaults /\ DefaultExists'
      /\ \A k \in Fills : Fresh(k)'
      /\ CacheFollows'
  BY <1>1, TableKept
<1>5. SingleUnlessClash'
  BY <1>4 DEF IInv, SingleUnlessClash
<1>6. \A s \in Reqs : InMakeDefault(s)' => InMakeDefault(s) /\ req'[s].last = req[s].last
  BY <1>1 DEF InMakeDefault
<1>7. Alone'
  BY <1>4, <1>6 DEF IInv, Alone
<1>8. QED BY <1>2, <1>3, <1>4, <1>5, <1>7 DEF IInv

(* Unlock gives back the locks of the request that ends, and only those.   *)
LEMMA UnlockType ==
    ASSUME IInv, NEW r \in Reqs, Unlock(r), \A s \in Reqs \ {r} : req'[s] = req[s]
    PROVE  /\ lock' \in [Ids -> Reqs \cup {NoId}]
           /\ \A i \in Ids : lock'[i] # NoId => req'[lock'[i]].pc \in {"set", "commit"}
  BY InitialAssumption DEF IInv, IdentitiesTypeOK, Unlock

(* So does Lock take one for it.                                           *)
LEMMA LockType ==
    ASSUME IInv, NEW r \in Reqs, NEW i \in Ids, Lock(r, i),
           \A s \in Reqs \ {r} : req'[s] = req[s],
           req'[r].pc \in {"set", "commit"}
    PROVE  /\ lock' \in [Ids -> Reqs \cup {NoId}]
           /\ \A j \in Ids : lock'[j] # NoId => req'[lock'[j]].pc \in {"set", "commit"}
  BY DEF IInv, IdentitiesTypeOK, Lock

-----------------------------------------------------------------------------
(* make_default reads the default and keeps the invariant: unless another  *)
(* one is under way, what it reads is the only default.                    *)
LEMMA ReadDefaultKeeps ==
    ASSUME IInv, NEW r \in Reqs, NEW id \in Ids, ReadDefault(r, id)
    PROVE  IInv'
<1>1. PICK d \in Defaults : req' = [req EXCEPT ![r] = [pc |-> "check", id |-> id, last |-> d]]
  BY DEF ReadDefault
<1> DEFINE q == [pc |-> "check", id |-> id, last |-> d]
<1>2. d \in Ids /\ q \in Request
  BY <1>1 DEF Defaults, Request, ReqPC
<1>3. /\ req' \in [Reqs -> Request] /\ req'[r] = q
      /\ \A s \in Reqs \ {r} : req'[s] = req[s]
  BY <1>1, <1>2 DEF IInv, IdentitiesTypeOK, Request
<1>4. /\ At(r, "idle") /\ UNCHANGED <<rows, lock, cache, fill, late>>
      /\ clashed' = (clashed \/ \E s \in Reqs : InMakeDefault(s))
  BY DEF ReadDefault
<1>5. IdentitiesTypeOK'
  <2>1. \A i \in Ids : lock'[i] # NoId => req'[lock'[i]].pc \in {"set", "commit"}
    BY <1>3, <1>4 DEF IInv, IdentitiesTypeOK, At
  <2>2. clashed' \in BOOLEAN
    BY <1>4
  <2>3. QED BY <1>3, <1>4, <2>1, <2>2 DEF IInv, IdentitiesTypeOK, Request
<1>6. \A s \in Reqs : Checked(s)'
  BY <1>2, <1>3, <1>4 DEF IInv, Checked, InMakeDefault
<1>7. /\ Defaults' = Defaults /\ DefaultExists'
      /\ \A k \in Fills : Fresh(k)'
      /\ CacheFollows'
  BY <1>3, <1>4, TableKept DEF At
<1>8. SingleUnlessClash'
  BY <1>4, <1>7 DEF IInv, SingleUnlessClash
<1>9. Alone'
  <2> SUFFICES ASSUME ~clashed'
               PROVE  \A s \in Reqs : InMakeDefault(s)' =>
                          /\ Defaults' = {req'[s].last}
                          /\ \A t \in Reqs : InMakeDefault(t)' => t = s
    BY DEF Alone
  <2>1. ~clashed /\ \A s \in Reqs : ~InMakeDefault(s)
    BY <1>4
  <2>2. \A s \in Reqs \ {r} : ~InMakeDefault(s)'
    BY <1>3, <2>1 DEF InMakeDefault
  <2>3. Defaults = {d}
    BY <1>1, <2>1 DEF IInv, SingleUnlessClash
  <2>4. QED BY <1>3, <1>7, <2>2, <2>3
<1>10. QED BY <1>5, <1>6, <1>7, <1>8, <1>9 DEF IInv

(* The commit of make_default keeps the invariant: the new default exists, *)
(* and it is the only one if the old one was.                              *)
LEMMA CommitKeeps ==
    ASSUME IInv, NEW r \in Reqs, CommitChange(r)
    PROVE  IInv'
<1> DEFINE id == req[r].id
           last == req[r].last
<1>1. /\ id \in Ids /\ last \in Ids /\ rows[id] # "absent" /\ InMakeDefault(r)
      /\ UNCHANGED <<cache, fill, clashed, late>>
  BY DEF CommitChange, At, IInv, Checked, InMakeDefault
<1>2. /\ req' \in [Reqs -> Request]
      /\ req'[r].pc = "signal"
      /\ \A s \in Reqs \ {r} : req'[s] = req[s]
  BY GotoType DEF CommitChange, IInv, ReqPC
<1>3. /\ rows' \in [Ids -> {"absent", "plain", "default"}]
      /\ rows'[id] = "default"
      /\ \A i \in Ids : rows'[i] = "default" => i = id \/ (rows[i] = "default" /\ i # last)
      /\ \A i \in Ids : rows[i] # "absent" => rows'[i] # "absent"
  <2>1. /\ rows \in [Ids -> {"absent", "plain", "default"}]
        /\ rows' = [i \in Ids |-> CASE i = id -> Updated(i, "default")
                                    [] i = last /\ i # id -> Updated(i, "plain")
                                    [] OTHER -> rows[i]]
    BY DEF CommitChange, Swap, IInv, IdentitiesTypeOK
  <2>2. QED BY <1>1, <2>1 DEF Updated
<1>4. IdentitiesTypeOK'
  <2>1. Unlock(r)
    BY DEF CommitChange
  <2>2. /\ lock' \in [Ids -> Reqs \cup {NoId}]
        /\ \A i \in Ids : lock'[i] # NoId => req'[lock'[i]].pc \in {"set", "commit"}
    BY <1>2, <2>1, UnlockType
  <2>3. QED BY <1>1, <1>2, <1>3, <2>2 DEF IInv, IdentitiesTypeOK, Request
<1>5. \A s \in Reqs : Checked(s)'
  BY <1>2, <1>3 DEF IInv, Checked, InMakeDefault
<1>6. DefaultExists'
  BY <1>1, <1>3 DEF DefaultExists, Defaults
<1>7. ~clashed => Defaults' = {id} /\ \A s \in Reqs : ~InMakeDefault(s)'
  <2> SUFFICES ASSUME ~clashed
               PROVE  Defaults' = {id} /\ \A s \in Reqs : ~InMakeDefault(s)'
    OBVIOUS
  <2>1. Defaults = {last} /\ \A s \in Reqs : InMakeDefault(s) => s = r
    BY <1>1 DEF IInv, Alone
  <2>2. \A i \in Ids : rows[i] = "default" => i = last
    BY <2>1 DEF Defaults
  <2>3. Defaults' = {id}
    BY <1>1, <1>3, <2>2 DEF Defaults
  <2>4. \A s \in Reqs : ~InMakeDefault(s)'
    BY <1>2, <2>1 DEF InMakeDefault
  <2>5. QED BY <2>3, <2>4
<1>8. SingleUnlessClash' /\ Alone'
  BY <1>1, <1>7 DEF SingleUnlessClash, Alone
<1>9. Unannounced'
  BY <1>2 DEF Unannounced, At
<1>10. CacheFollows' /\ \A k \in Fills : Fresh(k)'
  BY <1>1, <1>9 DEF CacheFollows, Fresh, IInv, Unannounced
<1>11. QED BY <1>4, <1>5, <1>6, <1>8, <1>10 DEF IInv

(* The announcement empties the cache, and what fills have read is late.   *)
LEMMA SignalKeeps ==
    ASSUME IInv, NEW r \in Reqs, Signal(r)
    PROVE  IInv'
<1>1. /\ req' \in [Reqs -> Request]
      /\ req'[r].pc = "idle"
      /\ \A s \in Reqs \ {r} : req'[s] = req[s]
  BY GotoType DEF Signal, IInv, ReqPC
<1>2. /\ UNCHANGED <<rows, lock, clashed>> /\ cache' = NoId /\ late' = FALSE
      /\ At(r, "signal")
  BY DEF Signal
<1>3. /\ fill' \in [Fills -> Fill]
      /\ \A k \in Fills : /\ fill'[k].pc = fill[k].pc /\ fill'[k].seen = fill[k].seen
                          /\ fill'[k].late = (fill[k].pc = "store")
  BY DEF Signal, IInv, IdentitiesTypeOK, Fill
<1>4. IdentitiesTypeOK'
  <2>1. \A i \in Ids : lock'[i] # NoId => req'[lock'[i]].pc \in {"set", "commit"}
    BY <1>1, <1>2 DEF IInv, IdentitiesTypeOK, At
  <2>2. QED BY <1>1, <1>2, <1>3, <2>1 DEF IInv, IdentitiesTypeOK, Request, Fill
<1>5. \A s \in Reqs : Checked(s)'
  BY <1>1, <1>2 DEF IInv, Checked, InMakeDefault
<1>6. \A s \in Reqs : InMakeDefault(s)' <=> InMakeDefault(s) /\ s # r
  BY <1>1, <1>2 DEF InMakeDefault, At
<1>7. Defaults' = Defaults
  BY <1>2 DEF Defaults
<1>8. DefaultExists' /\ SingleUnlessClash' /\ Alone'
  BY <1>1, <1>2, <1>6, <1>7 DEF IInv, DefaultExists, SingleUnlessClash, Alone
<1>9. CacheFollows'
  BY <1>2 DEF CacheFollows
<1>10. \A k \in Fills : Fresh(k)'
  BY <1>3 DEF IInv, Fresh
<1>11. QED BY <1>4, <1>5, <1>8, <1>9, <1>10 DEF IInv

(* The other steps of a request keep the invariant.                        *)
LEMMA RequestKeeps ==
    ASSUME IInv, NEW r \in Reqs,
           \/ ReadTarget(r) \/ Clear(r) \/ Set(r) \/ Rollback(r)
           \/ (\E id \in Ids : PutIdentity(r, id)) \/ Enrich(r) \/ UpdateIdentity(r)
    PROVE  IInv'
<1> DEFINE q == req'[r]
<1>1. req[r] \in Request /\ Checked(r)
  BY DEF IInv, IdentitiesTypeOK, Request
<1>2. CASE ReadTarget(r)
  <2>1. /\ req' = [req EXCEPT ![r] = q] /\ q \in Request /\ q.pc \in {"idle", "clear"}
        /\ q.id = req[r].id /\ q.last = req[r].last
        /\ q.pc = "clear" => rows[q.id] # "absent"
    BY <1>1, <1>2 DEF ReadTarget, Goto, IInv, IdentitiesTypeOK, Request, ReqPC
  <2>2. \A i \in Ids : lock'[i] # NoId => req'[lock'[i]].pc \in {"set", "commit"}
    BY <1>2, <2>1 DEF ReadTarget, At, IInv, IdentitiesTypeOK
  <2>3. QED BY <1>2, <2>1, <2>2, MoveKeeps DEF ReadTarget, At, InMakeDefault, IInv, IdentitiesTypeOK
<1>3. CASE Clear(r) \/ Set(r)
  <2>1. /\ req' = [req EXCEPT ![r] = q] /\ q \in Request /\ q.pc \in {"set", "commit"}
        /\ q.id = req[r].id /\ q.last = req[r].last
        /\ \A s \in Reqs \ {r} : req'[s] = req[s]
        /\ rows[q.id] # "absent" /\ InMakeDefault(r) /\ ~At(r, "signal")
        /\ UNCHANGED <<rows, cache, fill, clashed, late>>
    <3>1. /\ req[r].pc \in {"clear", "set"} /\ UNCHANGED <<rows, cache, fill, clashed, late>>
          /\ \E pc \in {"set", "commit"} : req' = [req EXCEPT ![r].pc = pc]
      BY <1>3 DEF Clear, Set, Goto, At
    <3>2. rows[req[r].id] # "absent" /\ InMakeDefault(r) /\ ~At(r, "signal")
      BY <1>1, <3>1 DEF Checked, InMakeDefault, At
    <3>3. QED BY <1>1, <3>1, <3>2 DEF IInv, IdentitiesTypeOK, Request, ReqPC
  <2>2. \E i \in Ids : Lock(r, i)
    BY <1>1, <1>3 DEF Clear, Set, At, Checked, InMakeDefault
  <2>3. /\ lock' \in [Ids -> Reqs \cup {NoId}]
        /\ \A j \in Ids : lock'[j] # NoId => req'[lock'[j]].pc \in {"set", "commit"}
    BY <2>1, <2>2, LockType
  <2>4. QED BY <2>1, <2>3, MoveKeeps
<1>4. CASE Rollback(r)
  <2>1. /\ req' = [req EXCEPT ![r] = q] /\ q \in Request /\ q.pc = "idle"
        /\ \A s \in Reqs \ {r} : req'[s] = req[s]
        /\ Unlock(r) /\ ~At(r, "signal") /\ UNCHANGED <<rows, cache, fill, clashed, late>>
    BY <1>1, <1>4 DEF Rollback, Goto, At, InMakeDefault, IInv, IdentitiesTypeOK, Request, ReqPC
  <2>2. /\ lock' \in [Ids -> Reqs \cup {NoId}]
        /\ \A i \in Ids : lock'[i] # NoId => req'[lock'[i]].pc \in {"set", "commit"}
    BY <2>1, UnlockType
  <2>3. QED BY <2>1, <2>2, MoveKeeps
<1>5. CASE (\E id \in Ids : PutIdentity(r, id)) \/ Enrich(r) \/ UpdateIdentity(r)
  <2>1. /\ req' = [req EXCEPT ![r] = q] /\ q \in Request /\ q.pc \in {"edit", "signal"}
        /\ req[r].pc \in {"idle", "edit"} /\ UNCHANGED <<rows, lock, cache, fill, clashed, late>>
    BY <1>1, <1>5 DEF PutIdentity, Enrich, UpdateIdentity, Goto, At, Defaults, IInv,
       IdentitiesTypeOK, Request, ReqPC
  <2>2. \A i \in Ids : lock'[i] # NoId => req'[lock'[i]].pc \in {"set", "commit"}
    BY <2>1 DEF IInv, IdentitiesTypeOK
  <2>3. QED BY <2>1, <2>2, MoveKeeps DEF At, IInv, IdentitiesTypeOK
<1>6. QED BY <1>2, <1>3, <1>4, <1>5

(* Every step keeps the inductive invariant.                               *)
LEMMA StepKeepsIInv ==
    ASSUME IInv, [IdentitiesNext]_identityVars
    PROVE  IInv'
<1>1. ASSUME NEW r \in Reqs, ReqStep(r)
      PROVE  IInv'
  BY <1>1, ReadDefaultKeeps, CommitKeeps, SignalKeeps, RequestKeeps DEF ReqStep
<1>2. ASSUME NEW i \in Ids, AddIdentity(i)
      PROVE  IInv'
  <2>1. /\ rows' \in [Ids -> {"absent", "plain", "default"}]
        /\ \A j \in Ids : rows'[j] = "default" <=> rows[j] = "default"
        /\ \A j \in Ids : rows[j] # "absent" => rows'[j] # "absent"
        /\ UNCHANGED <<lock, req, cache, fill, clashed, late>>
    BY <1>2 DEF AddIdentity, IInv, IdentitiesTypeOK
  <2>2. Defaults' = Defaults
    BY <2>1 DEF Defaults
  <2>3. IdentitiesTypeOK'
    BY <2>1 DEF IInv, IdentitiesTypeOK
  <2>4. \A s \in Reqs : Checked(s)'
    BY <2>1 DEF IInv, Checked, InMakeDefault
  <2>5. DefaultExists' /\ SingleUnlessClash' /\ Alone'
    BY <2>1, <2>2 DEF IInv, DefaultExists, SingleUnlessClash, Alone, InMakeDefault
  <2>6. CacheFollows' /\ \A k \in Fills : Fresh(k)'
    BY <2>1 DEF IInv, IdentitiesTypeOK, CacheFollows, Fresh, Unannounced, At
  <2>7. QED BY <2>3, <2>4, <2>5, <2>6 DEF IInv
<1>3. ASSUME NEW k \in Fills, FillStep(k)
      PROVE  IInv'
  <2>1. UNCHANGED <<rows, lock, req, clashed>>
    BY <1>3 DEF FillStep, FillRead, FillStore
  <2>2. /\ \A s \in Reqs : Checked(s)'
        /\ DefaultExists' /\ SingleUnlessClash' /\ Alone'
    BY <2>1 DEF IInv, Checked, InMakeDefault, Defaults, DefaultExists, SingleUnlessClash, Alone
  <2>3. CASE FillRead(k)
    <3>1. PICK d \in Defaults :
               fill' = [fill EXCEPT ![k] = [pc |-> "store", seen |-> d, late |-> FALSE]]
      BY <2>3 DEF FillRead
    <3>2. d \in Ids /\ rows[d] = "default" /\ cache' = cache /\ late' = late
      BY <2>3, <3>1 DEF Defaults, FillRead
    <3>3. /\ fill' \in [Fills -> Fill]
          /\ fill'[k].seen = d
          /\ \A j \in Fills \ {k} : fill'[j] = fill[j]
      BY <3>1, <3>2 DEF IInv, IdentitiesTypeOK, Fill
    <3>4. IdentitiesTypeOK'
      BY <2>1, <3>2, <3>3 DEF IInv, IdentitiesTypeOK, Fill
    <3>5. CacheFollows' /\ \A j \in Fills : Fresh(j)'
      BY <2>1, <3>2, <3>3 DEF IInv, CacheFollows, Fresh, Unannounced, At
    <3>6. QED BY <2>2, <3>4, <3>5 DEF IInv
  <2>4. CASE FillStore(k)
    <3>1. /\ cache' = fill[k].seen /\ late' = fill[k].late /\ fill[k].pc = "store"
          /\ fill' = [fill EXCEPT ![k] = NoFill]
      BY <2>4 DEF FillStore
    <3>2. NoFill \in Fill /\ NoFill.pc = "idle"
      BY DEF NoFill, Fill
    <3>3. /\ fill' \in [Fills -> Fill] /\ fill'[k].pc = "idle"
          /\ \A j \in Fills \ {k} : fill'[j] = fill[j]
      BY <3>1, <3>2 DEF IInv, IdentitiesTypeOK, Fill
    <3>4. cache' \in Ids /\ late' \in BOOLEAN
      BY <3>1 DEF IInv, IdentitiesTypeOK, Fresh
    <3>5. IdentitiesTypeOK'
      BY <2>1, <3>3, <3>4 DEF IInv, IdentitiesTypeOK, Fill
    <3>6. CacheFollows' /\ \A j \in Fills : Fresh(j)'
      BY <2>1, <3>1, <3>3 DEF IInv, CacheFollows, Fresh, Unannounced, At
    <3>7. QED BY <2>2, <3>5, <3>6 DEF IInv
  <2>5. QED BY <1>3, <2>3, <2>4 DEF FillStep
<1>4. CASE UNCHANGED identityVars
  BY <1>4 DEF identityVars, IInv, IdentitiesTypeOK, Checked, InMakeDefault, Defaults, DefaultExists,
     SingleUnlessClash, Alone, Fresh, CacheFollows, Unannounced, At
<1>5. QED BY <1>1, <1>2, <1>3, <1>4 DEF IdentitiesNext

(* The inductive invariant holds in every behaviour.                       *)
THEOREM Invariance == IdentitiesSpec => []IInv
<1>1. IdentitiesInit => IInv
  <2> SUFFICES ASSUME IdentitiesInit PROVE IInv
    OBVIOUS
  <2>1. Defaults = {Initial}
    BY InitialAssumption DEF IdentitiesInit, Defaults
  <2>2. IdentitiesTypeOK
    BY InitialAssumption DEF IdentitiesInit, IdentitiesTypeOK, NoReq, NoFill, ReqPC
  <2>3. /\ \A r \in Reqs : Checked(r) /\ ~InMakeDefault(r)
        /\ \A k \in Fills : Fresh(k)
    BY DEF IdentitiesInit, Checked, InMakeDefault, NoReq, Fresh, NoFill
  <2>4. QED BY <2>1, <2>2, <2>3, InitialAssumption
         DEF IdentitiesInit, IInv, DefaultExists, SingleUnlessClash, Alone, CacheFollows
<1>2. QED BY <1>1, StepKeepsIInv, PTL DEF IdentitiesSpec

(* For any transactions and rollbacks there is a default identity at every *)
(* moment, and only one if no two make_default overlap.                    *)
THEOREM DefaultAlwaysKept == IdentitiesSpec => []DefaultKept
  BY Invariance, PTL DEF IInv, DefaultKept

(* _identity_cache holds an identity that is not the default any more only *)
(* while the signal is pending, or if it was filled across one.            *)
THEOREM IdentityCacheFollows == IdentitiesSpec => []CacheFollows
  BY Invariance, PTL DEF IInv

-----------------------------------------------------------------------------
(* Avatars *)

Handler ==
    [pc : {"idle", "lookup", "read", "delete"}, name : Names \cup {NoName},
     ext : Extensions \cup {NoName}]

(* What a handler past its first await holds.                              *)
Holds(r) ==
    /\ upload[r].pc \in {"lookup", "read"} => upload[r].ext \in Extensions
    /\ upload[r].pc = "read" => upload[r].name \in Owners

(* Without an overlap an upload under way has removed what was there.      *)
OneUpload(i) ==
    \A r \in Putting(i) : files[i] = {} /\ \A s \in Putting(i) : s = r

AvatarsInv ==
    /\ files \in [Owners -> SUBSET Extensions]
    /\ upload \in [Uploads -> Handler]
    /\ newest \in [Owners -> Extensions \cup {NoName}]
    /\ \A r \in Uploads : Holds(r)
    /\ \A i \in Owners \ crossed : files[i] \subseteq {newest[i]} /\ OneUpload(i)

LEMMA WaitingIs ==
    /\ Waiting \in Handler /\ Waiting.pc = "idle" /\ Waiting.ext = NoName
    /\ \A n \in Names : LET w == [Waiting EXCEPT !.pc = "delete", !.name = n]
                        IN  w \in Handler /\ w.pc = "delete"
    /\ \A n \in Names, e \in Extensions :
          LET w == [pc |-> "lookup", name |-> n, ext |-> e]
          IN  w \in Handler /\ w.pc = "lookup" /\ w.name = n /\ w.ext = e
BY DEF Waiting, Handler

LEMMA AvatarsStart == AvatarsInit => AvatarsInv
<1> SUFFICES ASSUME AvatarsInit PROVE AvatarsInv
  OBVIOUS
<1>1. \A r \in Uploads : upload[r].pc = "idle"
  BY WaitingIs DEF AvatarsInit
<1>2. QED
  BY <1>1, WaitingIs DEF AvatarsInit, AvatarsInv, Holds, OneUpload, Putting

(* An unlink removes files, and the one file of an identity.               *)
LEMMA UnlinkRemoves ==
    ASSUME files \in [Owners -> SUBSET Extensions], NEW n \in Names, UnlinkFound(n)
    PROVE  /\ files' \in [Owners -> SUBSET Extensions]
           /\ \A i \in Owners : files'[i] \subseteq files[i]
           /\ n \in Owners => \A x : files[n] \subseteq {x} => files'[n] = {}
<1>1. /\ files' \in [Owners -> SUBSET Extensions]
      /\ \A i \in Owners : files'[i] \subseteq files[i]
  BY DEF UnlinkFound
<1>2. ASSUME n \in Owners, NEW x, files[n] \subseteq {x} PROVE files'[n] = {}
  <2>1. CASE files[n] = {}
    BY <1>1, <1>2, <2>1
  <2>2. CASE files[n] = {x}
    <3>1. Glob[n] = {n} /\ x \in Extensions
      BY <1>2, <2>2, GlobAssumption
    <3>2. Found(n) = {<<n, x>>}
      BY <1>2, <2>2, <3>1 DEF Found
    <3>3. Cardinality(Found(n)) = 1
      BY <3>2, FS_Singleton
    <3>4. QED BY <1>2, <2>2, <3>2, <3>3 DEF UnlinkFound
  <2>3. QED BY <1>2, <2>1, <2>2
<1>3. QED BY <1>1, <1>2

(* A step that ends a handler's upload, or moves it, and adds no file.     *)
LEMMA HandlerMoves ==
    ASSUME AvatarsInv, NEW r \in Uploads, NEW h \in Handler, upload' = [upload EXCEPT ![r] = h],
           h.pc \in {"idle", "delete"} \/ (h.pc = "read" /\ r \in Putting(h.name) /\ h.ext \in Extensions
                                           /\ h.name \in Owners),
           files' \in [Owners -> SUBSET Extensions], \A i \in Owners : files'[i] \subseteq files[i],
           UNCHANGED <<crossed, newest>>
    PROVE  AvatarsInv'
<1>1. upload' \in [Uploads -> Handler] /\ upload'[r] = h /\ \A s \in Uploads : s # r => upload'[s] = upload[s]
  BY DEF AvatarsInv
<1>2. \A s \in Uploads : Holds(s)'
  BY <1>1 DEF AvatarsInv, Holds
<1>3. \A i \in Owners : Putting(i)' \subseteq Putting(i)
  BY <1>1 DEF Putting
<1>4. \A i \in Owners \ crossed : files'[i] \subseteq {newest'[i]} /\ OneUpload(i)'
  BY <1>3 DEF AvatarsInv, OneUpload
<1>5. QED BY <1>1, <1>2, <1>4 DEF AvatarsInv

LEMMA AvatarsStep ==
    ASSUME AvatarsInv, [AvatarsNext]_avatarVars
    PROVE  AvatarsInv'
<1>0. /\ files \in [Owners -> SUBSET Extensions] /\ upload \in [Uploads -> Handler]
      /\ newest \in [Owners -> Extensions \cup {NoName}]
      /\ \A r \in Uploads : Holds(r)
  BY DEF AvatarsInv
<1>1. CASE UNCHANGED avatarVars
  BY <1>1 DEF avatarVars, AvatarsInv, Holds, OneUpload, Putting
<1>2. ASSUME NEW r \in Uploads, NEW n \in Names, DeleteAvatar(r, n) PROVE AvatarsInv'
  <2> DEFINE h == [Waiting EXCEPT !.pc = "delete", !.name = n]
  <2>1. h \in Handler /\ h.pc = "delete"
    BY WaitingIs
  <2>2. upload' = [upload EXCEPT ![r] = h] /\ UNCHANGED <<files, crossed, newest>>
    BY <1>2 DEF DeleteAvatar
  <2> HIDE DEF h
  <2>3. QED BY <1>0, <2>1, <2>2, HandlerMoves
<1>3. ASSUME NEW r \in Uploads, NEW n \in Names, NEW e \in Extensions, PutAvatar(r, n, e)
      PROVE  AvatarsInv'
  <2> DEFINE h == [pc |-> "lookup", name |-> n, ext |-> e]
  <2>1. h \in Handler /\ h.pc = "lookup" /\ h.name = n /\ h.ext = e
    BY WaitingIs
  <2>2. /\ upload' = [upload EXCEPT ![r] = h] /\ UnlinkFound(n) /\ UNCHANGED newest
        /\ crossed' = crossed \cup {i \in {n} \cap Owners : Putting(i) # {}}
        /\ upload[r].pc = "idle"
    BY <1>3, WaitingIs DEF PutAvatar
  <2> HIDE DEF h
  <2>3. /\ upload' \in [Uploads -> Handler] /\ upload'[r] = h
        /\ \A s \in Uploads : s # r => upload'[s] = upload[s]
    BY <1>0, <2>1, <2>2
  <2>4. \A s \in Uploads : Holds(s)'
    BY <1>0, <2>1, <2>3 DEF Holds
  <2>5. /\ files' \in [Owners -> SUBSET Extensions]
        /\ \A i \in Owners : files'[i] \subseteq files[i]
        /\ n \in Owners => \A x : files[n] \subseteq {x} => files'[n] = {}
    BY <1>0, <2>2, UnlinkRemoves
  <2>6. ASSUME NEW i \in Owners, i \notin crossed'
        PROVE  files'[i] \subseteq {newest'[i]} /\ OneUpload(i)'
    <3>1. i \notin crossed /\ files[i] \subseteq {newest[i]} /\ OneUpload(i)
      BY <2>2, <2>6 DEF AvatarsInv
    <3>2. CASE i = n
      <4>1. Putting(i) = {} /\ files'[i] = {}
        BY <2>2, <2>5, <2>6, <3>1, <3>2
      <4>2. Putting(i)' \subseteq {r}
        BY <2>3, <4>1 DEF Putting
      <4>3. QED BY <4>1, <4>2 DEF OneUpload
    <3>3. CASE i # n
      <4>1. Putting(i)' \subseteq Putting(i)
        BY <2>1, <2>3, <3>3 DEF Putting
      <4>2. QED BY <2>2, <2>5, <3>1, <4>1 DEF OneUpload
    <3>4. QED BY <3>2, <3>3
  <2>7. QED BY <1>0, <2>2, <2>3, <2>4, <2>5, <2>6 DEF AvatarsInv
<1>4. ASSUME NEW r \in Uploads, LookUp(r) PROVE AvatarsInv'
  <2>1. upload[r].pc = "lookup" /\ UNCHANGED <<files, crossed, newest>> /\ upload[r] \in Handler
    BY <1>0, <1>4 DEF LookUp
  <2>2. CASE upload[r].name \in Owners
    <3> DEFINE h == [upload[r] EXCEPT !.pc = "read"]
    <3>1. /\ h \in Handler /\ h.pc = "read" /\ h.name = upload[r].name /\ h.ext = upload[r].ext
      BY <2>1 DEF Handler
    <3>2. upload' = [upload EXCEPT ![r] = h]
      BY <1>0, <1>4, <2>2 DEF LookUp
    <3> HIDE DEF h
    <3>3. r \in Putting(h.name) /\ h.ext \in Extensions
      BY <1>0, <2>1, <3>1 DEF Putting, Holds
    <3>4. QED BY <1>0, <2>1, <2>2, <3>1, <3>2, <3>3, HandlerMoves
  <2>3. CASE upload[r].name \notin Owners
    <3>1. upload' = [upload EXCEPT ![r] = Waiting]
      BY <1>4, <2>3 DEF LookUp, Done
    <3>2. QED BY <1>0, <2>1, <3>1, WaitingIs, HandlerMoves
  <2>4. QED BY <2>2, <2>3
<1>5. ASSUME NEW r \in Uploads, UploadFails(r) \/ DeleteFound(r) PROVE AvatarsInv'
  <2>1. upload' = [upload EXCEPT ![r] = Waiting] /\ UNCHANGED <<crossed, newest>>
    BY <1>5 DEF UploadFails, DeleteFound, Done
  <2>2. files' = files \/ \E n \in Names : UnlinkFound(n)
    BY <1>5, GlobAssumption DEF UploadFails, DeleteFound
  <2>3. files' \in [Owners -> SUBSET Extensions] /\ \A i \in Owners : files'[i] \subseteq files[i]
    BY <1>0, <2>2, UnlinkRemoves
  <2>4. QED BY <2>1, <2>3, WaitingIs, HandlerMoves
<1>6. ASSUME NEW r \in Uploads, PutAsset(r) PROVE AvatarsInv'
  <2> DEFINE o == upload[r].name  e == upload[r].ext
  <2>1. /\ upload[r].pc = "read" /\ o \in Owners /\ e \in Extensions /\ r \in Putting(o)
        /\ files' = [files EXCEPT ![o] = @ \cup {e}] /\ newest' = [newest EXCEPT ![o] = e]
        /\ upload' = [upload EXCEPT ![r] = Waiting] /\ UNCHANGED crossed
    BY <1>0, <1>6 DEF PutAsset, Done, Holds, Putting
  <2> HIDE DEF o, e
  <2>2. /\ upload' \in [Uploads -> Handler] /\ upload'[r] = Waiting
        /\ \A s \in Uploads : s # r => upload'[s] = upload[s]
    BY <1>0, <2>1, WaitingIs
  <2>3. \A s \in Uploads : Holds(s)'
    BY <1>0, <2>2, WaitingIs DEF Holds
  <2>4. \A i \in Owners : Putting(i)' \subseteq Putting(i) /\ r \notin Putting(i)'
    BY <2>2, WaitingIs DEF Putting
  <2>5. /\ files' \in [Owners -> SUBSET Extensions] /\ newest' \in [Owners -> Extensions \cup {NoName}]
        /\ files'[o] = files[o] \cup {e} /\ newest'[o] = e
        /\ \A i \in Owners : i # o => files'[i] = files[i] /\ newest'[i] = newest[i]
    BY <1>0, <2>1
  <2>6. ASSUME NEW i \in Owners, i \notin crossed'
        PROVE  files'[i] \subseteq {newest'[i]} /\ OneUpload(i)'
    <3>1. files[i] \subseteq {newest[i]} /\ OneUpload(i)
      BY <2>1, <2>6 DEF AvatarsInv
    <3>2. CASE i = o
      <4>1. files[i] = {} /\ Putting(i)' = {}
        BY <2>1, <2>4, <3>1, <3>2 DEF OneUpload
      <4>2. QED BY <2>5, <3>2, <4>1 DEF OneUpload
    <3>3. CASE i # o
      BY <2>4, <2>5, <3>1, <3>3 DEF OneUpload
    <3>4. QED BY <3>2, <3>3
  <2>7. QED BY <2>2, <2>3, <2>5, <2>6 DEF AvatarsInv
<1>7. QED
  BY <1>1, <1>2, <1>3, <1>4, <1>5, <1>6 DEF AvatarsNext

(* Uploads that do not overlap leave one file at most, the one of the      *)
(* latest upload (put_avatar, delete_avatar), for any names, extensions    *)
(* and number of requests.                                                 *)
THEOREM LatestAvatarShown == AvatarsSpec => []LatestShown
<1>1. AvatarsInv => LatestShown
  BY DEF AvatarsInv, LatestShown
<1>2. QED BY AvatarsStart, AvatarsStep, <1>1, PTL DEF AvatarsSpec
=============================================================================
