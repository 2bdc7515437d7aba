---------------------------- MODULE PeersProofs ----------------------------
(***************************************************************************)
(* Safety of Peers for any set of shards, any length of the short ids and  *)
(* any number of concurrent refreshes and signed requests.                 *)
(***************************************************************************)
EXTENDS Peers, TLAPS

(* Ids of peers are sequences at least as long as a short id.              *)
LEMMA PeerIdType ==
    ASSUME NEW i \in PeerIds
    PROVE  i \in Seq(Nat) /\ Len(i) >= ShortLen
<1>1. PICK s \in Shards : \E n \in 1..Len(s) : i = SubSeq(s, 1, n)
  BY DEF PeerIds, Beginnings
<1>2. s \in Seq(Nat)
  BY ShardsAssumption
<1>3. i \in Seq(Nat)
  BY <1>1, <1>2
<1>4. QED BY <1>3 DEF PeerIds

(* The short id of a long enough id has ShortLen characters, those the id  *)
(* begins with.                                                            *)
LEMMA ShortIdIs ==
    ASSUME NEW i \in Seq(Nat), Len(i) >= ShortLen
    PROVE  /\ ShortId(i) \in Seq(Nat) /\ Len(ShortId(i)) = ShortLen
           /\ \A n \in 1..ShortLen : ShortId(i)[n] = i[n]
  BY ShortAssumption DEF ShortId

(* Two sequences of one length with the same characters are the same.      *)
LEMMA SameSeq ==
    ASSUME NEW s \in Seq(Nat), NEW t \in Seq(Nat), Len(s) = Len(t),
           \A n \in 1..Len(s) : s[n] = t[n]
    PROVE  s = t
  OBVIOUS

(* Ids of which one begins with the other have the same short id.          *)
LEMMA BeginningShares ==
    ASSUME NEW s \in Seq(Nat), NEW p \in Seq(Nat), Len(p) >= ShortLen, StartsWith(s, p)
    PROVE  ShortId(s) = ShortId(p)
<1>1. Len(s) >= ShortLen
  BY ShortAssumption DEF StartsWith
<1>2. \A n \in 1..ShortLen : s[n] = p[n]
  BY ShortAssumption DEF StartsWith
<1>3. /\ ShortId(s) \in Seq(Nat) /\ Len(ShortId(s)) = ShortLen
      /\ \A n \in 1..ShortLen : ShortId(s)[n] = s[n]
  BY <1>1, ShortIdIs
<1>4. /\ ShortId(p) \in Seq(Nat) /\ Len(ShortId(p)) = ShortLen
      /\ \A n \in 1..ShortLen : ShortId(p)[n] = p[n]
  BY ShortIdIs
<1>5. \A n \in 1..Len(ShortId(s)) : ShortId(s)[n] = ShortId(p)[n]
  BY <1>2, <1>3, <1>4
<1>6. QED BY <1>3, <1>4, <1>5, SameSeq

(* startswith is transitive.                                               *)
LEMMA StartsWithTrans ==
    ASSUME NEW s \in Seq(Nat), NEW t \in Seq(Nat), NEW u \in Seq(Nat),
           StartsWith(s, t), StartsWith(t, u)
    PROVE  StartsWith(s, u)
<1>1. Len(s) \in Nat /\ Len(t) \in Nat /\ Len(u) \in Nat
  OBVIOUS
<1>2. Len(u) <= Len(t) /\ Len(t) <= Len(s)
  BY DEF StartsWith
<1>3. \A n \in 1..Len(u) : n \in 1..Len(t)
  BY <1>1, <1>2
<1>4. QED BY <1>1, <1>2, <1>3 DEF StartsWith

-----------------------------------------------------------------------------
Row == [key : Shards \cup {None}, reachable : BOOLEAN]

Request == [pc : {"idle", "ask", "mark", "store"}, id : PeerIds \cup {None},
            key : Shards \cup {None}]

Verification == [pc : {"idle", "lookup", "granted"}, signer : Shards \cup {None},
                 keyid : {ShortId(s) : s \in Shards} \cup {None},
                 peer : PeerIds \cup {None}]

(* A coroutine past its first step knows whom it asks; one that is about   *)
(* to store a key has checked it against the id.                           *)
Asked(r) ==
    /\ req[r].pc # "idle" => req[r].id \in PeerIds
    /\ req[r].pc = "store" => req[r].key \in Shards /\ StartsWith(req[r].key, req[r].id)

(* A verified signature was made with the key of a shard whose short id is *)
(* the keyid.                                                              *)
Verified(k) ==
    /\ auth[k].pc # "idle" => auth[k].signer \in Shards /\ auth[k].keyid = ShortId(auth[k].signer)
    /\ auth[k].pc = "granted" =>
          auth[k].peer \in PeerIds /\ ShortId(auth[k].peer) = ShortId(auth[k].signer)

IInv ==
    /\ TypeOK
    /\ \A r \in Reqs : Asked(r)
    /\ KeyMatchesId
    /\ \A k \in Auths : Verified(k)

-----------------------------------------------------------------------------
(* A coroutine that asks, or ends, keeps the invariant.                    *)
LEMMA RequestKeeps ==
    ASSUME IInv, NEW r \in Reqs, NEW q \in Request, req' = [req EXCEPT ![r] = q],
           UNCHANGED auth, peers' \in [PeerIds -> {Absent} \cup Row], KeyMatchesId',
           q.pc # "idle" => q.id \in PeerIds,
           q.pc = "store" => q.key \in Shards /\ StartsWith(q.key, q.id)
    PROVE  IInv'
<1>1. /\ req' \in [Reqs -> Request] /\ req'[r] = q
      /\ \A s \in Reqs \ {r} : req'[s] = req[s]
  BY DEF IInv, TypeOK, Request
<1>2. TypeOK'
  BY <1>1 DEF IInv, TypeOK, Request, Row
<1>3. \A s \in Reqs : Asked(s)'
  BY <1>1 DEF IInv, Asked
<1>4. QED BY <1>2, <1>3 DEF IInv, Verified

(* A step that leaves the table alone leaves its keys matching.            *)
LEMMA TableKept ==
    ASSUME IInv, UNCHANGED peers
    PROVE  peers' \in [PeerIds -> {Absent} \cup Row] /\ KeyMatchesId'
  BY DEF IInv, TypeOK, Row, KeyMatchesId, Present

(* put_peer and update_all_peer_pubkeys.                                   *)
LEMMA StartKeeps ==
    ASSUME IInv, NEW r \in Reqs, NEW i \in PeerIds, PutPeer(r, i) \/ RefreshPeer(r, i)
    PROVE  IInv'
<1> DEFINE q == [pc |-> "ask", id |-> i, key |-> None]
<1>1. q \in Request /\ q.pc = "ask" /\ q.id = i
  BY DEF Request
<1>2. req' = [req EXCEPT ![r] = q] /\ auth' = auth
  BY DEF PutPeer, RefreshPeer
<1>3. CASE peers' = peers
  BY <1>1, <1>2, <1>3, TableKept, RequestKeeps
<1>4. CASE peers' = [peers EXCEPT ![i] = NewPeer]
  <2>1. NewPeer \in Row /\ NewPeer.key = None
    BY DEF NewPeer, Row
  <2>2. /\ peers' \in [PeerIds -> {Absent} \cup Row] /\ peers'[i] = NewPeer
        /\ \A j \in PeerIds \ {i} : peers'[j] = peers[j]
    BY <1>4, <2>1 DEF IInv, TypeOK, Row
  <2>3. KeyMatchesId'
    BY <2>1, <2>2 DEF IInv, KeyMatchesId, Present
  <2>4. QED BY <1>1, <1>2, <2>2, <2>3, RequestKeeps
<1>5. QED BY <1>3, <1>4 DEF PutPeer, RefreshPeer

(* update_peer_meta up to the answer: a key is kept only if it begins with *)
(* an id that begins with the id that was asked.                           *)
LEMMA AskKeeps ==
    ASSUME IInv, NEW r \in Reqs,
           \/ NoConnection(r) \/ HttpError(r)
           \/ \E id \in PeerIds, key \in Shards : Answer(r, id, key)
    PROVE  IInv'
<1>1. req[r] \in Request /\ req[r].pc = "ask" /\ req[r].id \in PeerIds
  BY DEF IInv, TypeOK, Request, Asked, NoConnection, HttpError, Answer, At
<1>2. Idle \in Request /\ Idle.pc = "idle"
  BY DEF Idle, Request
<1>3. CASE NoConnection(r)
  <2> DEFINE q == [req[r] EXCEPT !.pc = "mark"]
  <2>1. q \in Request /\ q.pc = "mark" /\ q.id = req[r].id
    BY <1>1 DEF Request
  <2>2. req' = [req EXCEPT ![r] = q] /\ UNCHANGED <<peers, auth>>
    BY <1>3 DEF NoConnection
  <2>3. QED BY <1>1, <2>1, <2>2, TableKept, RequestKeeps
<1>4. CASE HttpError(r)
  BY <1>2, <1>4, TableKept, RequestKeeps DEF HttpError
<1>5. ASSUME NEW id \in PeerIds, NEW key \in Shards, Answer(r, id, key)
      PROVE  IInv'
  <2>1. CASE AcceptsAnswer(r, id, key)
    <3> DEFINE q == [req[r] EXCEPT !.pc = "store", !.key = key]
    <3>1. q \in Request /\ q.pc = "store" /\ q.id = req[r].id /\ q.key = key
      BY <1>1 DEF Request
    <3>2. req' = [req EXCEPT ![r] = q] /\ UNCHANGED <<peers, auth>>
      BY <1>5, <2>1 DEF Answer
    <3>3. StartsWith(key, req[r].id)
      <4>1. key \in Seq(Nat) /\ id \in Seq(Nat) /\ req[r].id \in Seq(Nat)
        BY <1>1, ShardsAssumption, PeerIdType
      <4>2. QED BY <2>1, <4>1, StartsWithTrans DEF AcceptsAnswer
    <3>4. QED BY <1>1, <3>1, <3>2, <3>3, TableKept, RequestKeeps
  <2>2. CASE ~AcceptsAnswer(r, id, key)
    BY <1>2, <1>5, <2>2, TableKept, RequestKeeps DEF Answer
  <2>3. QED BY <2>1, <2>2
<1>6. QED BY <1>3, <1>4, <1>5

(* Writing a row whose key matches its id keeps the keys matching; a row   *)
(* that has gone stays away.                                               *)
LEMMA UpdateMatches ==
    ASSUME IInv, NEW i \in PeerIds, NEW row \in Row, peers' = UpdateById(i, row),
           peers[i] # Absent => row.key = None \/ StartsWith(row.key, i)
    PROVE  /\ peers' \in [PeerIds -> {Absent} \cup Row] /\ KeyMatchesId'
           /\ \A j \in PeerIds : peers[j] = Absent => peers'[j] = Absent
  BY DEF UpdateById, IInv, TypeOK, Row, KeyMatchesId, Present

(* The writes of update_peer_meta.                                         *)
LEMMA WriteKeeps ==
    ASSUME IInv, NEW r \in Reqs, MarkUnreachable(r) \/ StoreMeta(r)
    PROVE  IInv' /\ \A j \in PeerIds : peers[j] = Absent => peers'[j] = Absent
<1> DEFINE i == req[r].id
<1>1. i \in PeerIds /\ req[r] \in Request
  BY DEF IInv, TypeOK, Request, Asked, MarkUnreachable, StoreMeta, At
<1>2. Idle \in Request /\ Idle.pc = "idle"
  BY DEF Idle, Request
<1>3. CASE MarkUnreachable(r)
  <2> DEFINE row == [key |-> IF peers[i] = Absent THEN None ELSE peers[i].key,
                     reachable |-> FALSE]
  <2>1. /\ row \in Row
        /\ peers[i] # Absent => row.key = None \/ StartsWith(row.key, i)
    BY <1>1 DEF IInv, TypeOK, Row, KeyMatchesId, Present
  <2>2. /\ peers' = UpdateById(i, row)
        /\ req' = [req EXCEPT ![r] = Idle] /\ auth' = auth
    BY <1>3 DEF MarkUnreachable
  <2> HIDE DEF row
  <2>3. QED BY <1>1, <1>2, <2>1, <2>2, UpdateMatches, RequestKeeps
<1>4. CASE StoreMeta(r)
  <2> DEFINE row == [key |-> req[r].key, reachable |-> TRUE]
  <2>1. row \in Row /\ row.key = req[r].key
    BY <1>1 DEF Row, Request
  <2>2. StartsWith(req[r].key, i)
    BY <1>4 DEF StoreMeta, At, IInv, Asked
  <2>3. /\ peers' = UpdateById(i, row)
        /\ req' = [req EXCEPT ![r] = Idle] /\ auth' = auth
    BY <1>4 DEF StoreMeta
  <2> HIDE DEF row
  <2>4. QED BY <1>1, <1>2, <2>1, <2>2, <2>3, UpdateMatches, RequestKeeps
<1>5. QED BY <1>3, <1>4

(* verify_peer_auth: the key that verified the signature matches the id of *)
(* its row, and the row that is looked up afterwards begins with the keyid.*)
LEMMA AuthKeeps ==
    ASSUME IInv, NEW k \in Auths, AuthStep(k)
    PROVE  IInv'
<1>1. UNCHANGED <<peers, req>>
  BY DEF AuthStep, Verify, Lookup, Finish
<1>2. ASSUME NEW v \in Verification, auth' = [auth EXCEPT ![k] = v],
             v.pc # "idle" => v.signer \in Shards /\ v.keyid = ShortId(v.signer),
             v.pc = "granted" => v.peer \in PeerIds /\ ShortId(v.peer) = ShortId(v.signer)
      PROVE  IInv'
  <2>1. /\ auth' \in [Auths -> Verification] /\ auth'[k] = v
        /\ \A l \in Auths \ {k} : auth'[l] = auth[l]
    BY <1>2 DEF IInv, TypeOK, Verification
  <2>2. TypeOK'
    BY <1>1, <2>1 DEF IInv, TypeOK, Verification
  <2>3. \A l \in Auths : Verified(l)'
    BY <1>2, <2>1 DEF IInv, Verified
  <2>4. QED BY <1>1, <2>2, <2>3, TableKept DEF IInv, Asked
<1>3. ASSUME NEW s \in Shards, NEW t \in Shards, Verify(k, s, ShortId(t))
      PROVE  IInv'
  <2> DEFINE v == [pc |-> "lookup", signer |-> s, keyid |-> ShortId(t), peer |-> None]
  <2>1. v \in Verification /\ v.pc = "lookup" /\ v.signer = s /\ v.keyid = ShortId(t)
    BY DEF Verification
  <2>2. PICK i \in Present : ShortId(i) = ShortId(t) /\ peers[i].key = s
    BY <1>3 DEF Verify, Resolves
  <2>3. i \in PeerIds /\ StartsWith(s, i)
    BY <2>2, ShardsAssumption DEF IInv, KeyMatchesId, Present
  <2>4. ShortId(s) = ShortId(i)
    BY <2>3, BeginningShares, PeerIdType, ShardsAssumption
  <2>5. auth' = [auth EXCEPT ![k] = v]
    BY <1>3 DEF Verify
  <2> HIDE DEF v
  <2>6. QED BY <1>2, <2>1, <2>2, <2>4, <2>5
<1>4. NoAuth \in Verification /\ NoAuth.pc = "idle"
  BY DEF NoAuth, Verification
<1>5. ASSUME NEW i \in Like(auth[k].keyid), auth[k].pc = "lookup",
             auth' = [auth EXCEPT ![k].pc = "granted", ![k].peer = i]
      PROVE  IInv'
  <2> DEFINE v == [auth[k] EXCEPT !.pc = "granted", !.peer = i]
  <2>1. i \in PeerIds /\ StartsWith(i, auth[k].keyid)
    BY <1>5 DEF Like, Present
  <2>2. auth[k] \in Verification /\ Verified(k)
    BY DEF IInv, TypeOK, Verification
  <2>3. /\ v \in Verification /\ v.pc = "granted" /\ v.peer = i
        /\ v.signer = auth[k].signer /\ v.keyid = auth[k].keyid
    BY <2>1, <2>2 DEF Verification
  <2>4. ShortId(i) = ShortId(auth[k].signer)
    <3> DEFINE s == auth[k].signer
    <3>1. s \in Shards /\ auth[k].keyid = ShortId(s)
      BY <1>5, <2>2 DEF Verified
    <3>2. s \in Seq(Nat) /\ Len(s) >= ShortLen
      BY <3>1, ShardsAssumption
    <3>3. /\ ShortId(s) \in Seq(Nat) /\ Len(ShortId(s)) = ShortLen
          /\ \A n \in 1..ShortLen : ShortId(s)[n] = s[n]
      BY <3>2, ShortIdIs
    <3>4. /\ ShortId(ShortId(s)) \in Seq(Nat) /\ Len(ShortId(ShortId(s))) = ShortLen
          /\ \A n \in 1..ShortLen : ShortId(ShortId(s))[n] = ShortId(s)[n]
      BY <3>3, ShortIdIs, ShortAssumption
    <3>5. ShortId(ShortId(s)) = ShortId(s)
      BY <3>3, <3>4, SameSeq
    <3>6. ShortId(i) = ShortId(ShortId(s))
      BY <2>1, <3>1, <3>3, BeginningShares, PeerIdType, ShortAssumption
    <3>7. QED BY <3>5, <3>6
  <2>5. auth' = [auth EXCEPT ![k] = v]
    BY <1>5 DEF IInv, TypeOK
  <2>6. v.signer \in Shards /\ v.keyid = ShortId(v.signer)
    BY <1>5, <2>2, <2>3 DEF Verified
  <2> HIDE DEF v
  <2>7. QED BY <1>2, <2>1, <2>3, <2>4, <2>5, <2>6
<1>6. CASE Lookup(k) \/ Finish(k)
  <2>1. CASE auth' = [auth EXCEPT ![k] = NoAuth]
    BY <1>2, <1>4, <2>1
  <2>2. QED BY <1>5, <1>6, <2>1 DEF Lookup, Finish
<1>7. QED BY <1>3, <1>6 DEF AuthStep

(* Every step keeps the inductive invariant.                               *)
LEMMA StepKeepsIInv ==
    ASSUME IInv, [Next]_vars
    PROVE  IInv'
<1>1. ASSUME NEW r \in Reqs, ReqStep(r)
      PROVE  IInv'
  BY <1>1, StartKeeps, AskKeeps, WriteKeeps DEF ReqStep
<1>2. ASSUME NEW p \in Beginnings, DeletePeer(p)
      PROVE  IInv'
  <2>1. /\ peers' = [i \in PeerIds |-> IF i \in Like(p) THEN Absent ELSE peers[i]]
        /\ UNCHANGED <<req, auth>>
    BY <1>2 DEF DeletePeer
  <2>2. peers' \in [PeerIds -> {Absent} \cup Row]
    BY <2>1 DEF IInv, TypeOK, Row
  <2>3. \A i \in PeerIds : peers'[i] = Absent \/ peers'[i] = peers[i]
    BY <2>1
  <2>4. KeyMatchesId'
    BY <2>3 DEF IInv, KeyMatchesId, Present
  <2>5. QED BY <2>1, <2>2, <2>4 DEF IInv, TypeOK, Row, Asked, Verified
<1>3. ASSUME NEW k \in Auths, AuthStep(k)
      PROVE  IInv'
  BY <1>3, AuthKeeps
<1>4. CASE UNCHANGED vars
  BY <1>4, TableKept DEF vars, IInv, TypeOK, Asked, Verified
<1>5. QED BY <1>1, <1>2, <1>3, <1>4 DEF Next

(* The inductive invariant holds in every behaviour.                       *)
THEOREM Invariance == Spec => []IInv
<1>1. Init => IInv
  BY DEF Init, IInv, TypeOK, Asked, KeyMatchesId, Verified, Present, Idle, NoAuth
<1>2. QED BY <1>1, StepKeepsIInv, PTL DEF Spec

(* The table, the coroutines and the requests keep their types.            *)
THEOREM TypeCorrect == Spec => []TypeOK
  BY Invariance, PTL DEF IInv

(* update_peer_meta stores no key for an id it does not belong to, and     *)
(* verify_peer_auth lets nobody in as a peer with another short id than    *)
(* that of the shard whose key made the signature.                         *)
THEOREM OnlyByKey == Spec => []AuthenticatedByKey
<1>1. IInv => AuthenticatedByKey
  BY DEF IInv, Verified, SharesShortId, AuthenticatedByKey
<1>2. QED BY <1>1, Invariance, PTL

(* No refresh brings a deleted peer back: a row appears without a key.     *)
THEOREM DeletedStaysDeleted == Spec => NoLateReturn
<1> DEFINE Appears == \A i \in PeerIds :
                          peers[i] = Absent /\ peers'[i] # Absent => peers'[i].key = None
<1>1. ASSUME IInv, Next
      PROVE  Appears
  <2>1. CASE peers' = peers
    BY <2>1
  <2>2. ASSUME NEW r \in Reqs, NEW i \in PeerIds, PutPeer(r, i)
        PROVE  Appears
    BY <1>1, <2>2 DEF PutPeer, NewPeer, IInv, TypeOK
  <2>3. ASSUME NEW r \in Reqs, MarkUnreachable(r) \/ StoreMeta(r)
        PROVE  Appears
    BY <1>1, <2>3, WriteKeeps
  <2>4. ASSUME NEW p \in Beginnings, DeletePeer(p)
        PROVE  Appears
    BY <2>4 DEF DeletePeer
  <2>5. QED BY <1>1, <2>1, <2>2, <2>3, <2>4
         DEF Next, ReqStep, AuthStep, RefreshPeer, NoConnection, HttpError, Answer,
             Verify, Lookup, Finish
<1>2. QED BY <1>1, Invariance, PTL DEF Spec, NoLateReturn
=============================================================================
