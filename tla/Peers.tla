------------------------------- MODULE Peers -------------------------------
(***************************************************************************)
(* service/peer.py: other shards as peers, the refresh of what is known    *)
(* about them, and the verification of their signed requests.              *)
(*                                                                         *)
(* The id of a shard is the hash of its public key; here a key is named by *)
(* its hash.  The user adds a peer by the whole id or by the beginning of  *)
(* it, and the row keeps what the user gave; domains and the keyid of a    *)
(* signature hold the first ShortLen characters only.  Ids are sequences.  *)
(* Names are left out.                                                     *)
(***************************************************************************)
EXTENDS Naturals, Sequences

CONSTANTS
    Shards,     \* ids of other shards, whole
    ShortLen,   \* length of short_id
    Reqs,       \* coroutines that add or refresh a peer
    Auths,      \* signed requests
    None, Absent

ASSUME ShortAssumption == ShortLen \in Nat \ {0}

ASSUME ShardsAssumption ==
    /\ None \notin Shards
    /\ \A s \in Shards : s \in Seq(Nat) /\ Len(s) >= ShortLen

VARIABLES
    peers,   \* table peers
    req,     \* the coroutines
    auth     \* the requests that are being verified

vars == <<peers, req, auth>>

-----------------------------------------------------------------------------
StartsWith(s, p) == Len(p) <= Len(s) /\ \A n \in 1..Len(p) : s[n] = p[n]

Beginnings == UNION {{SubSeq(s, 1, n) : n \in 1..Len(s)} : s \in Shards}

(* must_be_long_enough.                                                    *)
PeerIds == {p \in Beginnings : Len(p) >= ShortLen}

ShortId(i) == SubSeq(i, 1, ShortLen)

Present == {i \in PeerIds : peers[i] # Absent}

(* WHERE id LIKE 'p%'                                                      *)
Like(p) == {i \in Present : StartsWith(i, p)}

Idle == [pc |-> "idle", id |-> None, key |-> None]

NoAuth == [pc |-> "idle", signer |-> None, keyid |-> None, peer |-> None]

At(r, pc) == req[r].pc = pc

Init ==
    /\ peers = [i \in PeerIds |-> Absent]
    /\ req = [r \in Reqs |-> Idle]
    /\ auth = [k \in Auths |-> NoAuth]

-----------------------------------------------------------------------------
NewPeer == [key |-> None, reachable |-> TRUE]

(* put_peer: every row that begins with the id counts as this peer (only   *)
(* its name changes), and the refresh that follows is for the id as given. *)
PutPeer(r, i) ==
    /\ At(r, "idle")
    /\ peers' = IF Like(i) # {} THEN peers ELSE [peers EXCEPT ![i] = NewPeer]
    /\ req' = [req EXCEPT ![r] = [pc |-> "ask", id |-> i, key |-> None]]
    /\ UNCHANGED auth

(* update_all_peer_pubkeys: one call for each peer that has a key.  A call *)
(* that raises ends gather, not the other calls.                           *)
RefreshPeer(r, i) ==
    /\ At(r, "idle")
    /\ i \in Present /\ peers[i].key # None
    /\ req' = [req EXCEPT ![r] = [pc |-> "ask", id |-> i, key |-> None]]
    /\ UNCHANGED <<peers, auth>>

-----------------------------------------------------------------------------
(* update_peer_meta: whoareyou is answered by whoever holds the domain     *)

(* Nobody answers.                                                         *)
NoConnection(r) ==
    /\ At(r, "ask")
    /\ req' = [req EXCEPT ![r].pc = "mark"]
    /\ UNCHANGED <<peers, auth>>

(* An HTTP error: raise_for_status raises an exception of requests, not    *)
(* the httpx.HTTPStatusError that is caught.                               *)
HttpError(r) ==
    /\ At(r, "ask")
    /\ req' = [req EXCEPT ![r] = Idle]
    /\ UNCHANGED <<peers, auth>>

(* Fault: the answer is not compared with the peer that was asked.         *)
AcceptsAnyone(r, id, key) == StartsWith(key, id)

(* The identity that answers is the one that was asked for, and            *)
(* (public_bytes_must_match_id) its key is that of its id.                 *)
AcceptsAnswer(r, id, key) == StartsWith(id, req[r].id) /\ StartsWith(key, id)

Answer(r, id, key) ==
    /\ At(r, "ask")
    /\ req' = [req EXCEPT ![r] = IF AcceptsAnswer(r, id, key)
                                 THEN [@ EXCEPT !.pc = "store", !.key = key] ELSE Idle]
    /\ UNCHANGED <<peers, auth>>

(* Fault: a row that has gone is inserted again.                           *)
UpsertById(i, row) == [peers EXCEPT ![i] = row]

(* UPDATE ... WHERE id = i                                                 *)
UpdateById(i, row) == IF peers[i] = Absent THEN peers ELSE [peers EXCEPT ![i] = row]

MarkUnreachable(r) ==
    /\ At(r, "mark")
    /\ LET i == req[r].id
       IN  peers' = UpdateById(i, [key |-> IF peers[i] = Absent THEN None ELSE peers[i].key,
                                   reachable |-> FALSE])
    /\ req' = [req EXCEPT ![r] = Idle]
    /\ UNCHANGED auth

StoreMeta(r) ==
    /\ At(r, "store")
    /\ peers' = UpdateById(req[r].id, [key |-> req[r].key, reachable |-> TRUE])
    /\ req' = [req EXCEPT ![r] = Idle]
    /\ UNCHANGED auth

(* delete_peer: remove_by_id_prefix, without a least length.               *)
DeletePeer(p) ==
    /\ Like(p) # {}
    /\ peers' = [i \in PeerIds |-> IF i \in Like(p) THEN Absent ELSE peers[i]]
    /\ UNCHANGED <<req, auth>>

-----------------------------------------------------------------------------
(* verify_peer_auth *)

(* resolve_public_key and the check of the signature.                      *)
Resolves(i, signer) == peers[i].key = signer

(* All peers are read, by short id; the last of several with the same one  *)
(* stays.  The signature names a keyid and is made with the signer's key.  *)
Verify(k, signer, keyid) ==
    /\ auth[k].pc = "idle"
    /\ \E i \in Present :
          /\ ShortId(i) = keyid
          /\ Resolves(i, signer)
    /\ auth' = [auth EXCEPT ![k] =
                   [pc |-> "lookup", signer |-> signer, keyid |-> keyid, peer |-> None]]
    /\ UNCHANGED <<peers, req>>

(* get_peer_by_id(keyid): the first row that begins with the keyid.        *)
Lookup(k) ==
    /\ auth[k].pc = "lookup"
    /\ \/ /\ Like(auth[k].keyid) = {}
          /\ auth' = [auth EXCEPT ![k] = NoAuth]
       \/ \E i \in Like(auth[k].keyid) :
             auth' = [auth EXCEPT ![k].pc = "granted", ![k].peer = i]
    /\ UNCHANGED <<peers, req>>

(* on_peer_auth and the answer.                                            *)
Finish(k) ==
    /\ auth[k].pc = "granted"
    /\ auth' = [auth EXCEPT ![k] = NoAuth]
    /\ UNCHANGED <<peers, req>>

-----------------------------------------------------------------------------
ReqStep(r) ==
    \/ \E i \in PeerIds : PutPeer(r, i) \/ RefreshPeer(r, i)
    \/ NoConnection(r) \/ HttpError(r)
    \/ \E id \in PeerIds, key \in Shards : Answer(r, id, key)
    \/ MarkUnreachable(r) \/ StoreMeta(r)

AuthStep(k) ==
    \/ \E s, t \in Shards : Verify(k, s, ShortId(t))
    \/ Lookup(k) \/ Finish(k)

Next ==
    \/ \E r \in Reqs : ReqStep(r)
    \/ \E p \in Beginnings : DeletePeer(p)
    \/ \E k \in Auths : AuthStep(k)

Spec == Init /\ [][Next]_vars

-----------------------------------------------------------------------------
(* Types of the variables.                                                 *)
TypeOK ==
    /\ peers \in [PeerIds -> {Absent} \cup [key : Shards \cup {None}, reachable : BOOLEAN]]
    /\ req \in [Reqs -> [pc : {"idle", "ask", "mark", "store"}, id : PeerIds \cup {None},
                         key : Shards \cup {None}]]
    /\ auth \in [Auths -> [pc : {"idle", "lookup", "granted"}, signer : Shards \cup {None},
                           keyid : {ShortId(s) : s \in Shards} \cup {None},
                           peer : PeerIds \cup {None}]]

(* The key that is stored for a peer is a key of an id that begins with    *)
(* the row's id, whoever answered at its domain and whatever was deleted   *)
(* and added again meanwhile (update_peer_meta, Peer's validator).         *)
KeyMatchesId == \A i \in Present : peers[i].key # None => StartsWith(peers[i].key, i)

(* Whoever is let in as a peer holds the key of a shard with that peer's   *)
(* short id, although the table may change between the verification and    *)
(* the lookup (verify_peer_auth).                                          *)
SharesShortId ==
    \A k \in Auths : auth[k].pc = "granted" => ShortId(auth[k].peer) = ShortId(auth[k].signer)

(* A peer is let in by its key: keys are stored only for the ids they      *)
(* belong to, and only who holds one gets in.                              *)
AuthenticatedByKey == KeyMatchesId /\ SharesShortId

(* A refresh that comes back late does not bring a deleted peer back: a    *)
(* row that appears is new and has no key (update_by_id).                  *)
NoLateReturn ==
    [][\A i \in PeerIds : peers[i] = Absent /\ peers'[i] # Absent => peers'[i].key = None]_vars

=============================================================================
