----------------------------- MODULE Identities -----------------------------
(***************************************************************************)
(* service/identity.py and the endpoints that edit identities, with the    *)
(* cache of the default identity that web/internal/auth.py keeps.          *)
(*                                                                         *)
(* Each statement of a transaction is a step.  Postgres runs at READ       *)
(* COMMITTED: a statement sees what is committed when it starts, an UPDATE *)
(* locks its row until the transaction ends and waits for a row another    *)
(* transaction has locked.  Nothing in the schema says that there is one   *)
(* default.                                                                *)
(***************************************************************************)
EXTENDS FiniteSets

CONSTANTS
    Ids,       \* identities that are there or may be added
    Initial,   \* the default identity of the first start
    Reqs,      \* requests that change identities
    Fills,     \* /auth requests that read the default identity
    NoId

ASSUME InitialAssumption == Initial \in Ids /\ NoId \notin Ids \cup Reqs

VARIABLES
    rows,      \* table identities, committed: "absent", "plain" or "default"
    lock,      \* the transaction that has locked a row
    req,       \* the requests
    cache,     \* _identity_cache
    fill,      \* the fills of the cache
    clashed,   \* history: two make_default were under way at the same time
    late       \* history: what is cached was read before an invalidation

identityVars == <<rows, lock, req, cache, fill, clashed, late>>

-----------------------------------------------------------------------------
Defaults == {i \in Ids : rows[i] = "default"}

ReqPC == {"idle", "check", "clear", "set", "commit", "edit", "signal"}

NoReq == [pc |-> "idle", id |-> NoId, last |-> NoId]

NoFill == [pc |-> "idle", seen |-> NoId, late |-> FALSE]

At(r, pc) == req[r].pc = pc

Goto(r, pc) == req' = [req EXCEPT ![r].pc = pc]

(* The process has started: init_default_identity has committed.           *)
IdentitiesInit ==
    /\ rows = [i \in Ids |-> IF i = Initial THEN "default" ELSE "absent"]
    /\ lock = [i \in Ids |-> NoId]
    /\ req = [r \in Reqs |-> NoReq]
    /\ cache = NoId
    /\ fill = [k \in Fills |-> NoFill]
    /\ clashed = FALSE
    /\ late = FALSE

-----------------------------------------------------------------------------
(* make_default *)

InMakeDefault(r) == req[r].pc \in {"check", "clear", "set", "commit"}

(* get_default: fetchone of several rows is any of them.                   *)
ReadDefault(r, id) ==
    /\ At(r, "idle")
    /\ \E d \in Defaults : req' = [req EXCEPT ![r] = [pc |-> "check", id |-> id, last |-> d]]
    /\ clashed' = (clashed \/ \E s \in Reqs : InMakeDefault(s))
    /\ UNCHANGED <<rows, lock, cache, fill, late>>

ReadTarget(r) ==
    /\ At(r, "check")
    /\ Goto(r, IF rows[req[r].id] = "absent" THEN "idle" ELSE "clear")
    /\ UNCHANGED <<rows, lock, cache, fill, clashed, late>>

Lock(r, i) == lock[i] \in {NoId, r} /\ lock' = [lock EXCEPT ![i] = r]

Unlock(r) == lock' = [i \in Ids |-> IF lock[i] = r THEN NoId ELSE lock[i]]

(* UPDATE ... SET is_default = FALSE of the row that was read.             *)
Clear(r) ==
    /\ At(r, "clear")
    /\ Lock(r, req[r].last)
    /\ Goto(r, "set")
    /\ UNCHANGED <<rows, cache, fill, clashed, late>>

(* UPDATE ... SET is_default = TRUE of the new one.                        *)
Set(r) ==
    /\ At(r, "set")
    /\ Lock(r, req[r].id)
    /\ Goto(r, "commit")
    /\ UNCHANGED <<rows, cache, fill, clashed, late>>

Updated(i, flag) == IF rows[i] = "absent" THEN "absent" ELSE flag

(* Fault: the last default keeps its flag.                                 *)
SwapKeeps(r) == [rows EXCEPT ![req[r].id] = Updated(req[r].id, "default")]

(* Both updates; the second one wins when the row is the same.             *)
Swap(r) ==
    LET id == req[r].id
        last == req[r].last
    IN  [i \in Ids |-> CASE i = id -> Updated(i, "default")
                         [] i = last /\ i # id -> Updated(i, "plain")
                         [] OTHER -> rows[i]]

(* Fault: the change is not announced.                                     *)
CommitSilently(r) ==
    /\ At(r, "commit")
    /\ rows' = Swap(r)
    /\ Unlock(r)
    /\ Goto(r, "idle")
    /\ UNCHANGED <<cache, fill, clashed, late>>

CommitChange(r) ==
    /\ At(r, "commit")
    /\ rows' = Swap(r)
    /\ Unlock(r)
    /\ Goto(r, "signal")
    /\ UNCHANGED <<cache, fill, clashed, late>>

(* The transaction is rolled back: a deadlock, a lost connection, a client *)
(* that went away.                                                         *)
Rollback(r) ==
    /\ InMakeDefault(r)
    /\ Unlock(r)
    /\ Goto(r, "idle")
    /\ UNCHANGED <<rows, cache, fill, clashed, late>>

(* on_identity_update: _invalidate_identity_cache, after the commit.       *)
Signal(r) ==
    /\ At(r, "signal")
    /\ cache' = NoId /\ late' = FALSE
    /\ fill' = [k \in Fills |-> [fill[k] EXCEPT !.late = fill[k].pc = "store"]]
    /\ Goto(r, "idle")
    /\ UNCHANGED <<rows, lock, clashed>>

-----------------------------------------------------------------------------
(* put_identity without an id: Identity.create is not a default.           *)
AddIdentity(i) ==
    /\ rows[i] = "absent"
    /\ rows' = [rows EXCEPT ![i] = "plain"]
    /\ UNCHANGED <<lock, req, cache, fill, clashed, late>>

(* put_identity of a known one: the columns name, email, description.      *)
PutIdentity(r, i) ==
    /\ At(r, "idle")
    /\ rows[i] # "absent"
    /\ req' = [req EXCEPT ![r] = [pc |-> "edit", id |-> i, last |-> NoId]]
    /\ UNCHANGED <<rows, lock, cache, fill, clashed, late>>

(* enrich_identity_from_profile: what was the default when it was read.    *)
Enrich(r) ==
    /\ At(r, "idle")
    /\ \E d \in Defaults : req' = [req EXCEPT ![r] = [pc |-> "edit", id |-> d, last |-> d]]
    /\ UNCHANGED <<rows, lock, cache, fill, clashed, late>>

(* update_identity: one statement in a transaction of its own.             *)
UpdateIdentity(r) ==
    /\ At(r, "edit")
    /\ lock[req[r].id] = NoId
    /\ Goto(r, "signal")
    /\ UNCHANGED <<rows, lock, cache, fill, clashed, late>>

-----------------------------------------------------------------------------
(* auth._get_identity: the row is read before an await and stored after it *)

FillRead(k) ==
    /\ cache = NoId /\ fill[k].pc = "idle"
    /\ \E d \in Defaults : fill' = [fill EXCEPT ![k] = [pc |-> "store", seen |-> d, late |-> FALSE]]
    /\ UNCHANGED <<rows, lock, req, cache, clashed, late>>

FillStore(k) ==
    /\ fill[k].pc = "store"
    /\ cache' = fill[k].seen
    /\ late' = fill[k].late
    /\ fill' = [fill EXCEPT ![k] = NoFill]
    /\ UNCHANGED <<rows, lock, req, clashed>>

-----------------------------------------------------------------------------
ReqStep(r) ==
    \/ \E id \in Ids : ReadDefault(r, id) \/ PutIdentity(r, id)
    \/ ReadTarget(r) \/ Clear(r) \/ Set(r) \/ CommitChange(r) \/ Rollback(r) \/ Signal(r)
    \/ Enrich(r) \/ UpdateIdentity(r)

FillStep(k) == FillRead(k) \/ FillStore(k)

IdentitiesNext ==
    \/ \E r \in Reqs : ReqStep(r)
    \/ \E i \in Ids : AddIdentity(i)
    \/ \E k \in Fills : FillStep(k)

IdentitiesSpec == IdentitiesInit /\ [][IdentitiesNext]_identityVars

-----------------------------------------------------------------------------
(* Types of the variables; a locked row belongs to a transaction under way.*)
IdentitiesTypeOK ==
    /\ rows \in [Ids -> {"absent", "plain", "default"}]
    /\ lock \in [Ids -> Reqs \cup {NoId}]
    /\ \A i \in Ids : lock[i] # NoId => req[lock[i]].pc \in {"set", "commit"}
    /\ req \in [Reqs -> [pc : ReqPC, id : Ids \cup {NoId}, last : Ids \cup {NoId}]]
    /\ cache \in Ids \cup {NoId}
    /\ fill \in [Fills -> [pc : {"idle", "store"}, seen : Ids \cup {NoId}, late : BOOLEAN]]
    /\ clashed \in BOOLEAN /\ late \in BOOLEAN

(* There is a default identity after every commit and rollback: whoareyou, *)
(* signed calls, /auth and pairing build an Identity from get_default      *)
(* without a look whether there is a row.                                  *)
DefaultExists == Defaults # {}

(* As long as no two make_default overlap there is exactly one default.    *)
SingleUnlessClash == ~clashed => \E d \in Ids : Defaults = {d}

(* The shard never is without a default identity, and has one only, if no  *)
(* two make_default overlap.                                               *)
DefaultKept == DefaultExists /\ SingleUnlessClash

(* The identity that /auth puts into headers has lost its flag only for as *)
(* long as the signal of the change is on its way, unless its row was read *)
(* before an invalidation and cached after it.                             *)
CacheFollows ==
    cache # NoId /\ rows[cache] # "default" => late \/ \E r \in Reqs : At(r, "signal")
=============================================================================
