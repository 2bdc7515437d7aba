---------------------------- MODULE AppOwnership ----------------------------
(***************************************************************************)
(* What the installed_apps table and the per-app op locks promise to the   *)
(* rest of the core, without the coroutines that keep the promise: an app  *)
(* is owned by at most one coroutine at a time, ownership passes only      *)
(* through "free", and a row disappears only while the installation worker *)
(* owns the app.  AppLifecycle implements this specification.              *)
(***************************************************************************)
CONSTANTS Apps, Owners, Worker, None

VARIABLES
    exists,   \* the apps that have a row
    owner     \* who is inside "async with app_op_lock(app)"

ownershipVars == <<exists, owner>>

Init ==
    /\ exists = {}
    /\ owner = [a \in Apps |-> None]

(* An install request is accepted, also while an earlier uninstall of the  *)
(* same app is finishing.                                                  *)
Insert(a) ==
    /\ a \notin exists
    /\ exists' = exists \cup {a}
    /\ UNCHANGED owner

Remove(a) ==
    /\ a \in exists
    /\ owner[a] = Worker
    /\ exists' = exists \ {a}
    /\ UNCHANGED owner

Acquire(a, x) ==
    /\ owner[a] = None
    /\ owner' = [owner EXCEPT ![a] = x]
    /\ UNCHANGED exists

(* An owner leaves its critical section; when the process stops, several   *)
(* or all of them do.                                                      *)
Leave ==
    /\ \E S \in SUBSET Apps : owner' = [a \in Apps |-> IF a \in S THEN None ELSE owner[a]]
    /\ UNCHANGED exists

Next ==
    \/ \E a \in Apps : Insert(a) \/ Remove(a) \/ \E x \in Owners : Acquire(a, x)
    \/ Leave

Spec == Init /\ [][Next]_ownershipVars
=============================================================================
