----------------------------- MODULE MCRequests -----------------------------
(***************************************************************************)
(* What a request from outside meets: the routers of traefik, /auth with   *)
(* the rules of apps, the signatures of peers and the secret of the        *)
(* management calls.  The parts share no state; each behaviour is one of   *)
(* the part that is chosen at its beginning, and the other parts stay as   *)
(* they are.                                                               *)
(***************************************************************************)
EXTENDS Peers, Management, Authorization, TraefikConfig, TLC

VARIABLE part

(* Two shards with the same short id and one with another.                 *)
Collide == {<<1, 1>>, <<1, 2>>, <<2>>}

Root == <<"/">>
Page == <<"/", "p">>

(* An app with a peer page below a public root, and one without a rule for *)
(* its root.                                                               *)
TwoMetas == {(Root :> "public") @@ (Page :> "peer"), Page :> "private"}

TwoUris == {<<"/", "p", "x">>, <<"/", "q">>}

RequestsInit ==
    /\ part \in {"peers", "management", "rules", "routes"}
    /\ Init /\ ManagementInit
    /\ AuthorizationInit /\ (part # "rules" => row = [a \in Apps |-> NoRow])
    /\ TraefikInit /\ (part # "routes" => infos = <<>> /\ ~disableSsl)

RequestsNext ==
    /\ UNCHANGED part
    /\ \/ part = "peers" /\ Next /\ UNCHANGED <<managementVars, authVars, traefikVars>>
       \/ part = "management" /\ ManagementNext /\ UNCHANGED <<vars, authVars, traefikVars>>
       \/ part = "rules" /\ AuthorizationNext /\ UNCHANGED <<vars, managementVars, traefikVars>>
       \/ part = "routes" /\ TraefikNext /\ UNCHANGED <<vars, managementVars, authVars>>

RequestsSpec ==
    RequestsInit /\ [][RequestsNext]_<<part, vars, managementVars, authVars, traefikVars>>

Symmetry == Permutations(Reqs)
=============================================================================
