----------------------------- MODULE MCAccounts -----------------------------
(***************************************************************************)
(* Who the shard knows: terminals, identities and their avatars.  The      *)
(* parts share no state, so that steps of one do not matter to another;    *)
(* each behaviour is one of the part that is chosen at its beginning, and  *)
(* the other parts stay as they are.                                       *)
(***************************************************************************)
EXTENDS Terminals, Identities, Avatars, TLC

CONSTANTS
    i1, i2,           \* identities with avatars
    prefix, unknown   \* the beginning of both ids, and the id of nobody

VARIABLE part

FourNames == {i1, i2, prefix, unknown}

TheirGlob ==
    [n \in FourNames |-> CASE n = prefix -> {i1, i2} [] n = unknown -> {} [] OTHER -> {n}]

AccountsInit ==
    /\ part \in {"terminals", "identities", "avatars"}
    /\ Init /\ IdentitiesInit /\ AvatarsInit

AccountsNext ==
    /\ UNCHANGED part
    /\ \/ part = "terminals" /\ Next /\ UNCHANGED <<identityVars, avatarVars>>
       \/ part = "identities" /\ IdentitiesNext /\ UNCHANGED <<vars, avatarVars>>
       \/ part = "avatars" /\ AvatarsNext /\ UNCHANGED <<vars, identityVars>>

AccountsSpec ==
    AccountsInit /\ [][AccountsNext]_<<part, vars, identityVars, avatarVars>>

Symmetry == Permutations(Terms)
=============================================================================
