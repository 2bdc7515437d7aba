----------------------------- MODULE Terminals -----------------------------
(***************************************************************************)
(* Pairing and authentication of terminals: service/pairing.py, the        *)
(* endpoints that pair, delete and verify terminals, and the two values    *)
(* they share in the kv_store, the pairing code and the JWT secret.        *)
(*                                                                         *)
(* Every request is a coroutine; each statement or transaction on the      *)
(* database is a step.  Nothing is locked between a read and the write     *)
(* that depends on it.                                                     *)
(***************************************************************************)
EXTENDS Naturals

CONSTANTS
    Terms,       \* terminals, each with the one request that pairs it
    Checks,      \* requests that carry a token
    Codes,       \* six digit codes
    None,        \* no code, no secret, no terminal
    MaxIssued    \* bound: how many pairing codes are made

ASSUME NamesAssumption == None \notin Terms \cup Codes \cup Nat /\ Terms \cap Checks = {}

ASSUME IssuedAssumption == MaxIssued \in Nat

VARIABLES
    stored,      \* kv_store: pairing_code
    issued,      \* number of codes made so far
    secret,      \* kv_store: terminal_jwt_secret
    secrets,     \* number of secrets generated so far
    terminals,   \* table terminals: committed rows
    pair,        \* the pairing requests
    token,       \* the secret that signed each terminal's JWT
    check,       \* the requests that are being authenticated
    deleted,     \* history: terminals that were deleted
    first,       \* history: requests that saw themselves as the first terminal
    settled,     \* history: terminals whose JWT was made while nobody else created a secret
    redeemed     \* history: which issue of a code each request redeemed

vars == <<stored, issued, secret, secrets, terminals, pair, token, check, deleted, first,
          settled, redeemed>>

codeVars == <<stored, issued>>
secretVars == <<secret, secrets>>
historyVars == <<deleted, first, settled, redeemed>>

-----------------------------------------------------------------------------
PairPC == {"idle", "remove", "insert", "commit", "ensure", "create", "done", "refused"}

CheckPC == {"idle", "ensure", "create", "decode", "lookup", "granted", "denied"}

NoCheck == [pc |-> "idle", term |-> None, secret |-> None, gone |-> FALSE]

PairAt(t, pc) == pair[t] = pc

PairGoto(t, pc) == pair' = [pair EXCEPT ![t] = pc]

CheckAt(k, pc) == check[k].pc = pc

Init ==
    /\ stored = None /\ issued = 0
    /\ secret = None /\ secrets = 0
    /\ terminals = {}
    /\ pair = [t \in Terms |-> "idle"]
    /\ token = [t \in Terms |-> None]
    /\ check = [k \in Checks |-> NoCheck]
    /\ deleted = {} /\ first = {} /\ settled = {}
    /\ redeemed = [t \in Terms |-> 0]

-----------------------------------------------------------------------------
(* make_pairing_code, for a paired terminal, the controller or the welcome *)
(* log: it replaces what is stored.  Random digits may repeat.             *)
MakePairingCode(c) ==
    /\ issued < MaxIssued
    /\ issued' = issued + 1
    /\ stored' = [code |-> c, issue |-> issued + 1, expired |-> FALSE]
    /\ UNCHANGED <<secretVars, terminals, pair, token, check, historyVars>>

(* valid_until passes.                                                     *)
Expire ==
    /\ stored # None /\ ~stored.expired
    /\ stored' = [stored EXCEPT !.expired = TRUE]
    /\ UNCHANGED <<issued, secretVars, terminals, pair, token, check, historyVars>>

Accepts(c) == stored # None /\ stored.code = c /\ ~stored.expired

(* Fault: a refused code does not end the request.                         *)
RedeemRegardless(t, c) ==
    /\ PairAt(t, "idle")
    /\ PairGoto(t, "remove")
    /\ redeemed' = IF Accepts(c) THEN [redeemed EXCEPT ![t] = stored.issue] ELSE redeemed
    /\ UNCHANGED <<codeVars, secretVars, terminals, token, check, deleted, first, settled>>

(* redeem_pairing_code reads and compares; the DELETE comes later.         *)
Redeem(t, c) ==
    /\ PairAt(t, "idle")
    /\ \/ /\ Accepts(c)
          /\ PairGoto(t, "remove")
          /\ redeemed' = [redeemed EXCEPT ![t] = stored.issue]
       \/ ~Accepts(c) /\ PairGoto(t, "refused") /\ UNCHANGED redeemed
    /\ UNCHANGED <<codeVars, secretVars, terminals, token, check, deleted, first, settled>>

(* Fault: the request goes on without removing the code.                   *)
KeepCode(t) ==
    /\ PairAt(t, "remove")
    /\ PairGoto(t, "insert")
    /\ UNCHANGED <<codeVars, secretVars, terminals, token, check, historyVars>>

(* remove_value deletes whatever code is stored by then.                   *)
RemoveCode(t) ==
    /\ PairAt(t, "remove")
    /\ stored' = None
    /\ PairGoto(t, "insert")
    /\ UNCHANGED <<issued, secretVars, terminals, token, check, historyVars>>

(* Fault: the count sees rows that are not committed.                      *)
InsertDirty(t) ==
    /\ PairAt(t, "insert")
    /\ LET visible == terminals \cup {u \in Terms : pair[u] = "commit"}
       IN  first' = IF visible \subseteq {t} THEN first \cup {t} ELSE first
    /\ PairGoto(t, "commit")
    /\ UNCHANGED <<codeVars, secretVars, terminals, token, check, deleted, settled, redeemed>>

(* INSERT, then COUNT in the same transaction: READ COMMITTED counts the   *)
(* committed rows and its own.                                             *)
Insert(t) ==
    /\ PairAt(t, "insert")
    /\ first' = IF terminals = {} THEN first \cup {t} ELSE first
    /\ PairGoto(t, "commit")
    /\ UNCHANGED <<codeVars, secretVars, terminals, token, check, deleted, settled, redeemed>>

Commit(t) ==
    /\ PairAt(t, "commit")
    /\ terminals' = terminals \cup {t}
    /\ PairGoto(t, "ensure")
    /\ UNCHANGED <<codeVars, secretVars, token, check, historyVars>>

-----------------------------------------------------------------------------
(* _ensure_jwt_secret *)

(* A request other than t has found no secret and is about to store one.   *)
OthersCreating(t) ==
    (\E u \in Terms \ {t} : PairAt(u, "create")) \/ (\E k \in Checks : CheckAt(k, "create"))

(* History: t gets its token while nobody else is about to store a secret. *)
Settles(t) == settled' = IF OthersCreating(t) THEN settled ELSE settled \cup {t}

(* create_terminal_jwt signs with what is stored ...                       *)
SignStored(t) ==
    /\ PairAt(t, "ensure")
    /\ secret # None
    /\ token' = [token EXCEPT ![t] = secret]
    /\ Settles(t)
    /\ PairGoto(t, "done")
    /\ UNCHANGED <<codeVars, secretVars, terminals, check, deleted, first, redeemed>>

(* ... or finds that it has to generate a secret ...                       *)
MissSecret(t) ==
    /\ PairAt(t, "ensure")
    /\ secret = None
    /\ PairGoto(t, "create")
    /\ UNCHANGED <<codeVars, secretVars, terminals, token, check, historyVars>>

(* set_value overwrites what another request has stored in between.        *)
NewSecret == secret' = secrets + 1 /\ secrets' = secrets + 1

(* ... stores it and signs with it.                                        *)
SignNew(t) ==
    /\ PairAt(t, "create")
    /\ NewSecret
    /\ token' = [token EXCEPT ![t] = secrets + 1]
    /\ Settles(t)
    /\ PairGoto(t, "done")
    /\ UNCHANGED <<codeVars, terminals, check, deleted, first, redeemed>>

(* The request ends early: no connection within the timeout, the client    *)
(* goes away, the process stops.  What is committed stays.                 *)
PairAborts(t) ==
    /\ pair[t] \in {"remove", "insert", "commit", "ensure", "create"}
    /\ PairGoto(t, "refused")
    /\ first' = IF PairAt(t, "commit") THEN first \ {t} ELSE first
    /\ UNCHANGED <<codeVars, secretVars, terminals, token, check, deleted, settled, redeemed>>

-----------------------------------------------------------------------------
(* verify_terminal_jwt, for /authenticate_terminal, /auth and /whoami; the *)
(* token is that of a terminal or (None) any other text.                   *)

CheckGoto(k, pc) == check' = [check EXCEPT ![k].pc = pc]

Arrive(k, t) ==
    /\ CheckAt(k, "idle")
    /\ t # None => token[t] # None
    /\ check' = [check EXCEPT ![k] =
                    [pc |-> "ensure", term |-> t, secret |-> None, gone |-> t \in deleted]]
    /\ UNCHANGED <<codeVars, secretVars, terminals, pair, token, historyVars>>

(* Fault: every call makes a new secret.                                   *)
AlwaysMiss(k) ==
    /\ CheckAt(k, "ensure")
    /\ check' = [check EXCEPT ![k].pc = "create"]
    /\ UNCHANGED <<codeVars, secretVars, terminals, pair, token, historyVars>>

ReadSecret(k) ==
    /\ CheckAt(k, "ensure")
    /\ check' = IF secret = None
                THEN [check EXCEPT ![k].pc = "create"]
                ELSE [check EXCEPT ![k].pc = "decode", ![k].secret = secret]
    /\ UNCHANGED <<codeVars, secretVars, terminals, pair, token, historyVars>>

StoreSecret(k) ==
    /\ CheckAt(k, "create")
    /\ NewSecret
    /\ check' = [check EXCEPT ![k].pc = "decode", ![k].secret = secrets + 1]
    /\ UNCHANGED <<codeVars, terminals, pair, token, historyVars>>

Decode(k) ==
    /\ CheckAt(k, "decode")
    /\ LET t == check[k].term
       IN  CheckGoto(k, IF t # None /\ token[t] = check[k].secret THEN "lookup" ELSE "denied")
    /\ UNCHANGED <<codeVars, secretVars, terminals, pair, token, historyVars>>

Lookup(k) ==
    /\ CheckAt(k, "lookup")
    /\ CheckGoto(k, IF check[k].term \in terminals THEN "granted" ELSE "denied")
    /\ UNCHANGED <<codeVars, secretVars, terminals, pair, token, historyVars>>

(* The answer is sent; the slot is free for another request.               *)
Answer(k) ==
    /\ check[k].pc \in {"granted", "denied"}
    /\ check' = [check EXCEPT ![k] = NoCheck]
    /\ UNCHANGED <<codeVars, secretVars, terminals, pair, token, historyVars>>

(* delete_terminal_by_id *)
DeleteTerminal(t) ==
    /\ t \in terminals
    /\ terminals' = terminals \ {t}
    /\ deleted' = deleted \cup {t}
    /\ UNCHANGED <<codeVars, secretVars, pair, token, check, first, settled, redeemed>>

-----------------------------------------------------------------------------
Next ==
    \/ \E c \in Codes : MakePairingCode(c)
    \/ Expire
    \/ \E t \in Terms :
          \/ \E c \in Codes : Redeem(t, c)
          \/ RemoveCode(t) \/ Insert(t) \/ Commit(t)
          \/ SignStored(t) \/ MissSecret(t) \/ SignNew(t) \/ PairAborts(t)
          \/ DeleteTerminal(t)
    \/ \E k \in Checks :
          \/ \E t \in Terms \cup {None} : Arrive(k, t)
          \/ ReadSecret(k) \/ StoreSecret(k) \/ Decode(k) \/ Lookup(k) \/ Answer(k)

Spec == Init /\ [][Next]_vars

-----------------------------------------------------------------------------
(* Types of the variables.                                                 *)
TypeOK ==
    /\ stored \in {None} \cup [code : Codes, issue : 1..MaxIssued, expired : BOOLEAN]
    /\ issued \in 0..MaxIssued
    /\ secrets \in Nat /\ secret \in {None} \cup (1..secrets)
    /\ terminals \in SUBSET Terms
    /\ pair \in [Terms -> PairPC]
    /\ token \in [Terms -> {None} \cup (1..secrets)]
    /\ check \in [Checks -> [pc : CheckPC, term : Terms \cup {None},
                             secret : {None} \cup (1..secrets), gone : BOOLEAN]]
    /\ deleted \in SUBSET Terms /\ first \in SUBSET Terms /\ settled \in SUBSET Terms
    /\ redeemed \in [Terms -> 0..MaxIssued]

(* A terminal that was deleted before a request arrived is not let in by   *)
(* its token, which is still well signed (verify_terminal_jwt;             *)
(* test_authorization_deleted_terminal).                                   *)
DeletedStaysOut == \A k \in Checks : CheckAt(k, "granted") => ~check[k].gone

(* Whoever is let in holds a token that pairing made for it: it has been   *)
(* through a redeemed code and a committed row, in whatever order secrets  *)
(* were replaced meanwhile.                                                *)
GrantedWasPaired ==
    \A k \in Checks :
        CheckAt(k, "granted") =>
            /\ check[k].term \in terminals \cup deleted
            /\ redeemed[check[k].term] # 0

(* Whoever is let in was paired, and not deleted before it asked.          *)
GrantedRightly == DeletedStaysOut /\ GrantedWasPaired

(* A token that was signed while no other request was about to store a     *)
(* secret keeps its validity: the secret does not change any more          *)
(* (_ensure_jwt_secret).                                                   *)
SettledTokensValid == \A t \in settled : token[t] = secret

(* A code is spent once a request that redeemed it has gone on to add its  *)
(* terminal: whatever is stored from then on was made later, although the  *)
(* requests read, remove and replace the code in any order                 *)
(* (redeem_pairing_code, set_value, remove_value).                         *)
CodeSpent ==
    \A t \in Terms :
        pair[t] \in {"insert", "commit", "ensure", "create", "done"} =>
            stored = None \/ stored.issue > redeemed[t]

(* If any terminal was ever added, some request saw itself as the first    *)
(* one, however the transactions of several pairings overlap and roll back *)
(* (add_terminal: INSERT and COUNT in one transaction).                    *)
FirstNoticed == terminals # {} => first # {}
=============================================================================
