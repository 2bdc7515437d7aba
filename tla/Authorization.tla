--------------------------- MODULE Authorization ---------------------------
(***************************************************************************)
(* web/internal/auth.py, GET /auth: what traefik asks before it passes a   *)
(* request on to an app.  The handler finds the app through the cache      *)
(* _app_cache, the rule through the app's metadata on disk, and notes the  *)
(* access in the cached InstalledApp and, debounced, in its row.           *)
(*                                                                         *)
(* Around it the installation worker changes rows and files, and announces *)
(* every change with on_apps_update after its commit.  Who the client is   *)
(* (Terminals, Peers) is a choice here.                                    *)
(***************************************************************************)
EXTENDS Naturals, Sequences, FiniteSets, SequencesExt

CONSTANTS
    Apps,
    Requests,
    Clients,     \* the kinds of clients that ask
    Uris,        \* the paths requests ask for, as sequences
    Metas,       \* the "paths" sections an app may come with: prefix -> access
    NoMeta,      \* app_meta.json is not there
    NoRow,       \* installed_apps has no row
    Never,       \* a row with last_access NULL
    Unread,      \* _app_cache has no entry
    Nothing,     \* _app_cache has the entry None
    NoRule,      \* _match_path fell off its loop
    Frequency,   \* apps.last_access.max_update_frequency
    MaxTime,     \* bound of the clock
    MaxChanges   \* bound of the changes announced

ASSUME TimesAssumption ==
    /\ Frequency \in Nat \ {0} /\ MaxTime \in Nat /\ MaxChanges \in Nat
    /\ NoRow \notin Nat /\ Never \notin Nat /\ NoRow # Never

ASSUME PathsAssumption ==
    /\ NoMeta \notin Metas
    /\ \A m \in Metas : IsFiniteSet(DOMAIN m) /\ \A p \in DOMAIN m : Len(p) \in Nat

ASSUME CacheAssumption == Unread \notin Requests /\ Nothing \notin Requests

VARIABLES
    now,
    row,       \* installed_apps: last_access of each app
    meta,      \* the files of each app
    pending,   \* changes that are committed and not yet announced
    changes,   \* number of changes so far
    cache,     \* _app_cache: the request that made the cached object
    object,    \* last_access in the InstalledApp that a request made
    visit,     \* the handlers
    late,      \* history: apps whose entry was stored after its invalidation
    crossed    \* history: apps removed, or with two writes of last_access at once

authVars == <<now, row, meta, pending, changes, cache, object, visit, late, crossed>>

Time == 0..MaxTime

-----------------------------------------------------------------------------
(* Rules *)

(* The access of the first path in the list that uri starts with.          *)
FirstMatch(uri, paths, order) ==
    LET matching == {i \in DOMAIN order : IsPrefix(order[i], uri)}
    IN  IF matching = {} THEN NoRule ELSE paths[order[Min(matching)]]

(* Fault: the paths in order of increasing length.                         *)
ShortestFirst(s) == \A i, j \in DOMAIN s : i < j => Len(s[i]) <= Len(s[j])

(* sorted(..., key=len, reverse=True)                                      *)
LongestFirst(s) == \A i, j \in DOMAIN s : i < j => Len(s[i]) >= Len(s[j])

MatchPath(uri, paths) ==
    FirstMatch(uri, paths, CHOOSE s \in SetToSeqs(DOMAIN paths) : LongestFirst(s))

ClientType == {"terminal", "peer", "anonymous"}

ASSUME ClientsAssumption == Clients \subseteq ClientType

(* Access.PRIVATE is for terminals only, Access.PEER for peers only.       *)
Admits(access, client) ==
    /\ access = "private" => client = "terminal"
    /\ access = "peer" => client = "peer"

-----------------------------------------------------------------------------
NoVisit ==
    [pc |-> "idle", app |-> Nothing, uri |-> << >>, seen |-> NoRow, overlap |-> FALSE,
     obj |-> Nothing, rule |-> NoRule, client |-> "anonymous", at |-> 0, during |-> {}]

AuthorizationInit ==
    /\ now = 0
    /\ row \in [Apps -> {NoRow, Never}]
    /\ meta \in [Apps -> Metas \cup {NoMeta}]
    /\ \A a \in Apps : meta[a] = NoMeta <=> row[a] = NoRow
    /\ pending = 0 /\ changes = 0
    /\ cache = [a \in Apps |-> Unread]
    /\ object = [r \in Requests |-> Never]
    /\ visit = [r \in Requests |-> NoVisit]
    /\ late = {} /\ crossed = {}

Tick ==
    /\ now < MaxTime
    /\ now' = now + 1
    /\ UNCHANGED <<row, meta, pending, changes, cache, object, visit, late, crossed>>

-----------------------------------------------------------------------------
(* The installation worker and its requests; see AppInstallation. *)

Announced ==
    /\ changes < MaxChanges
    /\ changes' = changes + 1
    /\ pending' = pending + 1

(* What lies on disk while a request is handled (history).                 *)
Watch(a, m) ==
    [r \in Requests |->
        IF visit[r].app = a /\ visit[r].pc # "granted"
        THEN [visit[r] EXCEPT !.during = @ \cup {m}]
        ELSE visit[r]]

(* Fault: the insertion is not announced.                                  *)
InsertSilently(a) ==
    /\ row[a] = NoRow
    /\ row' = [row EXCEPT ![a] = Never]
    /\ UNCHANGED <<now, meta, pending, changes, cache, object, visit, late, crossed>>

InsertRow(a) ==
    /\ row[a] = NoRow
    /\ row' = [row EXCEPT ![a] = Never]
    /\ Announced
    /\ UNCHANGED <<now, meta, cache, object, visit, late, crossed>>

(* An installation or reinstallation puts the app's files in place.        *)
Unpack(a, m) ==
    /\ row[a] # NoRow
    /\ meta' = [meta EXCEPT ![a] = m]
    /\ Announced
    /\ visit' = Watch(a, m)
    /\ UNCHANGED <<now, row, cache, object, late, crossed>>

(* rmtree of an uninstallation or reinstallation.                          *)
RemoveFiles(a) ==
    /\ row[a] # NoRow /\ meta[a] # NoMeta
    /\ meta' = [meta EXCEPT ![a] = NoMeta]
    /\ UNCHANGED <<now, row, pending, changes, cache, object, visit, late, crossed>>

RemoveRow(a) ==
    /\ row[a] # NoRow /\ meta[a] = NoMeta
    /\ row' = [row EXCEPT ![a] = NoRow]
    /\ Announced
    /\ crossed' = crossed \cup {a}
    /\ UNCHANGED <<now, meta, cache, object, visit, late>>

(* _invalidate_app_cache, the receiver of on_apps_update.  A handler that  *)
(* has read its row already will store what is out of date.                *)
InvalidateAppCache ==
    /\ pending > 0
    /\ pending' = pending - 1
    /\ cache' = [a \in Apps |-> Unread]
    /\ visit' = [r \in Requests |-> [visit[r] EXCEPT !.overlap = @ \/ visit[r].pc = "store"]]
    /\ late' = {}
    /\ UNCHANGED <<now, row, meta, changes, object, crossed>>

-----------------------------------------------------------------------------
(* The handler *)

VisitGoto(r, pc) == visit' = [visit EXCEPT ![r].pc = pc]

Granted(r, at) ==
    visit' = [visit EXCEPT ![r] = [NoVisit EXCEPT !.pc = "granted", !.app = visit[r].app, !.at = at]]

End(r, pc) == visit' = [visit EXCEPT ![r] = [NoVisit EXCEPT !.pc = pc]]

(* _match_app has the app, _match_path follows in the same step: without   *)
(* metadata it raises.                                                     *)
Matched(r, q, obj) ==
    visit' = [visit EXCEPT ![r] =
               IF meta[q.app] = NoMeta THEN [NoVisit EXCEPT !.pc = "error"]
               ELSE [q EXCEPT !.pc = "auth", !.obj = obj, !.seen = NoRow, !.overlap = FALSE,
                              !.rule = MatchPath(q.uri, meta[q.app])]]

(* A request comes in.  A cached None is an answer, too.                   *)
Arrive(r, a, uri) ==
    /\ visit[r].pc = "idle"
    /\ LET q == [NoVisit EXCEPT !.app = a, !.uri = uri, !.during = {meta[a]}]
       IN  \/ cache[a] = Unread /\ visit' = [visit EXCEPT ![r] = [q EXCEPT !.pc = "read"]]
           \/ cache[a] = Nothing /\ visit' = [visit EXCEPT ![r] = [NoVisit EXCEPT !.pc = "refused"]]
           \/ cache[a] \in Requests /\ Matched(r, q, cache[a])
    /\ UNCHANGED <<now, row, meta, pending, changes, cache, object, late, crossed>>

(* _find_app: the SELECT ...                                               *)
FindApp(r) ==
    /\ visit[r].pc = "read"
    /\ visit' = [visit EXCEPT ![r].pc = "store", ![r].seen = row[visit[r].app]]
    /\ UNCHANGED <<now, row, meta, pending, changes, cache, object, late, crossed>>

(* ... and, after the connection has been given back, the store, over      *)
(* whatever another handler has stored meanwhile.                          *)
StoreApp(r) ==
    LET q == visit[r] a == q.app IN
    /\ q.pc = "store"
    /\ cache' = [cache EXCEPT ![a] = IF q.seen = NoRow THEN Nothing ELSE r]
    /\ object' = [object EXCEPT ![r] = IF q.seen = NoRow THEN Never ELSE q.seen]
    /\ late' = IF q.overlap THEN late \cup {a} ELSE late \ {a}
    /\ \/ q.seen = NoRow /\ End(r, "refused")
       \/ q.seen # NoRow /\ Matched(r, q, r)
    /\ UNCHANGED <<now, row, meta, pending, changes, crossed>>

(* _get_auth_state and _get_identity.                                      *)
GetAuthState(r, client) ==
    /\ visit[r].pc = "auth"
    /\ visit' = [visit EXCEPT ![r].pc = "decide", ![r].client = client]
    /\ UNCHANGED <<now, row, meta, pending, changes, cache, object, late, crossed>>

(* authenticate_and_authorize: a missing rule has no attribute "access".   *)
Authorize(r) ==
    LET q == visit[r] IN
    /\ q.pc = "decide"
    /\ \/ q.rule = NoRule /\ End(r, "error")
       \/ q.rule # NoRule /\ ~Admits(q.rule, q.client) /\ End(r, "refused")
       \/ q.rule # NoRule /\ Admits(q.rule, q.client) /\ VisitGoto(r, "access")
    /\ UNCHANGED <<now, row, meta, pending, changes, cache, object, late, crossed>>

(* An awaited call raises: no connection to be had, or another receiver of *)
(* on_request_to_app.  The answer is a 500.                                *)
HandlerFails(r) ==
    /\ visit[r].pc \in {"read", "auth", "access", "write"}
    /\ End(r, "error")
    /\ UNCHANGED <<now, row, meta, pending, changes, cache, object, late, crossed>>

(* Fault: at the frequency itself the row is not written, either.          *)
RecentClosed(last) == last # Never /\ now - last <= Frequency

Recent(last) == last # Never /\ now - last < Frequency

InWrite(a) == {r \in Requests : visit[r].app = a /\ visit[r].pc \in {"write", "note"}}

(* update_last_access, the receiver of on_request_to_app.                  *)
Debounce(r) ==
    /\ visit[r].pc = "access"
    /\ \/ /\ Recent(object[visit[r].obj])
          /\ Granted(r, now)
          /\ UNCHANGED crossed
       \/ /\ ~Recent(object[visit[r].obj])
          /\ visit' = [visit EXCEPT ![r].pc = "write", ![r].at = now]
          /\ crossed' = IF InWrite(visit[r].app) = {} THEN crossed ELSE crossed \cup {visit[r].app}
    /\ UNCHANGED <<now, row, meta, pending, changes, cache, object, late>>

(* The UPDATE changes nothing when the row is gone.                        *)
WriteLastAccess(r) ==
    LET a == visit[r].app IN
    /\ visit[r].pc = "write"
    /\ row' = IF row[a] = NoRow THEN row ELSE [row EXCEPT ![a] = visit[r].at]
    /\ VisitGoto(r, "note")
    /\ UNCHANGED <<now, meta, pending, changes, cache, object, late, crossed>>

(* app.last_access = now, in the object this handler found in the cache.   *)
NoteLastAccess(r) ==
    /\ visit[r].pc = "note"
    /\ object' = [object EXCEPT ![visit[r].obj] = visit[r].at]
    /\ Granted(r, visit[r].at)
    /\ UNCHANGED <<now, row, meta, pending, changes, cache, late, crossed>>

-----------------------------------------------------------------------------
AuthorizationNext ==
    \/ Tick \/ InvalidateAppCache
    \/ \E a \in Apps :
          InsertRow(a) \/ RemoveFiles(a) \/ RemoveRow(a) \/ \E m \in Metas : Unpack(a, m)
    \/ \E r \in Requests :
          \/ \E a \in Apps, uri \in Uris : Arrive(r, a, uri)
          \/ FindApp(r) \/ StoreApp(r) \/ Authorize(r) \/ HandlerFails(r)
          \/ \E client \in Clients : GetAuthState(r, client)
          \/ Debounce(r) \/ WriteLastAccess(r) \/ NoteLastAccess(r)

AuthorizationSpec == AuthorizationInit /\ [][AuthorizationNext]_authVars

-----------------------------------------------------------------------------
PC == {"idle", "read", "store", "auth", "decide", "access", "write", "note",
       "granted", "refused", "error"}

(* The handler has its app, and later its rule.                            *)
MatchedPC == {"auth", "decide", "access", "write", "note"}

Rule == {NoRule} \cup UNION {{m[p] : p \in DOMAIN m} : m \in Metas}

Handler ==
    [pc : PC, app : Apps \cup {Nothing}, uri : Uris \cup {<< >>}, seen : Time \cup {NoRow, Never},
     overlap : BOOLEAN, obj : Requests \cup {Nothing}, rule : Rule, client : ClientType,
     at : Time, during : SUBSET (Metas \cup {NoMeta})]

(* Types of the variables, and what the cache points to.                   *)
AuthorizationTypeOK ==
    /\ now \in Time
    /\ row \in [Apps -> Time \cup {NoRow, Never}]
    /\ meta \in [Apps -> Metas \cup {NoMeta}]
    /\ changes \in 0..MaxChanges /\ pending \in 0..changes
    /\ cache \in [Apps -> Requests \cup {Unread, Nothing}]
    /\ object \in [Requests -> Time \cup {Never}]
    /\ visit \in [Requests -> Handler]
    /\ \A r \in Requests : visit[r].pc \in MatchedPC => visit[r].obj \in Requests

(* The cache knows which apps exist: an entry that disagrees with the      *)
(* table is wrong only until the pending announcement arrives, unless a    *)
(* handler stored what it had read before an announcement.                 *)
CacheFollows ==
    \A a \in Apps :
        \/ cache[a] \in Requests /\ row[a] # NoRow
        \/ cache[a] = Nothing /\ row[a] = NoRow
        \/ cache[a] = Unread
        \/ pending > 0 \/ a \in late

(* A request passes only under rules that lay on disk while it was being   *)
(* handled, whatever the cache says about the app: the longest prefix of   *)
(* its path that has a rule admits the client.                             *)
GrantedByRules ==
    \A r \in Requests : visit[r].pc \in {"access", "write", "note"} =>
        \E m \in visit[r].during \ {NoMeta} :
            \E p \in DOMAIN m :
                /\ IsPrefix(p, visit[r].uri)
                /\ \A q \in DOMAIN m : IsPrefix(q, visit[r].uri) => Len(q) <= Len(p)
                /\ Admits(m[p], visit[r].client)

(* Accesses are debounced, not lost: after a request the row's last access *)
(* is less than max_update_frequency before it, although the handlers      *)
(* compare with an object that may be a stale copy of the row.             *)
AccessNoted ==
    \A r \in Requests :
        LET last == row[visit[r].app] IN
        visit[r].pc = "granted" /\ visit[r].app \notin crossed =>
            /\ last \in Time
            /\ visit[r].at < last + Frequency
=============================================================================
