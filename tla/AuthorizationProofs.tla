------------------------ MODULE AuthorizationProofs ------------------------
(***************************************************************************)
(* Safety of Authorization for any apps, rules, paths and clients and any  *)
(* number of concurrent requests: what _match_path finds, what the cache   *)
(* knows, and what remains of the accesses that are noted.  The last part  *)
(* is about TraefikConfig, for any number of apps and entrypoints.         *)
(***************************************************************************)
EXTENDS Authorization, TraefikConfig, FiniteSetTheorems, WellFoundedInduction, TLAPS

-----------------------------------------------------------------------------
(* _match_path *)

(* A set of numbers that is not empty has a least element.                 *)
LEMMA LeastNumber ==
    ASSUME NEW S \in SUBSET Nat, S # {}
    PROVE  \E n \in S : \A k \in S : n <= k
<1>1. PICK n \in S : \A k \in S : ~(<<k, n>> \in OpToRel(<, Nat))
  BY NatLessThanWellFounded, WFMin
<1>2. \A k \in S : ~(k < n)
  BY <1>1 DEF OpToRel
<1>3. QED BY <1>2

(* Paths can be listed in order of decreasing length: of a set without     *)
(* such a list, a smallest one would leave, without its shortest path, a   *)
(* set that has one.                                                       *)
LEMMA SortedExists ==
    ASSUME NEW S, IsFiniteSet(S), \A p \in S : Len(p) \in Nat
    PROVE  \E s \in SetToSeqs(S) : LongestFirst(s)
<1> DEFINE Listed(T) == \E s \in SetToSeqs(T) : LongestFirst(s)
           bad == {T \in SUBSET S : ~Listed(T)}
<1>1. SUFFICES ASSUME ~Listed(S) PROVE FALSE
  OBVIOUS
<1>2. PICK T \in bad : \A U \in bad : ~(<<U, T>> \in StrictSubsetOrdering(S))
  <2>1. bad \subseteq FiniteSubsetsOf(S) /\ S \in bad
    BY <1>1, FS_FiniteSubsetsOfFinite
  <2>2. QED BY <2>1, FS_StrictSubsetOrderingWellFounded, WFMin
<1>3. IsFiniteSet(T) /\ Cardinality(T) \in Nat /\ T \subseteq S /\ ~Listed(T)
  BY <1>2, FS_Subset, FS_CardinalityType
<1>4. CASE T = {}
  <2> DEFINE s == [i \in 1..0 |-> i]
  <2>1. s \in SetToSeqs(T)
    <3>1. Cardinality(T) = 0
      BY <1>4, FS_EmptySet
    <3>2. s \in [1..0 -> T]
      OBVIOUS
    <3>3. QED BY <3>1, <3>2 DEF SetToSeqs
  <2>2. LongestFirst(s)
    BY DEF LongestFirst
  <2>3. QED BY <1>3, <2>1, <2>2
<1>5. CASE T # {}
  <2> DEFINE n == Cardinality(T)
  <2>1. PICK p \in T : \A q \in T : Len(p) <= Len(q)
    <3> DEFINE lengths == {Len(q) : q \in T}
    <3>1. lengths \in SUBSET Nat /\ lengths # {}
      BY <1>3, <1>5
    <3>2. PICK l \in lengths : \A k \in lengths : l <= k
      BY <3>1, LeastNumber
    <3>3. QED BY <3>2
  <2> DEFINE U == T \ {p}
  <2>2. IsFiniteSet(U) /\ Cardinality(U) = n - 1 /\ n # 0
    BY <1>3, <1>5, FS_RemoveElement, FS_EmptySet
  <2>3. Listed(U)
    <3>1. U \in SUBSET S /\ <<U, T>> \in StrictSubsetOrdering(S)
      BY <1>3 DEF StrictSubsetOrdering
    <3>2. QED BY <1>2, <3>1
  <2>4. PICK u \in SetToSeqs(U) : LongestFirst(u)
    BY <2>3
  <2>5. /\ u \in [1..(n - 1) -> U]
        /\ \A i, j \in 1..(n - 1) : i # j => u[i] # u[j]
        /\ \A i, j \in 1..(n - 1) : i < j => Len(u[i]) >= Len(u[j])
    BY <2>2, <2>4 DEF SetToSeqs, LongestFirst
  <2> DEFINE s == [i \in 1..n |-> IF i = n THEN p ELSE u[i]]
  <2>6. ASSUME NEW i \in 1..n
        PROVE  IF i = n THEN s[i] = p ELSE i \in 1..(n - 1) /\ s[i] = u[i] /\ s[i] \in U
    BY <1>3, <2>5
  <2>7. s \in [1..n -> T]
    BY <2>6
  <2>8. \A i, j \in 1..n : i # j => s[i] # s[j]
    BY <2>5, <2>6
  <2>9. s \in SetToSeqs(T)
    BY <2>7, <2>8 DEF SetToSeqs
  <2>10. ASSUME NEW i \in 1..n, NEW j \in 1..n, i < j
         PROVE  Len(s[i]) >= Len(s[j])
    <3>1. i # n /\ s[i] = u[i] /\ s[i] \in U /\ Len(s[i]) \in Nat
      BY <1>3, <2>2, <2>6, <2>10
    <3>2. CASE j = n
      BY <1>3, <2>1, <2>6, <3>1, <3>2
    <3>3. CASE j # n
      BY <2>5, <2>6, <2>10, <3>1, <3>3
    <3>4. QED BY <3>2, <3>3
  <2>11. LongestFirst(s)
    BY <2>10 DEF LongestFirst
  <2>12. QED BY <1>3, <2>9, <2>11
<1>6. QED BY <1>4, <1>5

(* The rule that _match_path finds is the one of the longest path that the *)
(* request's begins with.                                                  *)
LEMMA MatchIsLongest ==
    ASSUME NEW m \in Metas, NEW uri, MatchPath(uri, m) # NoRule
    PROVE  \E p \in DOMAIN m :
              /\ IsPrefix(p, uri)
              /\ \A q \in DOMAIN m : IsPrefix(q, uri) => Len(q) <= Len(p)
              /\ m[p] = MatchPath(uri, m)
<1> DEFINE D == DOMAIN m
           n == Cardinality(D)
           order == CHOOSE s \in SetToSeqs(D) : LongestFirst(s)
           matching == {i \in DOMAIN order : IsPrefix(order[i], uri)}
<1>1. IsFiniteSet(D) /\ (\A p \in D : Len(p) \in Nat) /\ n \in Nat
  BY PathsAssumption, FS_CardinalityType
<1>2. order \in SetToSeqs(D) /\ LongestFirst(order)
  BY <1>1, SortedExists
<1>3. order \in [1..n -> D] /\ \A i, j \in 1..n : i # j => order[i] # order[j]
  BY <1>2 DEF SetToSeqs
<1>4. \A q \in D : \E i \in 1..n : order[i] = q
  <2>1. order \in Injection(1..n, D)
    BY <1>3 DEF Injection, IsInjective
  <2>2. Cardinality(1..n) = n
    BY <1>1, FS_Interval
  <2>3. order \in Surjection(1..n, D)
    BY <1>1, <2>1, <2>2, FS_Injection
  <2>4. QED BY <2>3 DEF Surjection
<1>5. /\ MatchPath(uri, m) = IF matching = {} THEN NoRule ELSE m[order[Min(matching)]]
      /\ matching # {}
  BY DEF MatchPath, FirstMatch
<1>6. matching \in SUBSET Nat /\ matching \subseteq 1..n
  <2> HIDE DEF order
  <2>1. DOMAIN order = 1..n
    BY <1>3
  <2>2. QED BY <2>1
<1>7. Min(matching) \in matching /\ \A k \in matching : Min(matching) <= k
  BY <1>5, <1>6, LeastNumber DEF Min
<1> DEFINE p == order[Min(matching)]
<1>8. p \in D /\ IsPrefix(p, uri) /\ m[p] = MatchPath(uri, m)
  BY <1>3, <1>5, <1>6, <1>7
<1>9. ASSUME NEW q \in D, IsPrefix(q, uri)
      PROVE  Len(q) <= Len(p)
  <2>1. PICK i \in 1..n : order[i] = q
    BY <1>4
  <2>2. i \in matching /\ Min(matching) <= i /\ Min(matching) \in 1..n
    BY <1>3, <1>6, <1>7, <1>9, <2>1
  <2>3. CASE i = Min(matching)
    BY <1>1, <1>8, <2>1, <2>3
  <2>4. CASE i # Min(matching)
    <3>1. Min(matching) < i
      BY <2>2, <2>4
    <3>2. Len(order[Min(matching)]) >= Len(order[i])
      BY <1>2, <1>3, <2>2, <3>1 DEF LongestFirst
    <3>3. QED BY <1>1, <1>8, <2>1, <3>2
  <2>5. QED BY <2>3, <2>4
<1>10. QED BY <1>8, <1>9

-----------------------------------------------------------------------------
(* What the theorems need to be inductive *)

(* A handler that looks for an app, has found it or has passed knows which. *)
WithApp == {"read", "store", "granted"} \cup MatchedPC

NamesApp == \A r \in Requests : visit[r].pc \in WithApp => visit[r].app \in Apps

(* The rule is what _match_path makes of a file that was on disk since the *)
(* request came, and a handler that passed it admits its client; one that  *)
(* has not yet looked has seen every file that was there.                  *)
RulesSeen(r) ==
    /\ visit[r].pc \in {"read", "store"} =>
          meta[visit[r].app] \in visit[r].during \cup {NoMeta}
    /\ visit[r].pc \in MatchedPC =>
          \E m \in visit[r].during \ {NoMeta} : visit[r].rule = MatchPath(visit[r].uri, m)
    /\ visit[r].pc \in {"access", "write", "note"} =>
          visit[r].rule # NoRule /\ Admits(visit[r].rule, visit[r].client)

RulesInv == \A r \in Requests : RulesSeen(r)

(* What a handler has read and not yet stored agrees with the table, or a  *)
(* change is still to be announced.                                        *)
ReadsCurrent(r) ==
    visit[r].pc = "store" /\ ~visit[r].overlap =>
        pending > 0 \/ (visit[r].seen = NoRow <=> row[visit[r].app] = NoRow)

CacheInv == CacheFollows /\ \A r \in Requests : ReadsCurrent(r)

(* The object that handler x made stands for app a: in the cache, or in    *)
(* the hands of a handler.                                                 *)
Holds(r, a, x) == visit[r].pc \in MatchedPC /\ visit[r].app = a /\ visit[r].obj = x

Refers(a, x) == cache[a] = x \/ \E r \in Requests : Holds(r, a, x)

(* No copy of last_access is ahead of the row.                             *)
Behind(a, last) == row[a] # NoRow /\ (last # Never => row[a] \in Time /\ last <= row[a])

(* Only a handler that has stored its object is referred to.               *)
MadeObjects ==
    \A a \in Apps, x \in Requests : Refers(a, x) => visit[x].pc \notin {"idle", "read", "store"}

(* No two apps share an object.                                            *)
OwnObjects ==
    \A a, b \in Apps, x \in Requests : Refers(a, x) /\ Refers(b, x) => a = b

ObjectsBehind ==
    \A a \in Apps, x \in Requests : a \notin crossed /\ Refers(a, x) => Behind(a, object[x])

(* Neither rows nor handlers are ahead of the clock, ...                   *)
NoFuture ==
    /\ \A a \in Apps : row[a] \in Time => row[a] <= now
    /\ \A r \in Requests : visit[r].at <= now

(* ... and of two handlers that write the same row, the one is noticed.    *)
OneWriter ==
    \A r, s \in Requests :
        /\ visit[r].pc \in {"write", "note"} /\ visit[s].pc \in {"write", "note"}
        /\ visit[r].app = visit[s].app /\ visit[r].app \notin crossed
        => r = s

(* What a handler knows of the row of an app that was not crossed.         *)
Knows(r) ==
    LET a == visit[r].app IN
    a \notin crossed =>
        /\ visit[r].pc = "store" /\ visit[r].seen # NoRow => Behind(a, visit[r].seen)
        /\ visit[r].pc = "write" => row[a] # NoRow /\ (row[a] \in Time => row[a] <= visit[r].at)
        /\ visit[r].pc = "note" => row[a] = visit[r].at
        /\ visit[r].pc = "granted" => row[a] \in Time /\ visit[r].at < row[a] + Frequency

AccessInv ==
    /\ MadeObjects /\ OwnObjects /\ ObjectsBehind /\ NoFuture /\ OneWriter
    /\ \A r \in Requests : Knows(r)

-----------------------------------------------------------------------------
(* Type correctness *)

LEMMA MatchPathType ==
    ASSUME NEW m \in Metas, NEW uri
    PROVE  MatchPath(uri, m) \in Rule
<1>1. CASE MatchPath(uri, m) = NoRule
  BY <1>1 DEF Rule
<1>2. CASE MatchPath(uri, m) # NoRule
  BY <1>2, MatchIsLongest DEF Rule
<1>3. QED BY <1>1, <1>2

LEMMA IdleType == NoVisit \in Handler /\ NoVisit.pc = "idle"
BY TimesAssumption DEF NoVisit, Handler, PC, ClientType, Time, Rule

TypeInv == AuthorizationTypeOK /\ NamesApp

LEMMA TypeInit == AuthorizationInit => TypeInv
BY IdleType, TimesAssumption
   DEF AuthorizationInit, TypeInv, AuthorizationTypeOK, NamesApp, Time, MatchedPC, WithApp

(* A step of handler r leaves the others alone.                            *)
HandlerStep(r) ==
    \/ \E a \in Apps, uri \in Uris : Arrive(r, a, uri)
    \/ FindApp(r) \/ StoreApp(r) \/ Authorize(r) \/ HandlerFails(r)
    \/ \E client \in Clients : GetAuthState(r, client)
    \/ Debounce(r) \/ WriteLastAccess(r) \/ NoteLastAccess(r)

LEMMA OthersAlone ==
    ASSUME TypeInv, NEW r \in Requests, HandlerStep(r)
    PROVE  /\ DOMAIN visit' = Requests
           /\ visit' = [visit EXCEPT ![r] = visit'[r]]
           /\ \A s \in Requests : s # r => visit'[s] = visit[s]
<1>0. visit \in [Requests -> Handler]
  BY DEF TypeInv, AuthorizationTypeOK
<1>1. ASSUME NEW a, NEW uri, Arrive(r, a, uri)
      PROVE  \E h : visit' = [visit EXCEPT ![r] = h]
  BY <1>1, Zenon DEF Arrive, Matched
<1>2. QED
  BY <1>0, <1>1 DEF HandlerStep, FindApp, StoreApp, Authorize, HandlerFails, GetAuthState, Debounce,
       WriteLastAccess, NoteLastAccess, Matched, End, Granted, VisitGoto

LEMMA MatchedType ==
    ASSUME TypeInv, NEW r \in Requests, NEW q \in Handler, NEW obj \in Requests,
           q.app \in Apps, Matched(r, q, obj)
    PROVE  /\ visit'[r] \in Handler
           /\ visit'[r].pc \in MatchedPC => visit'[r].obj \in Requests
           /\ visit'[r].pc \in WithApp => visit'[r].app \in Apps
<1>0. visit \in [Requests -> Handler] /\ meta[q.app] \in Metas \cup {NoMeta}
  BY DEF TypeInv, AuthorizationTypeOK
<1>1. CASE meta[q.app] = NoMeta
  <2>1. visit'[r] = [NoVisit EXCEPT !.pc = "error"]
    BY <1>0, <1>1 DEF Matched
  <2>2. QED BY <2>1, IdleType DEF Handler, PC, MatchedPC, WithApp
<1>2. CASE meta[q.app] # NoMeta
  <2> DEFINE rule == MatchPath(q.uri, meta[q.app])
  <2>1. rule \in Rule
    BY <1>0, <1>2, MatchPathType
  <2> HIDE DEF rule
  <2>2. visit'[r] = [q EXCEPT !.pc = "auth", !.obj = obj, !.seen = NoRow, !.overlap = FALSE, !.rule = rule]
    BY <1>0, <1>2 DEF Matched, rule
  <2>3. visit'[r] \in Handler
    BY <2>1, <2>2 DEF Handler, PC
  <2>4. visit'[r].obj = obj /\ visit'[r].app = q.app
    BY <2>2 DEF Handler
  <2>5. QED BY <2>3, <2>4
<1>3. QED BY <1>1, <1>2

LEMMA EndType ==
    ASSUME TypeInv, NEW r \in Requests, NEW pc \in {"error", "refused"}, End(r, pc)
    PROVE  /\ visit'[r] = [NoVisit EXCEPT !.pc = pc]
           /\ visit'[r] \in Handler /\ visit'[r].pc = pc
<1>0. visit \in [Requests -> Handler]
  BY DEF TypeInv, AuthorizationTypeOK
<1>1. visit'[r] = [NoVisit EXCEPT !.pc = pc]
  BY <1>0 DEF End
<1>2. QED BY <1>1, IdleType DEF Handler, PC

LEMMA GrantedType ==
    ASSUME TypeInv, NEW r \in Requests, NEW at \in Time, visit[r].app \in Apps, Granted(r, at)
    PROVE  /\ visit'[r] = [NoVisit EXCEPT !.pc = "granted", !.app = visit[r].app, !.at = at]
           /\ visit'[r] \in Handler
           /\ visit'[r].pc = "granted" /\ visit'[r].app = visit[r].app /\ visit'[r].at = at
<1>0. visit \in [Requests -> Handler]
  BY DEF TypeInv, AuthorizationTypeOK
<1>1. visit'[r] = [NoVisit EXCEPT !.pc = "granted", !.app = visit[r].app, !.at = at]
  BY <1>0 DEF Granted
<1>2. QED BY <1>1, IdleType DEF Handler, PC

(* A step leaves its handler a handler.                                    *)
LEMMA StepType ==
    ASSUME TypeInv, NEW r \in Requests, HandlerStep(r)
    PROVE  /\ visit'[r] \in Handler
           /\ visit'[r].pc \in MatchedPC => visit'[r].obj \in Requests
           /\ visit'[r].pc \in WithApp => visit'[r].app \in Apps
<1>0. /\ visit \in [Requests -> Handler] /\ visit[r] \in Handler
      /\ row \in [Apps -> Time \cup {NoRow, Never}]
      /\ now \in Time
      /\ visit[r].pc \in MatchedPC => visit[r].obj \in Requests
      /\ visit[r].pc \in WithApp => visit[r].app \in Apps
  BY DEF TypeInv, AuthorizationTypeOK, NamesApp
<1> DEFINE Goal == /\ visit'[r] \in Handler
                   /\ visit'[r].pc \in MatchedPC => visit'[r].obj \in Requests
                   /\ visit'[r].pc \in WithApp => visit'[r].app \in Apps
<1>e. ASSUME NEW pc \in {"error", "refused"}, End(r, pc) PROVE Goal
  BY <1>e, EndType DEF MatchedPC, WithApp
<1>1. ASSUME NEW a \in Apps, NEW uri \in Uris, Arrive(r, a, uri) PROVE Goal
  <2> DEFINE q == [NoVisit EXCEPT !.app = a, !.uri = uri, !.during = {meta[a]}]
  <2>1. q \in Handler /\ q.app = a
    <3>1. meta[a] \in Metas \cup {NoMeta}
      BY DEF TypeInv, AuthorizationTypeOK
    <3>2. QED BY <3>1, IdleType DEF Handler
  <2>2. CASE visit' = [visit EXCEPT ![r] = [q EXCEPT !.pc = "read"]]
    <3> HIDE DEF q
    <3>1. visit'[r] = [q EXCEPT !.pc = "read"]
      BY <1>0, <2>2
    <3>2. QED BY <2>1, <3>1 DEF Handler, PC, MatchedPC
  <2>3. CASE visit' = [visit EXCEPT ![r] = [NoVisit EXCEPT !.pc = "refused"]]
    BY <1>e, <2>3 DEF End
  <2>4. CASE cache[a] \in Requests /\ Matched(r, q, cache[a])
    <3> HIDE DEF q
    <3>1. QED BY <2>1, <2>4, MatchedType
  <2>5. QED BY <1>1, <2>2, <2>3, <2>4 DEF Arrive
<1>2. ASSUME FindApp(r) PROVE Goal
  <2>1. visit'[r] = [visit[r] EXCEPT !.pc = "store", !.seen = row[visit[r].app]]
    BY <1>0, <1>2 DEF FindApp
  <2>2. row[visit[r].app] \in Time \cup {NoRow, Never} /\ visit[r].app \in Apps
    BY <1>0, <1>2 DEF FindApp, WithApp
  <2>3. QED BY <1>0, <2>1, <2>2 DEF Handler, PC, MatchedPC
<1>3. ASSUME StoreApp(r) PROVE Goal
  <2>1. visit[r].app \in Apps
    BY <1>0, <1>3 DEF StoreApp, WithApp
  <2>2. CASE End(r, "refused")
    BY <1>e, <2>2
  <2>3. CASE Matched(r, visit[r], r)
    BY <1>0, <2>1, <2>3, MatchedType
  <2>4. QED BY <1>3, <2>2, <2>3 DEF StoreApp
<1>4. ASSUME Authorize(r) PROVE Goal
  <2>1. CASE visit[r].pc = "decide" /\ VisitGoto(r, "access")
    <3>1. visit'[r] = [visit[r] EXCEPT !.pc = "access"]
      BY <1>0, <2>1 DEF VisitGoto
    <3>2. QED BY <1>0, <2>1, <3>1 DEF Handler, PC, MatchedPC, WithApp
  <2>2. QED BY <1>4, <1>e, <2>1 DEF Authorize
<1>5. ASSUME HandlerFails(r) PROVE Goal
  BY <1>5, <1>e DEF HandlerFails
<1>6. ASSUME NEW client \in Clients, GetAuthState(r, client) PROVE Goal
  <2>1. visit'[r] = [visit[r] EXCEPT !.pc = "decide", !.client = client]
    BY <1>0, <1>6 DEF GetAuthState
  <2>2. visit[r].pc = "auth" /\ client \in ClientType
    BY <1>6, ClientsAssumption DEF GetAuthState
  <2>3. QED BY <1>0, <2>1, <2>2 DEF Handler, PC, MatchedPC, WithApp
<1>7. ASSUME Debounce(r) PROVE Goal
  <2>1. visit[r].pc = "access" /\ visit[r].app \in Apps /\ visit[r].obj \in Requests
    BY <1>0, <1>7 DEF Debounce, MatchedPC, WithApp
  <2>2. CASE Granted(r, now)
    BY <1>0, <2>1, <2>2, GrantedType DEF MatchedPC
  <2>3. CASE visit' = [visit EXCEPT ![r].pc = "write", ![r].at = now]
    <3>1. visit'[r] = [visit[r] EXCEPT !.pc = "write", !.at = now]
      BY <1>0, <2>3
    <3>2. QED BY <1>0, <2>1, <3>1 DEF Handler, PC
  <2>4. QED BY <1>7, <2>2, <2>3 DEF Debounce
<1>8. ASSUME WriteLastAccess(r) PROVE Goal
  <2>1. visit'[r] = [visit[r] EXCEPT !.pc = "note"] /\ visit[r].pc = "write"
    BY <1>0, <1>8 DEF WriteLastAccess, VisitGoto
  <2>2. QED BY <1>0, <2>1 DEF Handler, PC, MatchedPC, WithApp
<1>9. ASSUME NoteLastAccess(r) PROVE Goal
  <2>1. visit[r].pc = "note" /\ visit[r].app \in Apps /\ visit[r].at \in Time
    BY <1>0, <1>9 DEF NoteLastAccess, WithApp, MatchedPC, Handler
  <2>2. QED BY <1>9, <2>1, GrantedType DEF NoteLastAccess, MatchedPC
<1>10. QED BY <1>1, <1>2, <1>3, <1>4, <1>5, <1>6, <1>7, <1>8, <1>9 DEF HandlerStep

(* Beside the handlers the clock, the installation worker and the receiver *)
(* of on_apps_update are at work.                                          *)
WorkerStep ==
    \/ Tick \/ InvalidateAppCache
    \/ \E a \in Apps :
          InsertRow(a) \/ RemoveFiles(a) \/ RemoveRow(a) \/ \E m \in Metas : Unpack(a, m)

LEMMA Steps == AuthorizationNext <=> WorkerStep \/ \E r \in Requests : HandlerStep(r)
BY Zenon DEF AuthorizationNext, WorkerStep, HandlerStep

LEMMA OverlapType ==
    ASSUME NEW h \in Handler
    PROVE  [h EXCEPT !.overlap = TRUE] \in Handler /\ [h EXCEPT !.overlap = FALSE] \in Handler
<1>1. [h EXCEPT !.overlap = TRUE] \in Handler
  BY DEF Handler
<1>2. [h EXCEPT !.overlap = FALSE] \in Handler
  BY DEF Handler
<1>3. QED BY <1>1, <1>2

(* The worker touches no more of a handler than its history.               *)
LEMMA WorkerVisits ==
    ASSUME TypeInv, WorkerStep
    PROVE  /\ visit' \in [Requests -> Handler]
           /\ \A r \in Requests :
                 /\ visit'[r].pc = visit[r].pc /\ visit'[r].app = visit[r].app
                 /\ visit'[r].uri = visit[r].uri /\ visit'[r].seen = visit[r].seen
                 /\ visit'[r].obj = visit[r].obj /\ visit'[r].rule = visit[r].rule
                 /\ visit'[r].client = visit[r].client /\ visit'[r].at = visit[r].at
                 /\ visit[r].during \subseteq visit'[r].during
<1>0. visit \in [Requests -> Handler]
  BY DEF TypeInv, AuthorizationTypeOK
<1>1. CASE visit' = visit
  BY <1>0, <1>1
<1>2. CASE InvalidateAppCache
  <2>1. \A r \in Requests :
           visit'[r] = [visit[r] EXCEPT !.overlap = TRUE] \/ visit'[r] = [visit[r] EXCEPT !.overlap = FALSE]
    <3> SUFFICES ASSUME NEW r \in Requests
                 PROVE  \/ visit'[r] = [visit[r] EXCEPT !.overlap = TRUE]
                        \/ visit'[r] = [visit[r] EXCEPT !.overlap = FALSE]
      OBVIOUS
    <3>1. visit'[r] = [visit[r] EXCEPT !.overlap = visit[r].overlap \/ visit[r].pc = "store"]
      BY <1>0, <1>2 DEF InvalidateAppCache
    <3>2. (visit[r].overlap \/ visit[r].pc = "store") \in BOOLEAN
      OBVIOUS
    <3>3. QED BY <3>1, <3>2, Zenon
  <2>2. DOMAIN visit' = Requests /\ visit' = [r \in Requests |-> visit'[r]]
    BY <1>2, Zenon DEF InvalidateAppCache
  <2>3. \A r \in Requests : visit'[r] \in Handler
    BY <1>0, <2>1, OverlapType
  <2>4. QED BY <1>0, <2>1, <2>2, <2>3 DEF Handler
<1>3. CASE \E a \in Apps, m \in Metas : Unpack(a, m)
  <2>1. PICK a \in Apps, m \in Metas : Unpack(a, m)
    BY <1>3
  <2>2. \A r \in Requests :
           visit'[r] \in {visit[r], [visit[r] EXCEPT !.during = visit[r].during \cup {m}]}
    BY <1>0, <2>1 DEF Unpack, Watch
  <2>3. DOMAIN visit' = Requests /\ visit' = [r \in Requests |-> visit'[r]]
    BY <2>1, Zenon DEF Unpack, Watch
  <2>4. \A r \in Requests : visit'[r] \in Handler
    BY <1>0, <2>2 DEF Handler
  <2>5. QED BY <1>0, <2>2, <2>3, <2>4 DEF Handler
<1>4. QED BY <1>1, <1>2, <1>3 DEF WorkerStep, Tick, InsertRow, RemoveFiles, RemoveRow

LEMMA TypeNext ==
    ASSUME TypeInv, [AuthorizationNext]_authVars
    PROVE  TypeInv'
<1> USE DEF TypeInv
<1>1. CASE UNCHANGED authVars
  BY <1>1 DEF authVars, AuthorizationTypeOK, NamesApp, MatchedPC, WithApp
<1>2. ASSUME WorkerStep PROVE TypeInv'
  <2>1. /\ visit' \in [Requests -> Handler]
        /\ \A r \in Requests : visit'[r].pc \in MatchedPC => visit'[r].obj \in Requests
        /\ \A r \in Requests : visit'[r].pc \in WithApp => visit'[r].app \in Apps
    BY <1>2, WorkerVisits DEF AuthorizationTypeOK, NamesApp
  <2>2. /\ now' \in Time
        /\ row' \in [Apps -> Time \cup {NoRow, Never}]
        /\ meta' \in [Apps -> Metas \cup {NoMeta}]
        /\ cache' \in [Apps -> Requests \cup {Unread, Nothing}]
        /\ object' \in [Requests -> Time \cup {Never}]
    BY <1>2, TimesAssumption
       DEF WorkerStep, AuthorizationTypeOK, Time, Tick, InvalidateAppCache, InsertRow, RemoveFiles, RemoveRow,
           Unpack, Announced
  <2>3. changes' \in 0..MaxChanges /\ pending' \in 0..changes'
    BY <1>2, TimesAssumption
       DEF WorkerStep, AuthorizationTypeOK, Tick, InvalidateAppCache, InsertRow, RemoveFiles, RemoveRow,
           Unpack, Announced
  <2>4. QED BY <2>1, <2>2, <2>3 DEF AuthorizationTypeOK, NamesApp
<1>3. ASSUME NEW r \in Requests, HandlerStep(r) PROVE TypeInv'
  <2>1. /\ visit' \in [Requests -> Handler]
        /\ \A s \in Requests : visit'[s].pc \in MatchedPC => visit'[s].obj \in Requests
        /\ \A s \in Requests : visit'[s].pc \in WithApp => visit'[s].app \in Apps
    BY <1>3, OthersAlone, StepType DEF AuthorizationTypeOK, NamesApp
  <2>2. UNCHANGED <<now, meta, changes, pending>>
    BY <1>3 DEF HandlerStep, Arrive, FindApp, StoreApp, Authorize, HandlerFails, GetAuthState, Debounce,
          WriteLastAccess, NoteLastAccess
  <2>3. row' \in [Apps -> Time \cup {NoRow, Never}]
    <3>1. visit[r].at \in Time
      BY DEF AuthorizationTypeOK, Handler
    <3>2. CASE WriteLastAccess(r)
      BY <3>1, <3>2 DEF WriteLastAccess, AuthorizationTypeOK
    <3>3. CASE row' = row
      BY <3>3 DEF AuthorizationTypeOK
    <3>4. QED BY <1>3, <3>2, <3>3 DEF HandlerStep, Arrive, FindApp, StoreApp, Authorize, HandlerFails,
            GetAuthState, Debounce, NoteLastAccess
  <2>4. /\ cache' \in [Apps -> Requests \cup {Unread, Nothing}]
        /\ object' \in [Requests -> Time \cup {Never}]
    <3>1. visit[r].at \in Time /\ visit[r].seen \in Time \cup {NoRow, Never}
      BY DEF AuthorizationTypeOK, Handler
    <3>2. CASE StoreApp(r)
      BY <3>1, <3>2 DEF StoreApp, AuthorizationTypeOK
    <3>3. CASE NoteLastAccess(r)
      BY <3>1, <3>3 DEF NoteLastAccess, AuthorizationTypeOK, MatchedPC
    <3>4. CASE UNCHANGED <<cache, object>>
      BY <3>4 DEF AuthorizationTypeOK
    <3>5. QED BY <1>3, <3>2, <3>3, <3>4 DEF HandlerStep, Arrive, FindApp, Authorize, HandlerFails,
            GetAuthState, Debounce, WriteLastAccess
  <2>5. QED BY <2>1, <2>2, <2>3, <2>4 DEF AuthorizationTypeOK, NamesApp
<1>4. QED BY <1>1, <1>2, <1>3, Steps

(* The variables keep their types, what the cache and the handlers hold is *)
(* an object that some handler made, and a handler past the lookup has its *)
(* app.                                                                    *)
THEOREM AuthorizationTyped == AuthorizationSpec => []TypeInv
<1>1. QED BY TypeInit, TypeNext, PTL DEF AuthorizationSpec

-----------------------------------------------------------------------------
(* What each step makes of its handler *)

(* Handler r has object x for app a, and a rule from the file on disk.     *)
GetsRule(r, a, uri, during, x) ==
    /\ visit'[r].pc = "auth" /\ visit'[r].app = a /\ visit'[r].obj = x
    /\ visit'[r].uri = uri /\ visit'[r].during = during
    /\ meta[a] # NoMeta /\ visit'[r].rule = MatchPath(uri, meta[a])

LEMMA MatchedMakes ==
    ASSUME TypeInv, NEW r \in Requests, NEW q \in Handler, NEW obj, Matched(r, q, obj)
    PROVE  \/ visit'[r].pc = "error" /\ visit'[r].at = 0
           \/ GetsRule(r, q.app, q.uri, q.during, obj) /\ visit'[r].at = q.at
<1>0. visit \in [Requests -> Handler]
  BY DEF TypeInv, AuthorizationTypeOK
<1>1. CASE meta[q.app] = NoMeta
  <2>1. visit'[r] = [NoVisit EXCEPT !.pc = "error"]
    BY <1>0, <1>1 DEF Matched
  <2>2. QED BY <2>1 DEF NoVisit
<1>2. CASE meta[q.app] # NoMeta
  <2> DEFINE rule == MatchPath(q.uri, meta[q.app])
  <2> HIDE DEF rule
  <2>1. visit'[r] = [q EXCEPT !.pc = "auth", !.obj = obj, !.seen = NoRow, !.overlap = FALSE, !.rule = rule]
    BY <1>0, <1>2 DEF Matched, rule
  <2>2. /\ visit'[r].pc = "auth" /\ visit'[r].app = q.app /\ visit'[r].obj = obj
        /\ visit'[r].uri = q.uri /\ visit'[r].during = q.during /\ visit'[r].rule = rule
        /\ visit'[r].at = q.at
    BY <2>1 DEF Handler
  <2>3. QED BY <1>2, <2>2 DEF GetsRule, rule
<1>3. QED BY <1>1, <1>2

LEMMA EndMakes ==
    ASSUME TypeInv, NEW r \in Requests, NEW pc \in {"error", "refused"}, End(r, pc)
    PROVE  visit'[r].pc = pc /\ visit'[r].at = 0
<1>1. visit'[r] = [NoVisit EXCEPT !.pc = pc]
  BY EndType
<1>2. QED BY <1>1 DEF NoVisit

LEMMA ArriveMakes ==
    ASSUME TypeInv, NEW r \in Requests, NEW a \in Apps, NEW uri \in Uris, Arrive(r, a, uri)
    PROVE  /\ visit[r].pc = "idle" /\ visit'[r].at = 0
           /\ \/ visit'[r].pc = "read" /\ visit'[r].app = a /\ visit'[r].during = {meta[a]}
              \/ visit'[r].pc \in {"refused", "error"}
              \/ cache[a] \in Requests /\ GetsRule(r, a, uri, {meta[a]}, cache[a])
<1>0. visit \in [Requests -> Handler] /\ meta[a] \in Metas \cup {NoMeta} /\ visit[r].pc = "idle"
  BY DEF TypeInv, AuthorizationTypeOK, Arrive
<1> DEFINE q == [NoVisit EXCEPT !.app = a, !.uri = uri, !.during = {meta[a]}]
<1>1. q \in Handler /\ q.app = a /\ q.uri = uri /\ q.during = {meta[a]}
  BY <1>0, IdleType DEF Handler
<1>2. q.at = 0
  BY DEF NoVisit
<1>3. CASE visit' = [visit EXCEPT ![r] = [q EXCEPT !.pc = "read"]]
  <2> HIDE DEF q
  <2>1. visit'[r] = [q EXCEPT !.pc = "read"]
    BY <1>0, <1>3
  <2>2. visit'[r].pc = "read" /\ visit'[r].app = a /\ visit'[r].during = {meta[a]} /\ visit'[r].at = 0
    BY <1>1, <1>2, <2>1 DEF Handler
  <2>3. QED BY <1>0, <2>2
<1>4. CASE visit' = [visit EXCEPT ![r] = [NoVisit EXCEPT !.pc = "refused"]]
  BY <1>0, <1>4, EndMakes DEF End
<1>5. CASE cache[a] \in Requests /\ Matched(r, q, cache[a])
  <2> HIDE DEF q
  <2>1. \/ visit'[r].pc = "error" /\ visit'[r].at = 0
        \/ GetsRule(r, q.app, q.uri, q.during, cache[a]) /\ visit'[r].at = q.at
    BY <1>1, <1>5, MatchedMakes
  <2>2. QED BY <1>0, <1>1, <1>2, <1>5, <2>1, Zenon
<1>6. QED BY <1>3, <1>4, <1>5 DEF Arrive

LEMMA FindMakes ==
    ASSUME TypeInv, NEW r \in Requests, FindApp(r)
    PROVE  /\ visit[r].pc = "read" /\ visit'[r].pc = "store" /\ visit[r].app \in Apps
           /\ visit'[r].seen = row[visit[r].app] /\ visit'[r].app = visit[r].app
           /\ visit'[r].during = visit[r].during /\ visit'[r].at = visit[r].at
<1>0. visit \in [Requests -> Handler] /\ visit[r].pc = "read" /\ visit[r].app \in Apps
  BY DEF TypeInv, AuthorizationTypeOK, NamesApp, WithApp, FindApp
<1>1. visit'[r] = [visit[r] EXCEPT !.pc = "store", !.seen = row[visit[r].app]]
  BY <1>0 DEF FindApp
<1>2. QED BY <1>0, <1>1 DEF Handler

LEMMA StoreMakes ==
    ASSUME TypeInv, NEW r \in Requests, StoreApp(r)
    PROVE  /\ visit[r].pc = "store" /\ visit[r].app \in Apps /\ visit'[r].at \in {0, visit[r].at}
           /\ \/ visit'[r].pc \in {"refused", "error"}
              \/ /\ visit[r].seen # NoRow
                 /\ GetsRule(r, visit[r].app, visit[r].uri, visit[r].during, r)
<1>0. /\ visit \in [Requests -> Handler] /\ visit[r] \in Handler
      /\ visit[r].pc = "store" /\ visit[r].app \in Apps
  BY DEF TypeInv, AuthorizationTypeOK, NamesApp, WithApp, StoreApp
<1>1. CASE End(r, "refused")
  BY <1>0, <1>1, EndMakes
<1>2. CASE visit[r].seen # NoRow /\ Matched(r, visit[r], r)
  BY <1>0, <1>2, MatchedMakes
<1>3. QED BY <1>1, <1>2 DEF StoreApp

(* The steps between the rule and update_last_access.                      *)
Deciding(r) == Authorize(r) \/ HandlerFails(r) \/ \E client \in Clients : GetAuthState(r, client)

LEMMA DecideMakes ==
    ASSUME TypeInv, NEW r \in Requests, Deciding(r)
    PROVE  \/ visit'[r].pc \in {"refused", "error"} /\ visit'[r].at = 0
           \/ /\ \/ visit[r].pc = "auth" /\ visit'[r].pc = "decide"
                 \/ /\ visit[r].pc = "decide" /\ visit'[r].pc = "access"
                    /\ visit[r].rule # NoRule /\ Admits(visit'[r].rule, visit'[r].client)
              /\ visit'[r].app = visit[r].app /\ visit'[r].obj = visit[r].obj
              /\ visit'[r].uri = visit[r].uri /\ visit'[r].during = visit[r].during
              /\ visit'[r].rule = visit[r].rule /\ visit'[r].at = visit[r].at
<1>0. visit \in [Requests -> Handler] /\ visit[r] \in Handler
  BY DEF TypeInv, AuthorizationTypeOK
<1>1. CASE End(r, "refused") \/ End(r, "error")
  BY <1>1, EndMakes
<1>2. ASSUME NEW client \in Clients, GetAuthState(r, client)
      PROVE  /\ visit[r].pc = "auth" /\ visit'[r].pc = "decide"
             /\ visit'[r].app = visit[r].app /\ visit'[r].obj = visit[r].obj
             /\ visit'[r].uri = visit[r].uri /\ visit'[r].during = visit[r].during
             /\ visit'[r].rule = visit[r].rule /\ visit'[r].at = visit[r].at
  <2>1. visit'[r] = [visit[r] EXCEPT !.pc = "decide", !.client = client] /\ visit[r].pc = "auth"
    BY <1>0, <1>2 DEF GetAuthState
  <2>2. QED BY <1>0, <2>1 DEF Handler
<1>3. ASSUME Authorize(r), VisitGoto(r, "access")
      PROVE  /\ visit'[r].pc = "access"
             /\ visit'[r].app = visit[r].app /\ visit'[r].obj = visit[r].obj
             /\ visit'[r].uri = visit[r].uri /\ visit'[r].during = visit[r].during
             /\ visit'[r].rule = visit[r].rule /\ visit'[r].at = visit[r].at
             /\ visit'[r].client = visit[r].client
  <2>1. visit'[r] = [visit[r] EXCEPT !.pc = "access"]
    BY <1>0, <1>3 DEF VisitGoto
  <2>2. QED BY <1>0, <2>1 DEF Handler
<1>4. QED BY <1>1, <1>2, <1>3 DEF Deciding, Authorize, HandlerFails

LEMMA DebounceMakes ==
    ASSUME TypeInv, NEW r \in Requests, Debounce(r)
    PROVE  /\ visit[r].pc = "access" /\ visit[r].app \in Apps /\ visit[r].obj \in Requests
           /\ visit'[r].at = now /\ visit'[r].app = visit[r].app
           /\ \/ visit'[r].pc = "granted" /\ Recent(object[visit[r].obj]) /\ crossed' = crossed
              \/ /\ visit'[r].pc = "write" /\ ~Recent(object[visit[r].obj])
                 /\ crossed' = IF InWrite(visit[r].app) = {} THEN crossed ELSE crossed \cup {visit[r].app}
                 /\ visit'[r].obj = visit[r].obj /\ visit'[r].client = visit[r].client
                 /\ visit'[r].uri = visit[r].uri /\ visit'[r].during = visit[r].during
                 /\ visit'[r].rule = visit[r].rule
<1>0. /\ visit \in [Requests -> Handler] /\ visit[r] \in Handler /\ now \in Time
      /\ visit[r].pc = "access" /\ visit[r].app \in Apps /\ visit[r].obj \in Requests
  BY DEF TypeInv, AuthorizationTypeOK, NamesApp, WithApp, MatchedPC, Debounce
<1>1. CASE Recent(object[visit[r].obj]) /\ Granted(r, now) /\ crossed' = crossed
  BY <1>0, <1>1, GrantedType
<1>2. CASE /\ ~Recent(object[visit[r].obj])
           /\ visit' = [visit EXCEPT ![r].pc = "write", ![r].at = now]
           /\ crossed' = IF InWrite(visit[r].app) = {} THEN crossed ELSE crossed \cup {visit[r].app}
  <2>1. visit'[r] = [visit[r] EXCEPT !.pc = "write", !.at = now]
    BY <1>0, <1>2
  <2>2. /\ visit'[r].pc = "write" /\ visit'[r].at = now /\ visit'[r].app = visit[r].app
        /\ visit'[r].obj = visit[r].obj /\ visit'[r].client = visit[r].client
        /\ visit'[r].uri = visit[r].uri /\ visit'[r].during = visit[r].during
        /\ visit'[r].rule = visit[r].rule
    BY <1>0, <2>1 DEF Handler
  <2>3. QED BY <1>0, <1>2, <2>2
<1>3. QED BY <1>1, <1>2 DEF Debounce

LEMMA WriteMakes ==
    ASSUME TypeInv, NEW r \in Requests, WriteLastAccess(r)
    PROVE  /\ visit[r].pc = "write" /\ visit'[r].pc = "note" /\ visit[r].app \in Apps
           /\ visit'[r].app = visit[r].app /\ visit'[r].obj = visit[r].obj
           /\ visit'[r].client = visit[r].client /\ visit'[r].uri = visit[r].uri
           /\ visit'[r].during = visit[r].during /\ visit'[r].rule = visit[r].rule
           /\ visit'[r].at = visit[r].at
<1>0. /\ visit \in [Requests -> Handler] /\ visit[r] \in Handler
      /\ visit[r].pc = "write" /\ visit[r].app \in Apps
  BY DEF TypeInv, AuthorizationTypeOK, NamesApp, WithApp, MatchedPC, WriteLastAccess
<1>1. visit'[r] = [visit[r] EXCEPT !.pc = "note"]
  BY <1>0 DEF WriteLastAccess, VisitGoto
<1>2. QED BY <1>0, <1>1 DEF Handler

LEMMA NoteMakes ==
    ASSUME TypeInv, NEW r \in Requests, NoteLastAccess(r)
    PROVE  /\ visit[r].pc = "note" /\ visit[r].app \in Apps /\ visit[r].obj \in Requests
           /\ visit[r].at \in Time /\ visit'[r].pc = "granted"
           /\ visit'[r].app = visit[r].app /\ visit'[r].at = visit[r].at
<1>0. /\ visit[r].pc = "note" /\ visit[r].app \in Apps /\ visit[r].obj \in Requests
      /\ visit[r].at \in Time
  BY DEF TypeInv, AuthorizationTypeOK, NamesApp, WithApp, MatchedPC, NoteLastAccess, Handler
<1>1. QED BY <1>0, GrantedType DEF NoteLastAccess

-----------------------------------------------------------------------------
(* Rules *)

LEMMA RulesInit == AuthorizationInit => RulesInv
BY IdleType DEF AuthorizationInit, RulesInv, RulesSeen, MatchedPC

LEMMA RulesNext ==
    ASSUME TypeInv, RulesInv, [AuthorizationNext]_authVars
    PROVE  RulesInv'
<1>1. CASE UNCHANGED authVars
  BY <1>1 DEF authVars, RulesInv, RulesSeen
<1>2. ASSUME WorkerStep, NEW r \in Requests PROVE RulesSeen(r)'
  <2>1. /\ RulesSeen(r)
        /\ visit[r].pc \in {"read", "store"} => visit[r].app \in Apps
        /\ meta \in [Apps -> Metas \cup {NoMeta}] /\ visit[r] \in Handler
    BY DEF RulesInv, TypeInv, NamesApp, AuthorizationTypeOK, WithApp
  <2>2. /\ visit'[r].pc = visit[r].pc /\ visit'[r].app = visit[r].app
        /\ visit'[r].uri = visit[r].uri /\ visit'[r].rule = visit[r].rule
        /\ visit'[r].client = visit[r].client
        /\ visit[r].during \subseteq visit'[r].during
    BY <1>2, WorkerVisits
  <2>3. visit[r].pc \in {"read", "store"} => meta'[visit[r].app] \in visit'[r].during \cup {NoMeta}
    <3>1. CASE meta' = meta
      BY <2>1, <2>2, <3>1 DEF RulesSeen
    <3>2. CASE \E a \in Apps : RemoveFiles(a)
      BY <2>1, <2>2, <3>2 DEF RulesSeen, RemoveFiles
    <3>3. ASSUME NEW a \in Apps, NEW m \in Metas, Unpack(a, m), visit[r].pc \in {"read", "store"}
          PROVE  meta'[visit[r].app] \in visit'[r].during
                   \/ meta'[visit[r].app] = meta[visit[r].app]
      <4>1. CASE visit[r].app = a
        <5>1. visit'[r] = [visit[r] EXCEPT !.during = visit[r].during \cup {m}]
          BY <3>3, <4>1 DEF Unpack, Watch
        <5>2. m \in visit'[r].during
          BY <2>1, <5>1 DEF Handler
        <5>3. QED BY <2>1, <3>3, <4>1, <5>2 DEF Unpack
      <4>2. CASE visit[r].app # a
        BY <2>1, <3>3, <4>2 DEF Unpack
      <4>3. QED BY <4>1, <4>2
    <3>4. CASE \E a \in Apps, m \in Metas : Unpack(a, m)
      BY <2>1, <2>2, <3>3, <3>4 DEF RulesSeen
    <3>5. QED BY <1>2, <3>1, <3>2, <3>4 DEF WorkerStep, Tick, InvalidateAppCache, InsertRow, RemoveRow
  <2>4. QED BY <2>1, <2>2, <2>3 DEF RulesSeen
<1>3. ASSUME NEW r \in Requests, HandlerStep(r), NEW s \in Requests PROVE RulesSeen(s)'
  <2>0. /\ meta' = meta /\ RulesSeen(s)
        /\ meta \in [Apps -> Metas \cup {NoMeta}]
    BY <1>3 DEF HandlerStep, Arrive, FindApp, StoreApp, Authorize, HandlerFails, GetAuthState, Debounce,
          WriteLastAccess, NoteLastAccess, RulesInv, TypeInv, AuthorizationTypeOK
  <2>1. CASE s # r
    <3>1. visit'[s] = visit[s]
      BY <1>3, <2>1, OthersAlone
    <3>2. QED BY <2>0, <3>1 DEF RulesSeen
  <2>2. CASE s = r
    <3>1. ASSUME NEW a, NEW uri, NEW during, NEW x, GetsRule(s, a, uri, during, x), meta[a] \in during \cup {NoMeta}
          PROVE  RulesSeen(s)'
      BY <3>1 DEF GetsRule, RulesSeen, MatchedPC
    <3>2. ASSUME visit'[s].pc \in {"refused", "error", "granted"} PROVE RulesSeen(s)'
      BY <3>2 DEF RulesSeen, MatchedPC
    <3>3. ASSUME NEW a \in Apps, NEW uri \in Uris, Arrive(s, a, uri) PROVE RulesSeen(s)'
      <4>1. CASE visit'[s].pc = "read" /\ visit'[s].app = a /\ visit'[s].during = {meta[a]}
        BY <2>0, <4>1 DEF RulesSeen, MatchedPC
      <4>2. QED BY <3>1, <3>2, <3>3, <4>1, ArriveMakes
    <3>4. CASE FindApp(s)
      BY <2>0, <3>4, FindMakes DEF RulesSeen, MatchedPC
    <3>5. CASE StoreApp(s)
      BY <2>0, <3>1, <3>2, <3>5, StoreMakes DEF RulesSeen
    <3>6. CASE Deciding(s)
      <4>1. CASE visit'[s].pc \in {"refused", "error"}
        BY <3>2, <4>1
      <4>2. QED BY <2>0, <3>6, <4>1, DecideMakes DEF RulesSeen, MatchedPC
    <3>7. CASE Debounce(s)
      BY <2>0, <3>2, <3>7, DebounceMakes DEF RulesSeen, MatchedPC
    <3>8. CASE WriteLastAccess(s)
      BY <2>0, <3>8, WriteMakes DEF RulesSeen, MatchedPC
    <3>9. CASE NoteLastAccess(s)
      BY <3>2, <3>9, NoteMakes
    <3>10. QED BY <1>3, <2>2, <3>3, <3>4, <3>5, <3>6, <3>7, <3>8, <3>9 DEF HandlerStep, Deciding
  <2>3. QED BY <2>1, <2>2
<1>4. QED BY <1>1, <1>2, <1>3, Steps DEF RulesInv

LEMMA RulesGrant ==
    ASSUME TypeInv, RulesInv
    PROVE  GrantedByRules
<1> SUFFICES ASSUME NEW r \in Requests, visit[r].pc \in {"access", "write", "note"}
             PROVE  \E m \in visit[r].during \ {NoMeta} :
                       \E p \in DOMAIN m :
                           /\ IsPrefix(p, visit[r].uri)
                           /\ \A q \in DOMAIN m : IsPrefix(q, visit[r].uri) => Len(q) <= Len(p)
                           /\ Admits(m[p], visit[r].client)
  BY DEF GrantedByRules
<1>1. PICK m \in visit[r].during \ {NoMeta} : visit[r].rule = MatchPath(visit[r].uri, m)
  BY DEF RulesInv, RulesSeen, MatchedPC
<1>2. m \in Metas
  BY DEF TypeInv, AuthorizationTypeOK, Handler
<1>3. MatchPath(visit[r].uri, m) # NoRule /\ Admits(MatchPath(visit[r].uri, m), visit[r].client)
  BY <1>1 DEF RulesInv, RulesSeen
<1>4. PICK p \in DOMAIN m :
              /\ IsPrefix(p, visit[r].uri)
              /\ \A q \in DOMAIN m : IsPrefix(q, visit[r].uri) => Len(q) <= Len(p)
              /\ m[p] = MatchPath(visit[r].uri, m)
  BY <1>2, <1>3, MatchIsLongest
<1>5. QED BY <1>1, <1>3, <1>4

(* However files come and go and whatever the cache says, a request passes *)
(* only by a rule that lay on disk while it was handled, that of the       *)
(* longest path its own begins with: authenticate_and_authorize, with      *)
(* _match_path.                                                            *)
THEOREM RulesGrantAccess == AuthorizationSpec => []GrantedByRules
<1>1. TypeInv /\ RulesInv /\ [AuthorizationNext]_authVars => (TypeInv /\ RulesInv)'
  BY TypeNext, RulesNext
<1>2. TypeInv /\ RulesInv => GrantedByRules
  BY RulesGrant
<1>3. QED BY TypeInit, RulesInit, <1>1, <1>2, PTL DEF AuthorizationSpec

-----------------------------------------------------------------------------
(* The cache *)

LEMMA CacheInit == AuthorizationInit => CacheInv
BY IdleType DEF AuthorizationInit, CacheInv, CacheFollows, ReadsCurrent

LEMMA CacheNext ==
    ASSUME TypeInv, CacheInv, [AuthorizationNext]_authVars
    PROVE  CacheInv'
<1>0. /\ pending \in Nat /\ row \in [Apps -> Time \cup {NoRow, Never}] /\ visit \in [Requests -> Handler]
      /\ cache \in [Apps -> Requests \cup {Unread, Nothing}]
      /\ \A r \in Requests : visit[r].pc \in WithApp => visit[r].app \in Apps
  BY TimesAssumption DEF TypeInv, AuthorizationTypeOK, NamesApp
<1>1. CASE UNCHANGED authVars
  BY <1>1 DEF authVars, CacheInv, CacheFollows, ReadsCurrent
<1>2. CASE \E a \in Apps : InsertRow(a) \/ RemoveRow(a) \/ \E m \in Metas : Unpack(a, m)
  <2>1. pending' > 0
    BY <1>0, <1>2 DEF InsertRow, RemoveRow, Unpack, Announced
  <2>2. QED BY <2>1 DEF CacheInv, CacheFollows, ReadsCurrent
<1>3. CASE InvalidateAppCache
  <2>1. CacheFollows'
    BY <1>3 DEF InvalidateAppCache, CacheFollows
  <2>2. ASSUME NEW r \in Requests, visit'[r].pc = "store"
        PROVE  visit'[r].overlap
    <3>1. visit'[r] = [visit[r] EXCEPT !.overlap = visit[r].overlap \/ visit[r].pc = "store"]
      BY <1>0, <1>3 DEF InvalidateAppCache
    <3>2. visit[r].pc = "store" /\ visit[r] \in Handler
      BY <1>0, <2>2, <3>1 DEF Handler
    <3>3. visit'[r] = [visit[r] EXCEPT !.overlap = TRUE]
      BY <3>1, <3>2
    <3>4. QED BY <3>2, <3>3 DEF Handler
  <2>3. QED BY <2>1, <2>2 DEF CacheInv, ReadsCurrent
<1>4. CASE Tick \/ \E a \in Apps : RemoveFiles(a)
  BY <1>4 DEF Tick, RemoveFiles, CacheInv, CacheFollows, ReadsCurrent
<1>5. ASSUME NEW r \in Requests, HandlerStep(r) PROVE CacheInv'
  <2>1. /\ pending' = pending
        /\ row' \in [Apps -> Time \cup {NoRow, Never}]
        /\ \A a \in Apps : row'[a] = NoRow <=> row[a] = NoRow
    <3>1. CASE WriteLastAccess(r)
      <4>1. visit[r].at # NoRow /\ visit[r].at \in Time
        BY <1>0, TimesAssumption DEF Handler, Time
      <4>2. QED BY <1>0, <3>1, <4>1 DEF WriteLastAccess
    <3>2. CASE row' = row
      BY <1>0, <1>5, <3>2 DEF HandlerStep, Arrive, FindApp, StoreApp, Authorize, HandlerFails, GetAuthState, Debounce,
            WriteLastAccess, NoteLastAccess
    <3>3. QED BY <1>5, <3>1, <3>2 DEF HandlerStep, Arrive, FindApp, StoreApp, Authorize, HandlerFails,
            GetAuthState, Debounce, WriteLastAccess, NoteLastAccess
  <2>2. ASSUME NEW s \in Requests, s # r PROVE ReadsCurrent(s)'
    <3>1. visit'[s] = visit[s] /\ ReadsCurrent(s) /\ (visit[s].pc = "store" => visit[s].app \in Apps)
      BY <1>0, <1>5, <2>2, OthersAlone DEF CacheInv, WithApp
    <3>2. QED BY <2>1, <3>1 DEF ReadsCurrent
  <2>3. ReadsCurrent(r)'
    <3>1. CASE FindApp(r)
      <4>1. row' = row
        BY <3>1 DEF FindApp
      <4>2. QED BY <3>1, <4>1, FindMakes DEF ReadsCurrent
    <3>2. ASSUME ~FindApp(r) PROVE visit'[r].pc # "store"
      <4>1. ASSUME NEW a \in Apps, NEW uri \in Uris, Arrive(r, a, uri) PROVE visit'[r].pc # "store"
        BY <4>1, ArriveMakes DEF GetsRule
      <4>2. CASE StoreApp(r)
        BY <4>2, StoreMakes DEF GetsRule
      <4>3. CASE Deciding(r)
        BY <4>3, DecideMakes
      <4>4. QED BY <1>5, <3>2, <4>1, <4>2, <4>3, DebounceMakes, WriteMakes, NoteMakes DEF HandlerStep, Deciding
    <3>3. QED BY <3>1, <3>2 DEF ReadsCurrent
  <2>4. CacheFollows'
    <3>1. CASE StoreApp(r)
      <4> DEFINE a == visit[r].app
      <4>1. a \in Apps /\ ReadsCurrent(r) /\ visit[r].pc = "store"
        BY <3>1, StoreMakes DEF CacheInv
      <4>2. SUFFICES ASSUME NEW b \in Apps, ~(pending > 0)
                     PROVE  \/ cache'[b] \in Requests /\ row[b] # NoRow
                            \/ cache'[b] = Nothing /\ row[b] = NoRow
                            \/ cache'[b] = Unread \/ b \in late'
        BY <2>1 DEF CacheFollows
      <4>3. CASE b = a
        BY <1>0, <3>1, <4>1, <4>2, <4>3 DEF StoreApp, ReadsCurrent
      <4>4. CASE b # a
        BY <1>0, <3>1, <4>1, <4>2, <4>4 DEF StoreApp, CacheInv, CacheFollows
      <4>5. QED BY <4>3, <4>4
    <3>2. CASE UNCHANGED <<cache, late>>
      BY <2>1, <3>2 DEF CacheInv, CacheFollows
    <3>3. QED BY <1>5, <3>1, <3>2 DEF HandlerStep, Arrive, FindApp, Authorize, HandlerFails, GetAuthState, Debounce,
            WriteLastAccess, NoteLastAccess
  <2>5. QED BY <2>2, <2>3, <2>4 DEF CacheInv
<1>6. QED BY <1>1, <1>2, <1>3, <1>4, <1>5, Steps DEF WorkerStep

(* _app_cache agrees with installed_apps about which apps there are, or an *)
(* on_apps_update is on its way, or a handler has stored, by _find_app,    *)
(* what it had read before one arrived.                                    *)
THEOREM CacheFollowsTable == AuthorizationSpec => []CacheFollows
<1>1. TypeInv /\ CacheInv /\ [AuthorizationNext]_authVars => (TypeInv /\ CacheInv)'
  BY TypeNext, CacheNext
<1>2. CacheInv => CacheFollows
  BY DEF CacheInv
<1>3. QED BY TypeInit, CacheInit, <1>1, <1>2, PTL DEF AuthorizationSpec

-----------------------------------------------------------------------------
(* Accesses *)

(* Handler s is where it was.                                              *)
Stays(s) ==
    /\ visit'[s].pc = visit[s].pc /\ visit'[s].app = visit[s].app /\ visit'[s].obj = visit[s].obj
    /\ visit'[s].seen = visit[s].seen /\ visit'[s].at = visit[s].at

LEMMA StaysOrSteps ==
    ASSUME TypeInv, [AuthorizationNext]_authVars, NEW s \in Requests
    PROVE  Stays(s) \/ HandlerStep(s)
<1>1. CASE UNCHANGED authVars
  BY <1>1 DEF authVars, Stays
<1>2. CASE WorkerStep
  BY <1>2, WorkerVisits DEF Stays
<1>3. ASSUME NEW r \in Requests, HandlerStep(r), r # s PROVE Stays(s)
  BY <1>3, OthersAlone DEF Stays
<1>4. QED BY <1>1, <1>2, <1>3, Steps

(* The object of an app comes from _find_app: every other step at most     *)
(* hands on what is known.                                                 *)
Stores(x, a) ==
    /\ StoreApp(x) /\ visit[x].pc = "store" /\ visit[x].app = a /\ visit[x].seen # NoRow
    /\ visit'[x].pc \notin {"idle", "read", "store"}

LEMMA StoresOrHeld ==
    ASSUME TypeInv, NEW r \in Requests, HandlerStep(r), NEW a \in Apps, NEW x \in Requests,
           Holds(r, a, x)'
    PROVE  Refers(a, x) \/ Stores(x, a)
<1>0. visit'[r].pc \in MatchedPC /\ visit'[r].app = a /\ visit'[r].obj = x
  BY DEF Holds
<1>1. ASSUME NEW b \in Apps, NEW uri \in Uris, Arrive(r, b, uri) PROVE Refers(a, x)
  <2>1. cache[b] \in Requests /\ GetsRule(r, b, uri, {meta[b]}, cache[b])
    BY <1>0, <1>1, ArriveMakes DEF MatchedPC
  <2>2. QED BY <1>0, <2>1 DEF GetsRule, Refers
<1>2. CASE FindApp(r)
  BY <1>0, <1>2, FindMakes DEF MatchedPC
<1>3. CASE StoreApp(r)
  <2>1. /\ visit[r].pc = "store" /\ visit[r].seen # NoRow
        /\ GetsRule(r, visit[r].app, visit[r].uri, visit[r].during, r)
    BY <1>0, <1>3, StoreMakes DEF MatchedPC
  <2>2. QED BY <1>0, <1>3, <2>1 DEF GetsRule, Stores
<1>4. CASE Deciding(r)
  BY <1>0, <1>4, DecideMakes DEF MatchedPC, Refers, Holds
<1>5. CASE Debounce(r)
  BY <1>0, <1>5, DebounceMakes DEF MatchedPC, Refers, Holds
<1>6. CASE WriteLastAccess(r)
  BY <1>0, <1>6, WriteMakes DEF MatchedPC, Refers, Holds
<1>7. CASE NoteLastAccess(r)
  BY <1>0, <1>7, NoteMakes DEF MatchedPC
<1>8. QED BY <1>1, <1>2, <1>3, <1>4, <1>5, <1>6, <1>7 DEF HandlerStep, Deciding

LEMMA RefersStep ==
    ASSUME TypeInv, [AuthorizationNext]_authVars, NEW a \in Apps, NEW x \in Requests, Refers(a, x)'
    PROVE  Refers(a, x) \/ Stores(x, a)
<1>0. /\ cache \in [Apps -> Requests \cup {Unread, Nothing}]
      /\ visit \in [Requests -> Handler] /\ x # Unread /\ x # Nothing
  BY CacheAssumption DEF TypeInv, AuthorizationTypeOK
<1>1. CASE cache'[a] = x /\ cache[a] # x
  <2>1. PICK r \in Requests : StoreApp(r)
    BY <1>0, <1>1, Steps DEF authVars, WorkerStep, HandlerStep, Tick, InvalidateAppCache, InsertRow, RemoveFiles,
         RemoveRow, Unpack, Arrive, FindApp, Authorize, HandlerFails, GetAuthState, Debounce,
         WriteLastAccess, NoteLastAccess
  <2>2. r = x /\ visit[r].app = a /\ visit[r].seen # NoRow
    BY <1>0, <1>1, <2>1 DEF StoreApp
  <2>3. QED BY <2>1, <2>2, StoreMakes DEF Stores, GetsRule
<1>2. ASSUME NEW s \in Requests, Holds(s, a, x)' PROVE Refers(a, x) \/ Stores(x, a)
  <2>1. CASE Stays(s)
    BY <1>2, <2>1 DEF Stays, Holds, Refers
  <2>2. CASE HandlerStep(s)
    BY <1>2, <2>2, StoresOrHeld
  <2>3. QED BY <2>1, <2>2, StaysOrSteps
<1>3. QED BY <1>1, <1>2 DEF Refers

(* A handler never goes back before its lookup.                            *)
LEMMA PastStep ==
    ASSUME TypeInv, [AuthorizationNext]_authVars, NEW x \in Requests,
           visit[x].pc \notin {"idle", "read", "store"}
    PROVE  visit'[x].pc \notin {"idle", "read", "store"}
<1>1. CASE Stays(x)
  BY <1>1 DEF Stays
<1>2. CASE Deciding(x)
  BY <1>2, DecideMakes
<1>3. CASE HandlerStep(x) /\ ~Deciding(x)
  BY <1>3, DebounceMakes, WriteMakes, NoteMakes DEF HandlerStep, Deciding, Arrive, FindApp, StoreApp
<1>4. QED BY <1>1, <1>2, <1>3, StaysOrSteps

LEMMA ObjectsStep ==
    ASSUME TypeInv, MadeObjects, OwnObjects, [AuthorizationNext]_authVars
    PROVE  MadeObjects' /\ OwnObjects'
<1>1. ASSUME NEW a \in Apps, NEW x \in Requests, Refers(a, x)'
      PROVE  visit'[x].pc \notin {"idle", "read", "store"}
  <2>1. CASE Refers(a, x)
    BY <2>1, PastStep DEF MadeObjects
  <2>2. CASE Stores(x, a)
    BY <2>2 DEF Stores
  <2>3. QED BY <1>1, <2>1, <2>2, RefersStep
<1>2. ASSUME NEW a \in Apps, NEW b \in Apps, NEW x \in Requests, Refers(a, x)', Refers(b, x)'
      PROVE  a = b
  <2>1. (Refers(a, x) \/ Stores(x, a)) /\ (Refers(b, x) \/ Stores(x, b))
    BY <1>2, RefersStep
  <2>2. ~(Refers(a, x) /\ Stores(x, b)) /\ ~(Refers(b, x) /\ Stores(x, a))
    BY DEF MadeObjects, Stores
  <2>3. QED BY <2>1, <2>2 DEF OwnObjects, Stores
<1>3. QED BY <1>1, <1>2 DEF MadeObjects, OwnObjects

(* What a handler that moves makes of its time and its write.              *)
LEMMA AtStep ==
    ASSUME TypeInv, [AuthorizationNext]_authVars, NEW s \in Requests
    PROVE  visit'[s].at \in {0, visit[s].at, now}
<1>1. CASE Stays(s)
  BY <1>1 DEF Stays
<1>2. ASSUME NEW a \in Apps, NEW uri \in Uris, Arrive(s, a, uri) PROVE visit'[s].at = 0
  BY <1>2, ArriveMakes
<1>3. CASE Deciding(s)
  BY <1>3, DecideMakes
<1>4. CASE FindApp(s) \/ StoreApp(s) \/ Debounce(s) \/ WriteLastAccess(s) \/ NoteLastAccess(s)
  BY <1>4, FindMakes, StoreMakes, DebounceMakes, WriteMakes, NoteMakes
<1>5. QED BY <1>1, <1>2, <1>3, <1>4, StaysOrSteps DEF HandlerStep, Deciding

Writing == {"write", "note"}

LEMMA WritingStep ==
    ASSUME TypeInv, [AuthorizationNext]_authVars, NEW s \in Requests, visit'[s].pc \in Writing
    PROVE  /\ visit'[s].app = visit[s].app
           /\ visit[s].pc \in Writing \/ (Debounce(s) /\ visit[s].pc = "access")
<1> USE DEF Writing
<1>1. CASE Stays(s)
  BY <1>1 DEF Stays
<1>2. ASSUME NEW a \in Apps, NEW uri \in Uris, Arrive(s, a, uri) PROVE FALSE
  BY <1>2, ArriveMakes DEF GetsRule
<1>3. CASE Deciding(s)
  BY <1>3, DecideMakes
<1>4. CASE StoreApp(s)
  BY <1>4, StoreMakes DEF GetsRule
<1>5. CASE FindApp(s) \/ Debounce(s) \/ WriteLastAccess(s) \/ NoteLastAccess(s)
  BY <1>5, FindMakes, DebounceMakes, WriteMakes, NoteMakes
<1>6. QED BY <1>1, <1>2, <1>3, <1>4, <1>5, StaysOrSteps DEF HandlerStep, Deciding

LEMMA CrossedGrows ==
    ASSUME [AuthorizationNext]_authVars
    PROVE  crossed \subseteq crossed'
BY DEF AuthorizationNext, authVars, Tick, InvalidateAppCache, InsertRow, RemoveFiles,
       RemoveRow, Unpack, Arrive, FindApp, StoreApp, Authorize, HandlerFails, GetAuthState, Debounce,
       WriteLastAccess, NoteLastAccess

LEMMA OneWriterStep ==
    ASSUME TypeInv, OneWriter, [AuthorizationNext]_authVars
    PROVE  OneWriter'
<1> USE DEF Writing
<1>1. SUFFICES ASSUME NEW r \in Requests, NEW s \in Requests,
                      visit'[r].pc \in Writing, visit'[s].pc \in Writing,
                      visit'[r].app = visit'[s].app, visit'[r].app \notin crossed'
               PROVE  r = s
  BY DEF OneWriter
<1>2. /\ visit[r].app = visit[s].app /\ visit[r].app \notin crossed'
      /\ visit[r].pc \in Writing \/ Debounce(r)
      /\ visit[s].pc \in Writing \/ Debounce(s)
  BY <1>1, WritingStep
<1>3. visit[r].app \notin crossed
  BY <1>2, CrossedGrows
<1>4. CASE visit[r].pc \in Writing /\ visit[s].pc \in Writing
  BY <1>2, <1>3, <1>4 DEF OneWriter
<1>5. ASSUME NEW t \in Requests, NEW u \in Requests, t # u, visit[t].app = visit[u].app,
             visit[t].app \notin crossed', visit'[t].pc \in Writing, Debounce(t), visit[u].pc \in Writing
      PROVE  FALSE
  <2>1. u \in InWrite(visit[t].app)
    BY <1>5 DEF InWrite
  <2>2. crossed' = crossed \cup {visit[t].app}
    BY <1>5, <2>1, DebounceMakes
  <2>3. QED BY <1>5, <2>2
<1>6. CASE Debounce(r) /\ Debounce(s)
  <2>1. CASE r # s
    <3>1. visit'[s] = visit[s] /\ visit[s].pc = "access"
      BY <1>6, <2>1, OthersAlone, DebounceMakes DEF HandlerStep
    <3>2. QED BY <1>1, <3>1
  <2>2. QED BY <2>1
<1>7. QED BY <1>1, <1>2, <1>4, <1>5, <1>6

(* A row that counts changes when it is inserted or by the UPDATE.         *)
LEMMA RowStep ==
    ASSUME TypeInv, [AuthorizationNext]_authVars, NEW a \in Apps, a \notin crossed'
    PROVE  \/ row'[a] = row[a]
           \/ row[a] = NoRow /\ row'[a] = Never
           \/ \E r \in Requests :
                 WriteLastAccess(r) /\ visit[r].app = a /\ row[a] # NoRow /\ row'[a] = visit[r].at
<1>0. row \in [Apps -> Time \cup {NoRow, Never}]
  BY DEF TypeInv, AuthorizationTypeOK
<1>1. CASE row' = row
  BY <1>1
<1>2. ASSUME NEW b \in Apps, InsertRow(b) \/ RemoveRow(b)
      PROVE  row'[a] = row[a] \/ (row[a] = NoRow /\ row'[a] = Never)
  BY <1>0, <1>2 DEF InsertRow, RemoveRow
<1>3. ASSUME NEW r \in Requests, WriteLastAccess(r)
      PROVE  row'[a] = row[a] \/ (visit[r].app = a /\ row[a] # NoRow /\ row'[a] = visit[r].at)
  BY <1>0, <1>3 DEF WriteLastAccess
<1>4. QED BY <1>1, <1>2, <1>3
       DEF AuthorizationNext, authVars, Tick, InvalidateAppCache, RemoveFiles,
           Unpack, Arrive, FindApp, StoreApp, Authorize, HandlerFails, GetAuthState, Debounce, NoteLastAccess

(* Whatever is behind the row stays behind it.                             *)
LEMMA BehindStep ==
    ASSUME TypeInv, AccessInv, [AuthorizationNext]_authVars,
           NEW a \in Apps, a \notin crossed', NEW last \in Time \cup {Never}, Behind(a, last)
    PROVE  Behind(a, last)'
<1>0. a \notin crossed /\ row[a] \in Time \cup {NoRow, Never}
  BY CrossedGrows DEF TypeInv, AuthorizationTypeOK
<1>1. CASE row'[a] = row[a]
  BY <1>1 DEF Behind
<1>2. CASE row[a] = NoRow /\ row'[a] = Never
  BY <1>2 DEF Behind
<1>3. ASSUME NEW r \in Requests, WriteLastAccess(r), visit[r].app = a, row'[a] = visit[r].at
      PROVE  Behind(a, last)'
  <2>1. visit[r].pc = "write" /\ visit[r].at \in Time
    BY <1>3 DEF WriteLastAccess, TypeInv, AuthorizationTypeOK, Handler
  <2>2. row[a] \in Time => row[a] <= visit[r].at
    BY <1>0, <1>3, <2>1 DEF AccessInv, Knows
  <2>3. row'[a] # NoRow /\ row'[a] \in Time
    BY <1>3, <2>1, TimesAssumption DEF Time
  <2>4. last # Never => last <= row'[a]
    BY <1>3, <2>1, <2>2, TimesAssumption DEF Behind, Time
  <2>5. QED BY <2>3, <2>4 DEF Behind
<1>4. QED BY <1>1, <1>2, <1>3, RowStep

LEMMA NoFutureStep ==
    ASSUME TypeInv, NoFuture, [AuthorizationNext]_authVars
    PROVE  NoFuture'
<1>0. now \in Nat /\ now' \in Nat /\ now <= now'
  <2>1. now \in Time
    BY DEF TypeInv, AuthorizationTypeOK
  <2>2. now' = now \/ now' = now + 1
    BY DEF AuthorizationNext, authVars, Tick, InvalidateAppCache, InsertRow, RemoveFiles,
       RemoveRow, Unpack, Arrive, FindApp, StoreApp, Authorize, HandlerFails, GetAuthState, Debounce,
       WriteLastAccess, NoteLastAccess
  <2>3. QED BY <2>1, <2>2, TimesAssumption DEF Time
<1>1. ASSUME NEW r \in Requests PROVE visit'[r].at <= now'
  <2>1. visit[r].at \in Nat /\ visit[r].at <= now
    BY TimesAssumption DEF TypeInv, AuthorizationTypeOK, Handler, Time, NoFuture
  <2>2. QED BY <1>0, <2>1, AtStep
<1>2. ASSUME NEW a \in Apps, row'[a] \in Time PROVE row'[a] <= now'
  <2>0. row \in [Apps -> Time \cup {NoRow, Never}] /\ \A n \in Time : n \in Nat
    BY TimesAssumption DEF TypeInv, AuthorizationTypeOK, Time
  <2>1. row'[a] = row[a] \/ row'[a] \in {NoRow, Never} \/ \E r \in Requests : row'[a] = visit[r].at
    <3>1. CASE row' = row
      BY <3>1
    <3>2. CASE \E b \in Apps : InsertRow(b) \/ RemoveRow(b)
      BY <2>0, <3>2 DEF InsertRow, RemoveRow
    <3>3. CASE \E r \in Requests : WriteLastAccess(r)
      BY <2>0, <3>3 DEF WriteLastAccess
    <3>4. QED BY <3>1, <3>2, <3>3
       DEF AuthorizationNext, authVars, Tick, InvalidateAppCache, RemoveFiles,
           Unpack, Arrive, FindApp, StoreApp, Authorize, HandlerFails, GetAuthState, Debounce, NoteLastAccess
  <2>2. NoRow \notin Time /\ Never \notin Time
    BY TimesAssumption DEF Time
  <2>3. QED BY <1>0, <1>2, <2>0, <2>1, <2>2 DEF NoFuture
<1>3. QED BY <1>1, <1>2 DEF NoFuture

(* The copies that handlers and cache share stay behind the row.           *)
LEMMA ObjectsBehindStep ==
    ASSUME TypeInv, AccessInv, [AuthorizationNext]_authVars
    PROVE  ObjectsBehind'
<1>1. SUFFICES ASSUME NEW a \in Apps, NEW x \in Requests, a \notin crossed', Refers(a, x)'
               PROVE  Behind(a, object[x])'
  BY DEF ObjectsBehind
<1>2. a \notin crossed /\ object \in [Requests -> Time \cup {Never}] /\ row[a] \in Time \cup {NoRow, Never}
  BY <1>1, CrossedGrows DEF TypeInv, AuthorizationTypeOK
<1>3. CASE Stores(x, a)
  <2>1. object'[x] = visit[x].seen /\ row' = row
    BY <1>2, <1>3 DEF Stores, StoreApp
  <2>2. Behind(a, visit[x].seen)
    BY <1>2, <1>3 DEF Stores, AccessInv, Knows
  <2>3. QED BY <2>1, <2>2 DEF Behind
<1>4. CASE Refers(a, x)
  <2>1. Behind(a, object[x]) /\ object[x] \in Time \cup {Never} /\ visit[x].pc \notin {"idle", "read", "store"}
    BY <1>2, <1>4 DEF AccessInv, ObjectsBehind, MadeObjects
  <2>2. CASE object'[x] = object[x]
    <3>1. PICK last \in Time \cup {Never} : last = object[x]
      BY <2>1
    <3>2. Behind(a, last)'
      BY <1>1, <2>1, <3>1, BehindStep
    <3>3. QED BY <2>2, <3>1, <3>2 DEF Behind
  <2>3. ASSUME NEW r \in Requests, NoteLastAccess(r), visit[r].obj = x
        PROVE  Behind(a, object[x])'
    <3>1. visit[r].pc = "note" /\ visit[r].app \in Apps /\ visit[r].at \in Time
      BY <2>3, NoteMakes
    <3>2. Refers(visit[r].app, x)
      BY <2>3, <3>1 DEF Refers, Holds, MatchedPC
    <3>3. visit[r].app = a
      BY <1>4, <3>1, <3>2 DEF AccessInv, OwnObjects
    <3>4. row[a] = visit[r].at
      BY <1>2, <3>1, <3>3 DEF AccessInv, Knows
    <3>5. object'[x] = visit[r].at /\ row' = row
      BY <1>2, <2>3 DEF NoteLastAccess
    <3>6. QED BY <3>1, <3>4, <3>5, TimesAssumption DEF Behind, Time
  <2>4. object'[x] = object[x] \/ \E r \in Requests : NoteLastAccess(r) /\ visit[r].obj = x
    <3>1. CASE \E r \in Requests : StoreApp(r)
      BY <1>2, <2>1, <3>1 DEF StoreApp
    <3>2. CASE \E r \in Requests : NoteLastAccess(r)
      BY <1>2, <3>2 DEF NoteLastAccess
    <3>3. CASE object' = object
      BY <3>3
    <3>4. QED BY <3>1, <3>2, <3>3
       DEF AuthorizationNext, authVars, Tick, InvalidateAppCache, InsertRow, RemoveFiles, RemoveRow,
           Unpack, Arrive, FindApp, Authorize, HandlerFails, GetAuthState, Debounce, WriteLastAccess
  <2>5. QED BY <2>2, <2>3, <2>4
<1>5. QED BY <1>1, <1>3, <1>4, RefersStep

(* A handler that does not move keeps what it knows: it is the only one    *)
(* that writes, and what others write is later.                            *)
LEMMA KnowsKept ==
    ASSUME TypeInv, AccessInv, [AuthorizationNext]_authVars, NEW r \in Requests, Stays(r)
    PROVE  Knows(r)'
<1> DEFINE a == visit[r].app
<1>1. SUFFICES ASSUME a \notin crossed', visit[r].pc \in {"store", "write", "note", "granted"}
               PROVE  Knows(r)'
  BY DEF Stays, Knows
<1>2. /\ a \in Apps /\ a \notin crossed /\ row[a] \in Time \cup {NoRow, Never}
      /\ visit[r] \in Handler /\ Knows(r)
  BY <1>1, CrossedGrows DEF TypeInv, NamesApp, AuthorizationTypeOK, WithApp, MatchedPC, AccessInv
<1>3. \A n \in Time : n \in Nat /\ n # NoRow /\ n # Never
  BY TimesAssumption DEF Time
<1>4. ASSUME NEW last \in Time \cup {Never}, Behind(a, last)
      PROVE  row'[a] # NoRow /\ (last # Never => row'[a] \in Time /\ last <= row'[a])
  <2>1. PICK b \in Apps : b = a
    BY <1>2
  <2>2. Behind(b, last)'
    BY <1>1, <1>4, <2>1, BehindStep
  <2>3. QED BY <2>1, <2>2 DEF Behind
<1>5. CASE visit[r].pc = "store"
  <2>1. CASE visit[r].seen = NoRow
    BY <1>5, <2>1 DEF Stays, Knows
  <2>2. CASE visit[r].seen # NoRow
    <3>1. visit[r].seen \in Time \cup {Never} /\ Behind(a, visit[r].seen)
      BY <1>2, <1>5, <2>2 DEF Knows, Handler
    <3>2. row'[a] # NoRow /\ (visit[r].seen # Never => row'[a] \in Time /\ visit[r].seen <= row'[a])
      BY <1>4, <3>1
    <3>3. QED BY <1>5, <3>2 DEF Stays, Knows, Behind
  <2>3. QED BY <2>1, <2>2
<1>6. CASE visit[r].pc \in {"write", "note"}
  <2>1. row[a] # NoRow
    BY <1>2, <1>3, <1>6 DEF Knows, Handler
  <2>2. row'[a] = row[a]
    <3>1. ASSUME NEW s \in Requests, WriteLastAccess(s), visit[s].app = a PROVE FALSE
      <4>1. s = r
        BY <1>2, <1>6, <3>1 DEF WriteLastAccess, AccessInv, OneWriter
      <4>2. visit[r].pc = "write" /\ visit'[r].pc = "note"
        BY <3>1, <4>1, WriteMakes
      <4>3. QED BY <4>2 DEF Stays
    <3>2. QED BY <1>1, <1>2, <2>1, <3>1, RowStep
  <2>3. QED BY <1>2, <1>6, <2>1, <2>2 DEF Stays, Knows
<1>7. CASE visit[r].pc = "granted"
  <2>1. row[a] \in Time /\ visit[r].at < row[a] + Frequency /\ visit[r].at \in Time
    BY <1>2, <1>7 DEF Knows, Handler
  <2>2. Behind(a, row[a])
    BY <1>3, <2>1 DEF Behind
  <2>3. row'[a] \in Time /\ row[a] <= row'[a]
    BY <1>3, <1>4, <2>1, <2>2
  <2>4. visit[r].at < row'[a] + Frequency
    BY <1>3, <2>1, <2>3, TimesAssumption
  <2>5. QED BY <1>7, <2>3, <2>4 DEF Stays, Knows
<1>8. QED BY <1>1, <1>5, <1>6, <1>7

(* A handler that moves comes to know it.                                  *)
LEMMA KnowsNew ==
    ASSUME TypeInv, AccessInv, [AuthorizationNext]_authVars, NEW r \in Requests, HandlerStep(r)
    PROVE  Knows(r)'
<1>0. ASSUME visit'[r].pc \notin {"store", "write", "note", "granted"} PROVE Knows(r)'
  BY <1>0 DEF Knows
<1>t. \A n \in Time : n \in Nat /\ n # NoRow /\ n # Never
  BY TimesAssumption DEF Time
<1>1. ASSUME NEW a \in Apps, NEW uri \in Uris, Arrive(r, a, uri) PROVE Knows(r)'
  BY <1>0, <1>1, ArriveMakes DEF GetsRule
<1>2. CASE FindApp(r)
  <2>1. row[visit[r].app] \in Time \cup {NoRow, Never} /\ row' = row
    BY <1>2, FindMakes DEF TypeInv, AuthorizationTypeOK, FindApp
  <2>2. row[visit[r].app] # NoRow /\ row[visit[r].app] # Never => row[visit[r].app] <= row[visit[r].app]
    BY <1>t, <2>1
  <2>3. QED BY <1>2, <2>1, <2>2, FindMakes DEF Knows, Behind
<1>3. CASE StoreApp(r)
  BY <1>0, <1>3, StoreMakes DEF GetsRule
<1>4. CASE Deciding(r)
  BY <1>0, <1>4, DecideMakes
<1>5. CASE Debounce(r)
  <2> DEFINE a == visit[r].app
             x == visit[r].obj
  <2>1. /\ visit[r].pc = "access" /\ a \in Apps /\ x \in Requests
        /\ visit'[r].at = now /\ visit'[r].app = a
        /\ \/ visit'[r].pc = "granted" /\ Recent(object[x])
           \/ visit'[r].pc = "write"
    BY <1>5, DebounceMakes
  <2>2. row' = row
    BY <1>5 DEF Debounce
  <2>3. SUFFICES ASSUME a \notin crossed' PROVE Knows(r)'
    BY <2>1 DEF Knows
  <2>4. a \notin crossed
    BY <2>3, CrossedGrows
  <2>5. Behind(a, object[x])
    BY <2>1, <2>4 DEF AccessInv, ObjectsBehind, Refers, Holds, MatchedPC
  <2>6. row[a] \in Time => row[a] <= now
    BY <2>1 DEF AccessInv, NoFuture
  <2>7. CASE visit'[r].pc = "granted" /\ Recent(object[x])
    <3>1. object[x] \in Time /\ now \in Time /\ row[a] \in Time /\ object[x] <= row[a] /\ now - object[x] < Frequency
      BY <2>1, <2>5, <2>7 DEF TypeInv, AuthorizationTypeOK, Recent, Behind
    <3>2. now < row[a] + Frequency
      BY <1>t, <3>1, TimesAssumption
    <3>3. QED BY <2>1, <2>2, <2>7, <3>1, <3>2 DEF Knows
  <2>8. CASE visit'[r].pc = "write"
    BY <2>1, <2>2, <2>5, <2>6, <2>8 DEF Knows, Behind
  <2>9. QED BY <2>1, <2>7, <2>8
<1>6. CASE WriteLastAccess(r)
  <2> DEFINE a == visit[r].app
  <2>1. /\ visit[r].pc = "write" /\ visit'[r].pc = "note" /\ a \in Apps
        /\ visit'[r].app = a /\ visit'[r].at = visit[r].at
    BY <1>6, WriteMakes
  <2>2. SUFFICES ASSUME a \notin crossed PROVE Knows(r)'
    BY <2>1, CrossedGrows DEF Knows
  <2>3. row[a] # NoRow
    BY <2>1, <2>2 DEF AccessInv, Knows
  <2>4. row'[a] = visit[r].at
    BY <1>6, <2>1, <2>3 DEF WriteLastAccess, TypeInv, AuthorizationTypeOK
  <2>5. QED BY <2>1, <2>4 DEF Knows
<1>7. CASE NoteLastAccess(r)
  <2> DEFINE a == visit[r].app
  <2>1. /\ visit[r].pc = "note" /\ visit'[r].pc = "granted" /\ a \in Apps /\ visit[r].at \in Time
        /\ visit'[r].app = a /\ visit'[r].at = visit[r].at /\ row' = row
    BY <1>7, NoteMakes DEF NoteLastAccess
  <2>2. SUFFICES ASSUME a \notin crossed PROVE Knows(r)'
    BY <2>1, CrossedGrows DEF Knows
  <2>3. row[a] = visit[r].at
    BY <2>1, <2>2 DEF AccessInv, Knows
  <2>4. visit[r].at < visit[r].at + Frequency
    BY <1>t, <2>1, TimesAssumption
  <2>5. QED BY <2>1, <2>3, <2>4 DEF Knows
<1>8. QED BY <1>1, <1>2, <1>3, <1>4, <1>5, <1>6, <1>7 DEF HandlerStep, Deciding

LEMMA AccessInit == AuthorizationInit => AccessInv
<1> SUFFICES ASSUME AuthorizationInit PROVE AccessInv
  OBVIOUS
<1>1. \A r \in Requests : visit[r].pc = "idle" /\ visit[r].at = 0
  BY DEF AuthorizationInit, NoVisit
<1>2. \A a \in Apps : row[a] \in {NoRow, Never} /\ cache[a] = Unread
  BY DEF AuthorizationInit
<1>3. \A a \in Apps, x \in Requests : ~Refers(a, x)
  BY <1>1, <1>2, CacheAssumption DEF Refers, Holds, MatchedPC
<1>4. NoFuture
  BY <1>1, <1>2, TimesAssumption DEF NoFuture, AuthorizationInit, Time
<1>5. QED BY <1>1, <1>3, <1>4 DEF AccessInv, MadeObjects, OwnObjects, ObjectsBehind, OneWriter, Knows

LEMMA AccessNext ==
    ASSUME TypeInv, AccessInv, [AuthorizationNext]_authVars
    PROVE  AccessInv'
<1>1. \A r \in Requests : Knows(r)'
  BY KnowsKept, KnowsNew, StaysOrSteps
<1>2. MadeObjects' /\ OwnObjects'
  BY ObjectsStep DEF AccessInv
<1>3. NoFuture' /\ OneWriter'
  BY NoFutureStep, OneWriterStep DEF AccessInv
<1>4. QED BY <1>1, <1>2, <1>3, ObjectsBehindStep DEF AccessInv

(* Accesses are debounced and not lost: however many handlers work on      *)
(* copies of a row that the cache has dropped or replaced meanwhile, when  *)
(* update_last_access is done the row's last access is less than           *)
(* max_update_frequency before the request, unless two of them wrote at    *)
(* the same time or the app was removed.                                   *)
THEOREM AccessesNoted == AuthorizationSpec => []AccessNoted
<1>1. TypeInv /\ AccessInv /\ [AuthorizationNext]_authVars => (TypeInv /\ AccessInv)'
  BY TypeNext, AccessNext
<1>2. AccessInv => AccessNoted
  BY DEF AccessInv, Knows, AccessNoted
<1>3. QED BY TypeInit, AccessInit, <1>1, <1>2, PTL DEF AuthorizationSpec

-----------------------------------------------------------------------------
(* Traefik *)

ServiceNames == {Name("shard_core"), Name("web-terminal")}

MiddlewareNames == {"strip", "auth-private", "auth-management", "auth-public", "auth", "app-error"}

CoreRoute(r) ==
    /\ r.host \in {"any", "traefik"}
    /\ r.service \in ServiceNames \cup {Name("api@internal")}
    /\ \A m \in DOMAIN r.middlewares : r.middlewares[m] \in MiddlewareNames

(* The containers of an app's entrypoints of a kind.                       *)
Own(i, port) ==
    {infos[i].entrypoints[j].container :
        j \in {k \in DOMAIN infos[i].entrypoints : infos[i].entrypoints[k].port = port}}

AppRoute(k, i, port, routers, services) ==
    /\ k = <<infos[i].app, port>>
    /\ routers[k].host = infos[i].app /\ routers[k].service = k
    /\ routers[k].middlewares = IF port = "http" THEN <<"app-error", "auth">> ELSE <<>>
    /\ k \in DOMAIN services /\ services[k] \in Own(i, port)

(* An entrypoint that the loops, at an app a and its entrypoint e, have    *)
(* behind them.                                                            *)
Passed(i, j, a, e) == i < a \/ (i = a /\ j < e)

(* Routers are those of the core and of apps, and what was added is there. *)
Routed(routers, services, port, a, e) ==
    /\ \A k \in DOMAIN routers :
          \/ port = "http" /\ CoreRoute(routers[k])
          \/ \E i \in DOMAIN infos : AppRoute(k, i, port, routers, services)
    /\ \A i \in DOMAIN infos : \A j \in DOMAIN infos[i].entrypoints :
          infos[i].entrypoints[j].port = port /\ Passed(i, j, a, e) =>
              /\ <<infos[i].app, port>> \in DOMAIN routers
              /\ routers[<<infos[i].app, port>>].host = infos[i].app

HttpRight ==
    /\ DOMAIN http = {"routers", "middlewares", "services"}
    /\ DOMAIN http.middlewares = MiddlewareNames
    /\ ServiceNames \subseteq DOMAIN http.services
    /\ Routed(http.routers, http.services, "http", appAt, epAt)

TcpRight ==
    /\ DOMAIN tcp = {"routers", "services"} /\ DOMAIN tcp.routers = DOMAIN tcp.services
    /\ Routed(tcp.routers, tcp.services, "mqtt", appAt, epAt)

InfosRight ==
    /\ \E n \in Nat : DOMAIN infos = 1..n
    /\ \A i \in DOMAIN infos : \E n \in Nat : DOMAIN infos[i].entrypoints = 1..n
    /\ \A i \in DOMAIN infos : infos[i].app \in Routable
    /\ \A i, j \in DOMAIN infos : infos[i].app = infos[j].app => i = j

TraefikInv ==
    /\ InfosRight
    /\ stage \in {"http", "tcp", "apps", "done"}
    /\ appAt \in Nat \ {0} /\ epAt \in Nat \ {0}
    /\ stage \in {"http", "tcp"} => appAt = 1 /\ epAt = 1
    /\ stage # "http" => HttpRight
    /\ stage = "apps" => "tcp" \in sections /\ TcpRight
    /\ stage = "done" =>
          /\ appAt \notin DOMAIN infos
          /\ NoEmptyObject
          /\ DOMAIN TcpRouters = DOMAIN TcpServices
          /\ Routed(TcpRouters, TcpServices, "mqtt", appAt, epAt)

LEMMA InfosStart == TraefikInit => InfosRight
<1> SUFFICES ASSUME TraefikInit PROVE InfosRight
  OBVIOUS
<1>1. PICK n \in 0..MaxRoutable : infos \in [1..n -> AppInfo]
  BY DEF TraefikInit
<1>2. n \in Nat /\ DOMAIN infos = 1..n
  BY <1>1, RoutableAssumption
<1>3. ASSUME NEW i \in DOMAIN infos
      PROVE  infos[i].app \in Routable /\ \E m \in Nat : DOMAIN infos[i].entrypoints = 1..m
  <2>1. infos[i] \in AppInfo
    BY <1>1, <1>2
  <2>2. infos[i].app \in Routable
    BY <2>1 DEF AppInfo
  <2>3. infos[i].entrypoints \in UNION {[1..m -> Entrypoint] : m \in 0..MaxEntrypoints}
    BY <2>1 DEF AppInfo
  <2>4. PICK m \in 0..MaxEntrypoints : infos[i].entrypoints \in [1..m -> Entrypoint]
    BY <2>3
  <2>5. m \in Nat
    BY <2>4, RoutableAssumption
  <2>6. QED BY <2>2, <2>4, <2>5
<1>4. QED BY <1>2, <1>3 DEF TraefikInit, InfosRight

LEMMA DictIs ==
    ASSUME NEW items
    PROVE  /\ DOMAIN Dict(items) = {i[1] : i \in items}
           /\ \A k \in DOMAIN Dict(items) : \E i \in items : k = i[1] /\ Dict(items)[k] = i[2]
<1>1. DOMAIN Dict(items) = {i[1] : i \in items}
  BY DEF Dict
<1>2. ASSUME NEW k \in DOMAIN Dict(items)
      PROVE  \E i \in items : k = i[1] /\ Dict(items)[k] = i[2]
  <2> DEFINE c == CHOOSE i \in items : i[1] = k
  <2>1. \E i \in items : i[1] = k
    BY <1>1, <1>2
  <2>2. c \in items /\ c[1] = k
    BY <2>1
  <2>3. Dict(items)[k] = c[2]
    BY <1>1, <1>2 DEF Dict
  <2>4. QED BY <2>2, <2>3
<1>3. QED BY <1>1, <1>2

LEMMA RouterIs ==
    ASSUME NEW host, NEW path, NEW entrypoint, NEW service, NEW middlewares
    PROVE  LET r == Router(host, path, entrypoint, service, middlewares)
           IN  r.host = host /\ r.service = service /\ r.middlewares = middlewares
BY DEF Router

LEMMA CoreRoutersRight == \A i \in CoreRouters : CoreRoute(i[2])
<1>1. ASSUME NEW path, NEW x \in MiddlewareNames, NEW y \in MiddlewareNames
      PROVE  CoreRoute(CoreRouter(path, Name("shard_core"), <<x, y>>))
  BY RouterIs DEF CoreRoute, CoreRouter, ServiceNames
<1>2. CoreRoute(CoreRouter("/", Name("web-terminal"), <<>>))
  BY RouterIs DEF CoreRoute, CoreRouter, ServiceNames
<1>3. CoreRoute(Router("traefik", "/", HttpEntrypoint, Name("api@internal"), <<"auth-private">>))
  BY RouterIs DEF CoreRoute, MiddlewareNames
<1>4. {"strip", "auth-public", "auth-private", "auth-management"} \subseteq MiddlewareNames
  BY DEF MiddlewareNames
<1>5. QED BY <1>1, <1>2, <1>3, <1>4 DEF CoreRouters

(* _add_router and _add_service of the entrypoint at which the loops are.  *)
LEMMA RoutedGrows ==
    ASSUME InfosRight, NEW port \in {"http", "mqtt"}, NEW a \in DOMAIN infos,
           NEW e \in DOMAIN infos[a].entrypoints, infos[a].entrypoints[e].port = port,
           NEW R, NEW S, Routed(R, S, port, a, e)
    PROVE  LET ep == infos[a].entrypoints[e]
               key == Key(infos[a].app, ep)
           IN  Routed(With(R, key, AppRouter(infos[a].app, ep)), With(S, key, ep.container), port, a, e + 1)
<1> DEFINE ep == infos[a].entrypoints[e]
           key == <<infos[a].app, port>>
           router == AppRouter(infos[a].app, ep)
           R1 == With(R, key, router)
           S1 == With(S, key, ep.container)
<1>1. key = Key(infos[a].app, ep)
  BY DEF Key
<1>2. /\ router.host = infos[a].app /\ router.service = key
      /\ router.middlewares = IF port = "http" THEN <<"app-error", "auth">> ELSE <<>>
  BY <1>1, RouterIs DEF AppRouter
<1>3. /\ DOMAIN R1 = DOMAIN R \cup {key} /\ R1[key] = router
      /\ \A k \in DOMAIN R : k # key => R1[k] = R[k]
  BY DEF With
<1>4. /\ DOMAIN S1 = DOMAIN S \cup {key} /\ S1[key] = ep.container
      /\ \A k \in DOMAIN S : k # key => S1[k] = S[k]
  BY DEF With
<1>5. ep.container \in Own(a, port)
  BY DEF Own
<1> HIDE DEF ep, key, router, R1, S1
<1>6. AppRoute(key, a, port, R1, S1)
  BY <1>2, <1>3, <1>4, <1>5 DEF AppRoute, key
<1>7. ASSUME NEW k \in DOMAIN R1
      PROVE  \/ port = "http" /\ CoreRoute(R1[k])
             \/ \E i \in DOMAIN infos : AppRoute(k, i, port, R1, S1)
  <2>1. CASE k = key
    BY <1>6, <2>1
  <2>2. CASE k # key
    <3>1. k \in DOMAIN R /\ R1[k] = R[k]
      BY <1>3, <1>7, <2>2
    <3>2. CASE port = "http" /\ CoreRoute(R[k])
      BY <3>1, <3>2
    <3>3. CASE \E i \in DOMAIN infos : AppRoute(k, i, port, R, S)
      BY <1>4, <2>2, <3>1, <3>3 DEF AppRoute
    <3>4. QED BY <3>1, <3>2, <3>3 DEF Routed
  <2>3. QED BY <2>1, <2>2
<1>8. ASSUME NEW i \in DOMAIN infos, NEW j \in DOMAIN infos[i].entrypoints,
             infos[i].entrypoints[j].port = port, Passed(i, j, a, e + 1)
      PROVE  /\ <<infos[i].app, port>> \in DOMAIN R1
             /\ R1[<<infos[i].app, port>>].host = infos[i].app
  <2>1. CASE i = a
    BY <1>2, <1>3, <2>1 DEF key
  <2>2. CASE i # a
    <3>1. Passed(i, j, a, e)
      BY <1>8, <2>2 DEF Passed
    <3>2. <<infos[i].app, port>> \in DOMAIN R /\ R[<<infos[i].app, port>>].host = infos[i].app
      BY <1>8, <3>1 DEF Routed
    <3>3. <<infos[i].app, port>> # key
      BY <2>2 DEF InfosRight, key
    <3>4. QED BY <1>3, <3>2, <3>3
  <2>3. QED BY <2>1, <2>2
<1>9. Routed(R1, S1, port, a, e + 1)
  BY <1>7, <1>8 DEF Routed
<1>10. QED BY <1>1, <1>9 DEF ep, R1, S1, router

(* An entrypoint of the other kind changes nothing.                        *)
LEMMA RoutedPasses ==
    ASSUME InfosRight, NEW port, NEW a \in DOMAIN infos,
           NEW e \in DOMAIN infos[a].entrypoints, infos[a].entrypoints[e].port # port,
           NEW R, NEW S, Routed(R, S, port, a, e)
    PROVE  Routed(R, S, port, a, e + 1)
<1>1. ASSUME NEW i \in DOMAIN infos, NEW j \in DOMAIN infos[i].entrypoints,
             infos[i].entrypoints[j].port = port, Passed(i, j, a, e + 1)
      PROVE  Passed(i, j, a, e)
  <2>1. i = a => j # e
    BY <1>1
  <2>2. i = a => j \in Int /\ e \in Int
    BY DEF InfosRight
  <2>3. QED BY <1>1, <2>1, <2>2 DEF Passed
<1>2. QED BY <1>1 DEF Routed

(* The last entrypoint of an app is behind, and those of the next to come. *)
LEMMA RoutedNextApp ==
    ASSUME InfosRight, NEW port, NEW a \in DOMAIN infos, NEW e \in Nat \ {0},
           e \notin DOMAIN infos[a].entrypoints,
           NEW R, NEW S, Routed(R, S, port, a, e)
    PROVE  Routed(R, S, port, a + 1, 1)
<1>1. ASSUME NEW i \in DOMAIN infos, NEW j \in DOMAIN infos[i].entrypoints, Passed(i, j, a + 1, 1)
      PROVE  Passed(i, j, a, e)
  <2>1. PICK n \in Nat : DOMAIN infos = 1..n
    BY DEF InfosRight
  <2>2. PICK m \in Nat : DOMAIN infos[i].entrypoints = 1..m
    BY DEF InfosRight
  <2>3. i \in Int /\ a \in Int /\ j \in Int /\ j >= 1
    BY <2>1, <2>2
  <2>4. i <= a
    BY <1>1, <2>3 DEF Passed
  <2>5. i = a => e > m
    BY <2>2
  <2>6. QED BY <2>2, <2>3, <2>4, <2>5 DEF Passed
<1>2. QED BY <1>1 DEF Routed

LEMMA TraefikStarts == TraefikInit => TraefikInv
BY InfosStart DEF TraefikInit, TraefikInv

LEMMA HttpSectionRight ==
    ASSUME AddHttpSection, InfosRight, appAt = 1, epAt = 1
    PROVE  HttpRight'
<1>1. /\ http' = [routers |-> Dict(CoreRouters), middlewares |-> Dict(Middlewares),
                  services |-> Dict(CoreServices)]
      /\ UNCHANGED <<infos, appAt, epAt>>
  BY DEF AddHttpSection
<1>2. /\ DOMAIN http' = {"routers", "middlewares", "services"} /\ http'.routers = Dict(CoreRouters)
      /\ http'.middlewares = Dict(Middlewares) /\ http'.services = Dict(CoreServices)
  BY <1>1
<1>3. DOMAIN Dict(Middlewares) = MiddlewareNames
  <2>1. {i[1] : i \in Middlewares} = MiddlewareNames
    BY DEF Middlewares, MiddlewareNames
  <2>2. QED BY <2>1, DictIs
<1>4. ServiceNames \subseteq DOMAIN Dict(CoreServices)
  <2>1. {i[1] : i \in CoreServices} = ServiceNames
    BY DEF CoreServices, ServiceNames
  <2>2. QED BY <2>1, DictIs
<1>5. \A k \in DOMAIN http'.routers : CoreRoute(http'.routers[k])
  <2>1. \A k \in DOMAIN Dict(CoreRouters) : \E i \in CoreRouters : Dict(CoreRouters)[k] = i[2]
    BY DictIs
  <2>2. \A k \in DOMAIN Dict(CoreRouters) : CoreRoute(Dict(CoreRouters)[k])
    BY <2>1, CoreRoutersRight, Zenon
  <2>3. QED BY <1>2, <2>2
<1>6. \A i \in DOMAIN infos : \A j \in DOMAIN infos[i].entrypoints : ~Passed(i, j, 1, 1)
  <2> SUFFICES ASSUME NEW i \in DOMAIN infos, NEW j \in DOMAIN infos[i].entrypoints
               PROVE  ~Passed(i, j, 1, 1)
    OBVIOUS
  <2>1. PICK n \in Nat : DOMAIN infos = 1..n
    BY DEF InfosRight
  <2>2. PICK m \in Nat : DOMAIN infos[i].entrypoints = 1..m
    BY DEF InfosRight
  <2>3. QED BY <2>1, <2>2 DEF Passed
<1>7. Routed(http'.routers, http'.services, "http", 1, 1)
  BY <1>5, <1>6 DEF Routed
<1>8. Routed(http.routers, http.services, "http", appAt, epAt)'
  BY <1>1, <1>7 DEF Routed, AppRoute, Own
<1>9. QED BY <1>2, <1>3, <1>4, <1>8 DEF HttpRight

LEMMA TraefikStep ==
    ASSUME TraefikInv, [TraefikNext]_traefikVars
    PROVE  TraefikInv'
<1>0. InfosRight /\ appAt \in Nat \ {0} /\ epAt \in Nat \ {0}
  BY DEF TraefikInv
<1>i. infos' = infos
  BY DEF TraefikNext, AddHttpSection, AddTcpSection, AddEntrypoint, NextApp, DropEmpty, traefikVars
<1>r. InfosRight'
  BY <1>0, <1>i DEF InfosRight
<1>d. \A R, S, port, a, e : Routed(R, S, port, a, e)' = Routed(R, S, port, a, e)
  BY <1>i DEF Routed, AppRoute, Own
<1>1. CASE UNCHANGED traefikVars
  BY <1>1, <1>r DEF traefikVars, TraefikInv, HttpRight, TcpRight, Routed, AppRoute, Own, NoEmptyObject,
                    TcpRouters, TcpServices, TcpPart
<1>2. CASE AddHttpSection
  <2>1. stage = "http" /\ stage' = "tcp" /\ UNCHANGED <<appAt, epAt>>
    BY <1>2 DEF AddHttpSection
  <2>2. appAt = 1 /\ epAt = 1
    BY <2>1 DEF TraefikInv
  <2>3. HttpRight'
    BY <1>0, <1>2, <2>2, HttpSectionRight
  <2>4. QED BY <1>0, <1>r, <2>1, <2>2, <2>3 DEF TraefikInv
<1>3. CASE AddTcpSection
  <2>1. /\ stage = "tcp" /\ stage' = "apps" /\ UNCHANGED <<appAt, epAt, http>>
        /\ tcp' = [routers |-> <<>>, services |-> <<>>] /\ sections' = sections \cup {"tcp"}
    BY <1>3 DEF AddTcpSection
  <2>2. appAt = 1 /\ epAt = 1 /\ HttpRight
    BY <2>1 DEF TraefikInv
  <2>3. HttpRight'
    BY <1>i, <2>1, <2>2 DEF HttpRight, Routed, AppRoute, Own
  <2>4. /\ DOMAIN tcp' = {"routers", "services"} /\ tcp'.routers = <<>> /\ tcp'.services = <<>>
        /\ DOMAIN tcp'.routers = {} /\ DOMAIN tcp'.services = {}
    BY <2>1
  <2>5. \A i \in DOMAIN infos : \A j \in DOMAIN infos[i].entrypoints : ~Passed(i, j, 1, 1)
    <3> SUFFICES ASSUME NEW i \in DOMAIN infos, NEW j \in DOMAIN infos[i].entrypoints
                 PROVE  ~Passed(i, j, 1, 1)
      OBVIOUS
    <3>1. PICK n \in Nat : DOMAIN infos = 1..n
      BY <1>0 DEF InfosRight
    <3>2. PICK m \in Nat : DOMAIN infos[i].entrypoints = 1..m
      BY <1>0 DEF InfosRight
    <3>3. QED BY <3>1, <3>2 DEF Passed
  <2>6. Routed(tcp'.routers, tcp'.services, "mqtt", 1, 1)
    BY <2>4, <2>5 DEF Routed
  <2>7. TcpRight'
    BY <1>i, <2>1, <2>2, <2>4, <2>6 DEF TcpRight, Routed, AppRoute, Own
  <2>8. QED BY <1>0, <1>r, <2>1, <2>2, <2>3, <2>7 DEF TraefikInv
<1>4. CASE AddEntrypoint
  <2> DEFINE app == infos[appAt].app
             ep == infos[appAt].entrypoints[epAt]
             key == Key(app, ep)
             router == AppRouter(app, ep)
  <2>1. /\ stage = "apps" /\ stage' = "apps" /\ appAt \in DOMAIN infos
        /\ epAt \in DOMAIN infos[appAt].entrypoints
        /\ epAt' = epAt + 1 /\ UNCHANGED <<appAt, sections>>
        /\ \/ ep.port = "http" /\ http' = AddTo(http, app, ep) /\ UNCHANGED tcp
           \/ ep.port = "mqtt" /\ tcp' = AddTo(tcp, app, ep) /\ UNCHANGED http
    BY <1>4 DEF AddEntrypoint
  <2>2. /\ HttpRight /\ TcpRight /\ "tcp" \in sections
        /\ Routed(http.routers, http.services, "http", appAt, epAt)
        /\ Routed(tcp.routers, tcp.services, "mqtt", appAt, epAt)
    BY <2>1 DEF TraefikInv, HttpRight, TcpRight
  <2>3. ASSUME NEW port \in {"http", "mqtt"}, NEW R, NEW S, Routed(R, S, port, appAt, epAt), ep.port = port
        PROVE  Routed(With(R, key, router), With(S, key, ep.container), port, appAt, epAt + 1)
    BY <1>0, <2>1, <2>3, RoutedGrows
  <2>4. ASSUME NEW port, NEW R, NEW S, Routed(R, S, port, appAt, epAt), ep.port # port
        PROVE  Routed(R, S, port, appAt, epAt + 1)
    BY <1>0, <2>1, <2>4, RoutedPasses
  <2> HIDE DEF ep, app, key, router
  <2>5. CASE ep.port = "http" /\ http' = AddTo(http, app, ep) /\ UNCHANGED tcp
    <3>1. /\ DOMAIN http' = DOMAIN http /\ http'.middlewares = http.middlewares
          /\ http'.routers = With(http.routers, key, router)
          /\ http'.services = With(http.services, key, ep.container)
      BY <2>2, <2>5 DEF AddTo, HttpRight, key, router
    <3>2. DOMAIN http.services \subseteq DOMAIN http'.services
      BY <3>1 DEF With
    <3>3. /\ Routed(http'.routers, http'.services, "http", appAt, epAt + 1)
          /\ Routed(tcp.routers, tcp.services, "mqtt", appAt, epAt + 1)
      BY <2>2, <2>3, <2>4, <2>5, <3>1
    <3>4. HttpRight'
      BY <1>d, <2>1, <2>2, <3>1, <3>2, <3>3 DEF HttpRight
    <3>5. TcpRight'
      BY <1>i, <2>1, <2>2, <2>5, <3>3 DEF TcpRight, Routed, AppRoute, Own
    <3>6. QED BY <1>0, <1>r, <2>1, <2>2, <3>4, <3>5 DEF TraefikInv
  <2>6. CASE ep.port = "mqtt" /\ tcp' = AddTo(tcp, app, ep) /\ UNCHANGED http
    <3>1. /\ DOMAIN tcp' = DOMAIN tcp
          /\ tcp'.routers = With(tcp.routers, key, router)
          /\ tcp'.services = With(tcp.services, key, ep.container)
      BY <2>2, <2>6 DEF AddTo, TcpRight, key, router
    <3>2. DOMAIN tcp'.routers = DOMAIN tcp'.services
      BY <2>2, <3>1 DEF With, TcpRight
    <3>3. /\ Routed(tcp'.routers, tcp'.services, "mqtt", appAt, epAt + 1)
          /\ Routed(http.routers, http.services, "http", appAt, epAt + 1)
      BY <2>2, <2>3, <2>4, <2>6, <3>1
    <3>4. TcpRight'
      BY <1>d, <2>1, <2>2, <3>1, <3>2, <3>3 DEF TcpRight
    <3>5. HttpRight'
      BY <1>i, <2>1, <2>2, <2>6, <3>3 DEF HttpRight, Routed, AppRoute, Own
    <3>6. QED BY <1>0, <1>r, <2>1, <2>2, <3>4, <3>5 DEF TraefikInv
  <2>7. QED BY <2>1, <2>5, <2>6
<1>5. CASE NextApp
  <2>1. /\ stage = "apps" /\ stage' = "apps" /\ appAt \in DOMAIN infos
        /\ epAt \notin DOMAIN infos[appAt].entrypoints
        /\ appAt' = appAt + 1 /\ epAt' = 1 /\ UNCHANGED <<sections, http, tcp>>
    BY <1>5 DEF NextApp
  <2>2. HttpRight /\ TcpRight /\ "tcp" \in sections
    BY <2>1 DEF TraefikInv
  <2>3. /\ Routed(http.routers, http.services, "http", appAt + 1, 1)
        /\ Routed(tcp.routers, tcp.services, "mqtt", appAt + 1, 1)
    BY <1>0, <2>1, <2>2, RoutedNextApp DEF HttpRight, TcpRight
  <2>4. HttpRight' /\ TcpRight'
    BY <1>i, <2>1, <2>2, <2>3 DEF HttpRight, TcpRight, Routed, AppRoute, Own
  <2>5. QED BY <1>0, <1>r, <2>1, <2>2, <2>4 DEF TraefikInv
<1>6. CASE DropEmpty
  <2>1. /\ stage = "apps" /\ stage' = "done" /\ appAt \notin DOMAIN infos
        /\ tcp' = [x \in {y \in DOMAIN tcp : DOMAIN tcp[y] # {}} |-> tcp[x]]
        /\ sections' = IF DOMAIN tcp' = {} THEN sections \ {"tcp"} ELSE sections
        /\ UNCHANGED <<appAt, epAt, http>>
    BY <1>6 DEF DropEmpty
  <2>2. HttpRight /\ TcpRight /\ "tcp" \in sections
    BY <2>1 DEF TraefikInv
  <2>3. HttpRight'
    BY <1>i, <2>1, <2>2 DEF HttpRight, Routed, AppRoute, Own
  <2>4. /\ DOMAIN tcp = {"routers", "services"} /\ DOMAIN tcp.routers = DOMAIN tcp.services
        /\ Routed(tcp.routers, tcp.services, "mqtt", appAt, epAt)
    BY <2>2 DEF TcpRight
  <2>5. NoEmptyObject'
    BY <2>1, <2>2 DEF NoEmptyObject
  <2>6. CASE DOMAIN tcp.routers = {}
    <3>1. DOMAIN tcp' = {} /\ "tcp" \notin sections'
      BY <2>1, <2>4, <2>6
    <3>2. TcpRouters' = <<>> /\ TcpServices' = <<>>
      BY <3>1 DEF TcpRouters, TcpServices, TcpPart
    <3>3. DOMAIN TcpRouters' = {} /\ DOMAIN TcpServices' = {}
      BY <3>2
    <3>4. Routed(TcpRouters', TcpServices', "mqtt", appAt, epAt)
      BY <2>4, <2>6, <3>3 DEF Routed
    <3>5. (Routed(TcpRouters, TcpServices, "mqtt", appAt, epAt))'
      BY <1>d, <2>1, <3>4
    <3>6. QED BY <1>0, <1>i, <1>r, <2>1, <2>3, <2>5, <3>3, <3>5 DEF TraefikInv
  <2>7. CASE DOMAIN tcp.routers # {}
    <3>1. /\ DOMAIN tcp' = {"routers", "services"} /\ tcp'.routers = tcp.routers
          /\ tcp'.services = tcp.services /\ sections' = sections
      BY <2>1, <2>4, <2>7
    <3>2. TcpRouters' = tcp.routers /\ TcpServices' = tcp.services
      BY <2>2, <3>1 DEF TcpRouters, TcpServices, TcpPart
    <3>3. Routed(TcpRouters', TcpServices', "mqtt", appAt, epAt)
      BY <2>4, <3>2
    <3>4. (Routed(TcpRouters, TcpServices, "mqtt", appAt, epAt))'
      BY <1>d, <2>1, <3>3
    <3>5. QED BY <1>0, <1>i, <1>r, <2>1, <2>3, <2>4, <2>5, <3>2, <3>4 DEF TraefikInv
  <2>8. QED BY <2>6, <2>7
<1>7. QED BY <1>1, <1>2, <1>3, <1>4, <1>5, <1>6 DEF TraefikNext

(* The routers of one kind lead an app's host to its own containers.       *)
LEMMA HostedRight ==
    ASSUME InfosRight, NEW port \in {"http", "mqtt"}, NEW a \in Nat \ {0}, a \notin DOMAIN infos, NEW e,
           NEW R, NEW S, Routed(R, S, port, a, e), NEW i \in DOMAIN infos
    PROVE  LET hosted == {k \in DOMAIN R : R[k].host = infos[i].app}
           IN  /\ Own(i, port) # {} <=> hosted # {}
               /\ \A k \in hosted : /\ R[k].service = k /\ S[k] \in Own(i, port)
                                    /\ port = "http" => R[k].middlewares = <<"app-error", "auth">>
<1> DEFINE hosted == {k \in DOMAIN R : R[k].host = infos[i].app}
<1>1. ASSUME NEW k \in hosted
      PROVE  AppRoute(k, i, port, R, S)
  <2>1. ~CoreRoute(R[k])
    BY <1>1, RoutableAssumption DEF CoreRoute, InfosRight
  <2>2. PICK h \in DOMAIN infos : AppRoute(k, h, port, R, S)
    BY <1>1, <2>1 DEF Routed
  <2>3. infos[h].app = infos[i].app
    BY <1>1, <2>2 DEF AppRoute
  <2>4. h = i
    BY <2>3 DEF InfosRight
  <2>5. QED BY <2>2, <2>4
<1>2. ASSUME Own(i, port) # {} PROVE hosted # {}
  <2>1. PICK j \in DOMAIN infos[i].entrypoints : infos[i].entrypoints[j].port = port
    BY <1>2 DEF Own
  <2>2. Passed(i, j, a, e)
    BY DEF Passed, InfosRight
  <2>3. <<infos[i].app, port>> \in hosted
    BY <2>1, <2>2 DEF Routed
  <2>4. QED BY <2>3
<1>3. QED BY <1>1, <1>2 DEF AppRoute

(* What compile_config returns is what traefik has to be told: nothing     *)
(* empty, no dangling name, and the host of an app leads to its containers *)
(* and past /auth, for any number of apps and entrypoints.                 *)
THEOREM RoutesSound == TraefikSpec => []ConfigSound
<1>1. ASSUME TraefikInv PROVE ConfigSound
  <2> SUFFICES ASSUME stage = "done" PROVE ConfigSound
    BY DEF ConfigSound, NoEmptyObject, NamesResolve, HostsLeadHome
  <2>1. /\ InfosRight /\ HttpRight /\ NoEmptyObject /\ DOMAIN TcpRouters = DOMAIN TcpServices
        /\ Routed(http.routers, http.services, "http", appAt, epAt)
        /\ Routed(TcpRouters, TcpServices, "mqtt", appAt, epAt)
        /\ appAt \notin DOMAIN infos /\ appAt \in Nat \ {0}
    BY <1>1 DEF TraefikInv, HttpRight
  <2>2. NamesResolve
    <3>1. ASSUME NEW k \in DOMAIN http.routers
          PROVE  /\ http.routers[k].service \in DOMAIN http.services \cup {Name("api@internal")}
                 /\ \A m \in DOMAIN http.routers[k].middlewares :
                       http.routers[k].middlewares[m] \in DOMAIN http.middlewares
      <4>1. CASE CoreRoute(http.routers[k])
        BY <2>1, <4>1 DEF CoreRoute, HttpRight
      <4>2. CASE \E i \in DOMAIN infos : AppRoute(k, i, "http", http.routers, http.services)
        <5>1. /\ http.routers[k].service \in DOMAIN http.services
              /\ http.routers[k].middlewares = <<"app-error", "auth">>
          BY <4>2 DEF AppRoute
        <5>2. QED BY <2>1, <5>1 DEF HttpRight, MiddlewareNames
      <4>3. QED BY <2>1, <4>1, <4>2 DEF Routed
    <3>2. \A k \in DOMAIN TcpRouters : TcpRouters[k].service \in DOMAIN TcpServices
      BY <2>1 DEF Routed, AppRoute
    <3>3. QED BY <3>1, <3>2 DEF NamesResolve
  <2>3. HostsLeadHome
    <3> SUFFICES ASSUME NEW i \in DOMAIN infos, NEW port \in {"http", "mqtt"}
                 PROVE  LET routers == IF port = "http" THEN http.routers ELSE TcpRouters
                            services == IF port = "http" THEN http.services ELSE TcpServices
                            hosted == {k \in DOMAIN routers : routers[k].host = infos[i].app}
                        IN  /\ Own(i, port) # {} <=> hosted # {}
                            /\ \A k \in hosted :
                                  /\ services[routers[k].service] \in Own(i, port)
                                  /\ port = "http" => "auth" \in {routers[k].middlewares[m] :
                                                                    m \in DOMAIN routers[k].middlewares}
      BY DEF HostsLeadHome, EntrypointPort, Own
    <3> DEFINE routers == IF port = "http" THEN http.routers ELSE TcpRouters
               services == IF port = "http" THEN http.services ELSE TcpServices
               hosted == {k \in DOMAIN routers : routers[k].host = infos[i].app}
    <3>1. Routed(routers, services, port, appAt, epAt)
      BY <2>1
    <3> HIDE DEF routers, services
    <3>2. /\ Own(i, port) # {} <=> hosted # {}
          /\ \A k \in hosted : /\ routers[k].service = k /\ services[k] \in Own(i, port)
                               /\ port = "http" => routers[k].middlewares = <<"app-error", "auth">>
      BY <2>1, <3>1, HostedRight
    <3>3. \A m : m = <<"app-error", "auth">> => "auth" \in {m[x] : x \in DOMAIN m}
      <4>1. LET m == <<"app-error", "auth">> IN 2 \in DOMAIN m /\ m[2] = "auth"
        OBVIOUS
      <4>2. QED BY <4>1
    <3>4. QED BY <3>2, <3>3 DEF routers, services
  <2>4. QED BY <2>1, <2>2, <2>3 DEF ConfigSound
<1>2. QED BY TraefikStarts, TraefikStep, <1>1, PTL DEF TraefikSpec
=============================================================================
