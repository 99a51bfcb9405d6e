---------------------------- MODULE CacheProofs ----------------------------
(***************************************************************************)
(* Theorems about the cache, for every number of threads, ids and names,   *)
(* every max age and every latency.                                        *)
(***************************************************************************)
EXTENDS Cache, TLAPS

-----------------------------------------------------------------------------
(* Lemmas about the maps *)

LEMMA NewEntryType ==
    ASSUME NEW v \in Server, NEW snap \in Nat, now \in Nat
    PROVE  NewEntry(v, snap) \in Entry
BY DEF NewEntry, Server, Entry

LEMMA PutType ==
    ASSUME NEW f, NEW K, EntryMap(f, K), NEW k \in K, NEW e \in Entry
    PROVE  EntryMap(Put(f, k, e), K)
BY DEF EntryMap, Put

LEMMA EvictType ==
    ASSUME NEW f, NEW K, EntryMap(f, K)
    PROVE  EntryMap(Evict(f), K)
BY DEF EntryMap, Evict

\* A call has a natural number as its max age.
LEMMA CallType ==
    ASSUME NEW c \in Call \cup {NoCall}
    PROVE  c.maxAge \in Nat
<1>1. CASE c \in Call
  <2>1. c.maxAge \in MaxAges
    BY <1>1 DEF Call
  <2> QED
    BY <2>1, CacheAssumption DEF CacheAssumption
<1>2. CASE c = NoCall
  BY <1>2 DEF NoCall
<1> QED
  BY <1>1, <1>2

LEMMA RefreshOneType ==
    ASSUME TypeOK, NEW r \in [vals: SUBSET Server, snap: Nat], RefreshOne(r)
    PROVE  EntryMap(byID', Id) /\ EntryMap(byName', Name)
<1>1. CASE UNCHANGED mapVars
  BY <1>1 DEF mapVars, TypeOK
<1>2. ASSUME NEW v \in r.vals,
             byID' = Evict(Put(byID, v.id, NewEntry(v, r.snap))),
             byName' = Evict(Put(byName, v.name, NewEntry(v, r.snap)))
      PROVE  EntryMap(byID', Id) /\ EntryMap(byName', Name)
  <2>1. v \in Server /\ v.id \in Id /\ v.name \in Name
    BY DEF Server
  <2>2. NewEntry(v, r.snap) \in Entry
    BY <2>1, NewEntryType DEF TypeOK
  <2>3. EntryMap(byID, Id) /\ EntryMap(byName, Name)
    BY DEF TypeOK
  <2> QED
    BY <1>2, <2>1, <2>2, <2>3, PutType, EvictType
<1> QED
  BY <1>1, <1>2 DEF RefreshOne

LEMMA RefreshAllType ==
    ASSUME TypeOK, NEW r \in [vals: SUBSET Server, snap: Nat], RefreshAll(r)
    PROVE  EntryMap(byID', Id) /\ EntryMap(byName', Name)
<1> DEFINE V(i) == CHOOSE v \in r.vals : v.id = i
           W(n) == CHOOSE v \in r.vals : v.name = n
<1>1. ASSUME NEW i \in {v.id : v \in r.vals} PROVE NewEntry(V(i), r.snap) \in Entry
  <2>1. V(i) \in r.vals
    OBVIOUS
  <2> QED
    BY <2>1, NewEntryType DEF TypeOK
<1>2. ASSUME NEW n \in {v.name : v \in r.vals} PROVE NewEntry(W(n), r.snap) \in Entry
  <2>1. W(n) \in r.vals
    OBVIOUS
  <2> QED
    BY <2>1, NewEntryType DEF TypeOK
<1>3. {v.id : v \in r.vals} \subseteq Id /\ {v.name : v \in r.vals} \subseteq Name
  BY DEF Server
<1>4. /\ byID' = [i \in {v.id : v \in r.vals} |-> NewEntry(V(i), r.snap)]
      /\ byName' = [n \in {v.name : v \in r.vals} |-> NewEntry(W(n), r.snap)]
  BY DEF RefreshAll
<1> HIDE DEF V, W
<1> QED
  BY <1>1, <1>2, <1>3, <1>4 DEF EntryMap

-----------------------------------------------------------------------------
(* Type correctness *)

LEMMA ReturnType ==
    ASSUME TypeOK, NEW t \in Thread, NEW r \in Result, Return(t, r)
    PROVE  /\ pc' \in [Thread -> {"idle", "lock", "fetch", "direct", "store", "reply", "relookup"}]
           /\ call' \in [Thread -> Call \cup {NoCall}]
           /\ mark' \in [Thread -> Nat]
           /\ resp' \in [Thread -> [vals: SUBSET Server, snap: Nat]]
           /\ present' \in [Thread -> BOOLEAN]
           /\ res' \in Result
BY DEF TypeOK, Return, NoResp

\* What the maps hold are objects of the API.
LEMMA FoundType ==
    ASSUME TypeOK, NEW c
    PROVE  Found(c) \in SUBSET Server
BY DEF TypeOK, Found, Lookup, Cached, Value, EntryMap, Entry, Server

LEMMA TypeInit == Init => TypeOK
<1> SUFFICES ASSUME Init PROVE TypeOK
  OBVIOUS
<1>1. seen \in [Server -> Nat \cup {-1}] /\ born \in [Id -> Nat \cup {-1}]
  BY DEF Init
<1>2. EntryMap(byID, Id) /\ EntryMap(byName, Name)
  BY DEF Init, EntryMap
<1> QED
  BY <1>1, <1>2 DEF Init, TypeOK, NoCall, NoResp, NoResult, Result

LEMMA TypeNext == TypeOK /\ [Next]_vars => TypeOK'
<1> SUFFICES ASSUME TypeOK, [Next]_vars PROVE TypeOK'
  OBVIOUS
<1>nr. NoResult \in Result /\ Error \in Result
  BY DEF NoResult, Error, Result
<1>vr. ASSUME NEW S \in SUBSET Server PROVE Values(S) \in Result
  BY DEF Values, Result
<1>1. CASE Tick
  BY <1>1, <1>nr DEF Tick, TypeOK
<1>2. ASSUME NEW i \in Id, NEW n \in Name \cup {NoName}, ApiChange(i, n)
      PROVE  TypeOK'
  <2>1. seen' \in [Server -> Nat \cup {-1}]
    BY <1>2 DEF ApiChange, TypeOK
  <2>2. present' \in [Thread -> BOOLEAN]
    BY <1>2, Zenon DEF ApiChange, TypeOK
  <2>3. born' \in [Id -> Nat \cup {-1}] /\ world' \in [Id -> Name \cup {NoName}]
    BY <1>2 DEF ApiChange, TypeOK
  <2> QED
    BY <1>2, <1>nr, <2>1, <2>2, <2>3 DEF ApiChange, TypeOK
<1>3. ASSUME NEW t \in Thread, NEW c \in Call, Start(t, c)
      PROVE  TypeOK'
  <2>1. present' \in [Thread -> BOOLEAN]
    BY <1>3, Zenon DEF Start, TypeOK
  <2> QED
    BY <1>3, <1>nr, <2>1 DEF Start, TypeOK, apiVars, mapVars
<1>4. ASSUME NEW t \in Thread, LockHit(t) PROVE TypeOK'
  <2>1. Values(Found(call[t])) \in Result
    BY <1>vr, FoundType
  <2> QED
    BY <1>4, <2>1, ReturnType DEF LockHit, TypeOK, apiVars, mapVars
<1>5. ASSUME NEW t \in Thread, LockMiss(t) PROVE TypeOK'
  BY <1>5, <1>nr DEF LockMiss, TypeOK, apiVars, mapVars
<1>6. ASSUME NEW t \in Thread, Serve(t) PROVE TypeOK'
  <2>1. Live(world) \in SUBSET Server /\ Matches(call[t], world) \in SUBSET Server
    BY DEF Live, Matches
  <2>2. resp' \in [Thread -> [vals: SUBSET Server, snap: Nat]]
    BY <1>6, <2>1 DEF Serve, TypeOK
  <2> QED
    BY <1>6, <1>nr, <2>2 DEF Serve, TypeOK, apiVars, mapVars
<1>7. ASSUME NEW t \in Thread, FetchFails(t) PROVE TypeOK'
  BY <1>7, <1>nr, ReturnType DEF FetchFails, TypeOK, apiVars, mapVars
<1>8. ASSUME NEW t \in Thread, Reply(t) PROVE TypeOK'
  <2>1. resp[t].vals \in SUBSET Server
    BY DEF TypeOK
  <2>2. Values(resp[t].vals) \in Result
    BY <1>vr, <2>1
  <2> QED
    BY <1>8, <2>2, ReturnType DEF Reply, TypeOK, apiVars, mapVars
<1>9. ASSUME NEW t \in Thread, Store(t) PROVE TypeOK'
  <2>1. resp[t] \in [vals: SUBSET Server, snap: Nat]
    BY DEF TypeOK
  <2>2. EntryMap(byID', Id) /\ EntryMap(byName', Name)
    BY <1>9, <2>1, RefreshOneType, RefreshAllType DEF Store
  <2> QED
    BY <1>9, <1>nr, <2>2 DEF Store, TypeOK, apiVars, NoResp
<1>10. ASSUME NEW t \in Thread, Relookup(t) PROVE TypeOK'
  <2>1. Values(Found(call[t])) \in Result
    BY <1>vr, FoundType
  <2> QED
    BY <1>10, <2>1, ReturnType DEF Relookup, TypeOK, apiVars, mapVars
<1>11. CASE UNCHANGED vars
  BY <1>11 DEF vars, TypeOK
<1> QED
  BY <1>1, <1>2, <1>3, <1>4, <1>5, <1>6, <1>7, <1>8, <1>9, <1>10, <1>11 DEF Next, Step

\* The cache's fields, the calls in flight and their results are well typed in
\* every reachable state.
THEOREM TypeCorrect == Spec => []TypeOK
<1>1. Init => TypeOK
  BY TypeInit
<1>2. TypeOK /\ [Next]_vars => TypeOK'
  BY TypeNext
<1> QED
  BY <1>1, <1>2, PTL DEF Spec

-----------------------------------------------------------------------------
(* The mutex *)

LEMMA MutexNext == TypeOK /\ MutexInv /\ [Next]_vars => MutexInv'
<1> SUFFICES ASSUME TypeOK, MutexInv, [Next]_vars,
                    NEW u \in Thread
             PROVE  (HoldsMutex(u) <=> mu = u)'
  BY DEF MutexInv
<1> USE DEF HoldsMutex
<1>0. /\ Free \notin Thread
      /\ pc \in [Thread -> {"idle", "lock", "fetch", "direct", "store", "reply", "relookup"}]
      /\ \A t \in Thread : HoldsMutex(t) <=> mu = t
  BY CacheAssumption DEF CacheAssumption, TypeOK, MutexInv
<1>1. CASE Tick
  BY <1>0, <1>1 DEF Tick
<1>2. ASSUME NEW i \in Id, NEW n \in Name \cup {NoName}, ApiChange(i, n)
      PROVE  (HoldsMutex(u) <=> mu = u)'
  BY <1>0, <1>2 DEF ApiChange
<1>3. ASSUME NEW t \in Thread, NEW c \in Call, Start(t, c)
      PROVE  (HoldsMutex(u) <=> mu = u)'
  BY <1>0, <1>3 DEF Start
<1>4. ASSUME NEW t \in Thread, LockHit(t) PROVE (HoldsMutex(u) <=> mu = u)'
  BY <1>0, <1>4 DEF LockHit, Return
<1>5. ASSUME NEW t \in Thread, LockMiss(t) PROVE (HoldsMutex(u) <=> mu = u)'
  BY <1>0, <1>5 DEF LockMiss
<1>6. ASSUME NEW t \in Thread, Serve(t) PROVE (HoldsMutex(u) <=> mu = u)'
  BY <1>0, <1>6 DEF Serve
<1>7. ASSUME NEW t \in Thread, FetchFails(t) PROVE (HoldsMutex(u) <=> mu = u)'
  BY <1>0, <1>7 DEF FetchFails, Return
<1>8. ASSUME NEW t \in Thread, Reply(t) PROVE (HoldsMutex(u) <=> mu = u)'
  BY <1>0, <1>8 DEF Reply, Return
<1>9. ASSUME NEW t \in Thread, Store(t) PROVE (HoldsMutex(u) <=> mu = u)'
  BY <1>0, <1>9 DEF Store
<1>10. ASSUME NEW t \in Thread, Relookup(t) PROVE (HoldsMutex(u) <=> mu = u)'
  BY <1>0, <1>10 DEF Relookup, Return
<1>11. CASE UNCHANGED vars
  BY <1>0, <1>11 DEF vars
<1> QED
  BY <1>1, <1>2, <1>3, <1>4, <1>5, <1>6, <1>7, <1>8, <1>9, <1>10, <1>11 DEF Next, Step

LEMMA MutexInit == Init => MutexInv
BY CacheAssumption DEF CacheAssumption, Init, MutexInv, HoldsMutex

\* The mutex is held exactly by the thread between a miss and the return of
\* its call, on every path of getFromCache and All: no path leaks it.
THEOREM MutexCorrect == Spec => []MutexInv
<1>1. Init => TypeOK /\ MutexInv
  BY TypeInit, MutexInit
<1>2. TypeOK /\ MutexInv /\ [Next]_vars => (TypeOK /\ MutexInv)'
  BY TypeNext, MutexNext
<1> QED
  BY <1>1, <1>2, PTL DEF Spec

-----------------------------------------------------------------------------
(* What an entry says about the API.  An entry was true when the API       *)
(* answered the request, and it was stored within Latency of that moment.  *)

InFlight(t) == pc[t] \in {"fetch", "direct", "store", "reply"}

\* Time is bounded while a thread waits for the API or is about to look up.
ClockInv ==
    \A t \in Thread :
        /\ InFlight(t) => mark[t] <= now /\ now <= mark[t] + Latency
        /\ pc[t] = "relookup" => mark[t] <= now /\ now <= mark[t] + StepTime

\* The objects the API holds have been seen now, no object later than now.
SeenInv ==
    \A v \in Server : seen[v] <= now /\ (v \in Live(world) => seen[v] = now)

EntryTrue(e) ==
    /\ e.snap <= seen[Value(e)]
    /\ e.snap <= e.at /\ e.at <= e.snap + Latency
    /\ e.at <= now

EntryInv ==
    /\ \A i \in DOMAIN byID : EntryTrue(byID[i])
    /\ \A n \in DOMAIN byName : EntryTrue(byName[n])

\* An answer under way was true when the API gave it, during the call.
RespInv ==
    \A t \in Thread : pc[t] \in {"store", "reply"} =>
        /\ mark[t] <= resp[t].snap /\ resp[t].snap <= now
        /\ \A v \in resp[t].vals : resp[t].snap <= seen[v]

\* After its refresh, and until it returns, All sees entries of that refresh.
ListedInv ==
    \A t \in Thread : pc[t] = "relookup" /\ call[t].op = "All" =>
        \A i \in DOMAIN byID : byID[i].at = mark[t]

HistInv == ClockInv /\ SeenInv /\ EntryInv /\ RespInv /\ ListedInv

StaleInv == TypeOK /\ MutexInv /\ HistInv

LEMMA SeenNext ==
    ASSUME TypeOK, SeenInv, [Next]_vars
    PROVE  /\ SeenInv'
           /\ now <= now'
           /\ \A v \in Server : seen[v] <= seen'[v]
<1> DEFINE Goal == /\ SeenInv'
                   /\ now <= now'
                   /\ \A v \in Server : seen[v] <= seen'[v]
<1>0. /\ now \in Nat /\ seen \in [Server -> Nat \cup {-1}]
      /\ \A v \in Server : seen[v] <= now /\ (world[v.id] = v.name => seen[v] = now)
  BY DEF TypeOK, SeenInv, Live
<1>1. CASE Tick
  BY <1>0, <1>1 DEF Tick, SeenInv, Live
<1>2. ASSUME NEW i \in Id, NEW n \in Name \cup {NoName}, ApiChange(i, n)
      PROVE  Goal
  BY <1>0, <1>2 DEF ApiChange, SeenInv, Live
<1>3. CASE UNCHANGED <<now, world, seen>>
  BY <1>0, <1>3 DEF SeenInv, Live
<1>4. Tick \/ (\E i \in Id, n \in Name \cup {NoName} : ApiChange(i, n))
        \/ UNCHANGED <<now, world, seen>>
  BY DEF Next, Step, Start, LockHit, LockMiss, Serve, FetchFails, Reply, Store, Relookup, vars, apiVars
<1> QED
  BY <1>1, <1>2, <1>3, <1>4

LEMMA ClockNext == TypeOK /\ ClockInv /\ [Next]_vars => ClockInv'
<1> SUFFICES ASSUME TypeOK, ClockInv, [Next]_vars, NEW u \in Thread
             PROVE  (/\ InFlight(u) => mark[u] <= now /\ now <= mark[u] + Latency
                     /\ pc[u] = "relookup" => mark[u] <= now /\ now <= mark[u] + StepTime)'
  BY DEF ClockInv
<1> USE DEF InFlight
<1> DEFINE Goal == (/\ InFlight(u) => mark[u] <= now /\ now <= mark[u] + Latency
                    /\ pc[u] = "relookup" => mark[u] <= now /\ now <= mark[u] + StepTime)'
<1>0. /\ now \in Nat /\ Latency \in Nat /\ StepTime \in Nat
      /\ mark \in [Thread -> Nat]
      /\ pc \in [Thread -> {"idle", "lock", "fetch", "direct", "store", "reply", "relookup"}]
      /\ InFlight(u) => mark[u] <= now /\ now <= mark[u] + Latency
      /\ pc[u] = "relookup" => mark[u] <= now /\ now <= mark[u] + StepTime
  BY CacheAssumption DEF CacheAssumption, TypeOK, ClockInv
<1>1. CASE Tick
  BY <1>0, <1>1 DEF Tick
<1>2. ASSUME NEW i \in Id, NEW n \in Name \cup {NoName}, ApiChange(i, n)
      PROVE  Goal
  BY <1>0, <1>2 DEF ApiChange
<1>3. ASSUME NEW t \in Thread, NEW c \in Call, Start(t, c)
      PROVE  Goal
  BY <1>0, <1>3 DEF Start, Bypass
<1>4. ASSUME NEW t \in Thread, LockHit(t) PROVE Goal
  BY <1>0, <1>4 DEF LockHit, Return
<1>5. ASSUME NEW t \in Thread, LockMiss(t) PROVE Goal
  BY <1>0, <1>5 DEF LockMiss
<1>6. ASSUME NEW t \in Thread, Serve(t) PROVE Goal
  BY <1>0, <1>6 DEF Serve
<1>7. ASSUME NEW t \in Thread, FetchFails(t) PROVE Goal
  BY <1>0, <1>7 DEF FetchFails, Return
<1>8. ASSUME NEW t \in Thread, Reply(t) PROVE Goal
  BY <1>0, <1>8 DEF Reply, Return
<1>9. ASSUME NEW t \in Thread, Store(t) PROVE Goal
  BY <1>0, <1>9 DEF Store
<1>10. ASSUME NEW t \in Thread, Relookup(t) PROVE Goal
  BY <1>0, <1>10 DEF Relookup, Return
<1>11. CASE UNCHANGED vars
  BY <1>0, <1>11 DEF vars
<1> QED
  BY <1>1, <1>2, <1>3, <1>4, <1>5, <1>6, <1>7, <1>8, <1>9, <1>10, <1>11 DEF Next, Step

LEMMA RespNext == TypeOK /\ SeenInv /\ ClockInv /\ RespInv /\ [Next]_vars => RespInv'
<1> SUFFICES ASSUME TypeOK, SeenInv, ClockInv, RespInv, [Next]_vars,
                    NEW u \in Thread, pc'[u] \in {"store", "reply"}
             PROVE  (/\ mark[u] <= resp[u].snap /\ resp[u].snap <= now
                     /\ \A v \in resp[u].vals : resp[u].snap <= seen[v])'
  BY DEF RespInv
<1> DEFINE Goal == (/\ mark[u] <= resp[u].snap /\ resp[u].snap <= now
                    /\ \A v \in resp[u].vals : resp[u].snap <= seen[v])'
<1>0. /\ now \in Nat /\ now' \in Nat
      /\ seen \in [Server -> Nat \cup {-1}] /\ seen' \in [Server -> Nat \cup {-1}]
      /\ now <= now' /\ \A v \in Server : seen[v] <= seen'[v]
  BY TypeNext, SeenNext DEF TypeOK
<1>1. CASE /\ pc[u] \in {"store", "reply"}
           /\ mark'[u] = mark[u] /\ resp'[u] = resp[u]
  <2>1. /\ mark[u] <= resp[u].snap /\ resp[u].snap <= now
        /\ \A v \in resp[u].vals : resp[u].snap <= seen[v]
    BY <1>1 DEF RespInv
  <2>2. resp[u].snap \in Nat /\ resp[u].vals \subseteq Server /\ mark[u] \in Nat
    BY DEF TypeOK
  <2> QED
    BY <1>0, <1>1, <2>1, <2>2
<1>2. CASE Serve(u)
  <2>1. /\ resp'[u].snap = now /\ resp'[u].vals \subseteq Live(world)
        /\ mark' = mark /\ now' = now /\ seen' = seen
    BY <1>2 DEF Serve, Matches, TypeOK, apiVars
  <2>2. mark[u] <= now /\ mark[u] \in Nat
    BY <1>2 DEF Serve, ClockInv, InFlight, TypeOK
  <2>3. \A v \in resp'[u].vals : seen[v] = now
    BY <2>1 DEF SeenInv, Live
  <2> QED
    BY <1>0, <2>1, <2>2, <2>3
<1>3. \/ Serve(u)
      \/ /\ pc[u] \in {"store", "reply"}
         /\ mark'[u] = mark[u] /\ resp'[u] = resp[u]
  <2>0. pc \in [Thread -> {"idle", "lock", "fetch", "direct", "store", "reply", "relookup"}]
    BY DEF TypeOK
  <2>1. CASE \E t \in Thread : Step(t) \/ \E c \in Call : Start(t, c)
    BY <2>0, <2>1 DEF Step, Start, LockHit, LockMiss, Serve, FetchFails, Reply, Store,
                      Relookup, Return, TypeOK
  <2>2. CASE Tick \/ (\E i \in Id, n \in Name \cup {NoName} : ApiChange(i, n)) \/ UNCHANGED vars
    BY <2>2 DEF Tick, ApiChange, vars
  <2> QED
    BY <2>1, <2>2 DEF Next
<1> QED
  BY <1>1, <1>2, <1>3

\* An entry made from an answer in the moment the answer is stored is true.
LEMMA NewEntryTrue ==
    ASSUME StaleInv, NEW t \in Thread, pc[t] = "store", NEW v \in resp[t].vals
    PROVE  EntryTrue(NewEntry(v, resp[t].snap))
<1>1. /\ now \in Nat /\ Latency \in Nat /\ mark[t] \in Nat /\ resp[t].snap \in Nat
      /\ v \in Server /\ seen[v] \in Nat \cup {-1}
  BY CacheAssumption DEF CacheAssumption, StaleInv, TypeOK
<1>2. /\ mark[t] <= resp[t].snap /\ resp[t].snap <= now /\ resp[t].snap <= seen[v]
      /\ now <= mark[t] + Latency
  BY DEF StaleInv, HistInv, RespInv, ClockInv, InFlight
<1>3. Value(NewEntry(v, resp[t].snap)) = v
  BY <1>1 DEF Value, NewEntry, Server
<1> QED
  BY <1>1, <1>2, <1>3 DEF EntryTrue, NewEntry

LEMMA PutTrue ==
    ASSUME NEW f, NEW k, NEW e, \A x \in DOMAIN f : EntryTrue(f[x]), EntryTrue(e)
    PROVE  \A x \in DOMAIN Evict(Put(f, k, e)) : EntryTrue(Evict(Put(f, k, e))[x])
<1>1. \A x \in DOMAIN Put(f, k, e) : EntryTrue(Put(f, k, e)[x])
  BY DEF Put
<1> DEFINE g == Put(f, k, e)
<1> HIDE DEF g
<1>2. \A x \in DOMAIN g : EntryTrue(g[x])
  BY <1>1 DEF g
<1>3. \A x \in DOMAIN Evict(g) : EntryTrue(Evict(g)[x])
  BY <1>2 DEF Evict
<1> QED
  BY <1>3 DEF g

LEMMA StoreTrue ==
    ASSUME StaleInv, NEW t \in Thread, Store(t)
    PROVE  /\ \A i \in DOMAIN byID' : EntryTrue(byID'[i])
           /\ \A n \in DOMAIN byName' : EntryTrue(byName'[n])
<1> DEFINE r == resp[t]
<1>1. /\ \A i \in DOMAIN byID : EntryTrue(byID[i])
      /\ \A n \in DOMAIN byName : EntryTrue(byName[n])
  BY DEF StaleInv, HistInv, EntryInv
<1>2. \A v \in r.vals : EntryTrue(NewEntry(v, r.snap))
  BY NewEntryTrue DEF Store
<1> HIDE DEF r
<1>3. CASE RefreshOne(r)
  <2>1. CASE UNCHANGED mapVars
    BY <1>1, <2>1 DEF mapVars
  <2>2. ASSUME NEW v \in r.vals,
               byID' = Evict(Put(byID, v.id, NewEntry(v, r.snap))),
               byName' = Evict(Put(byName, v.name, NewEntry(v, r.snap)))
        PROVE  /\ \A i \in DOMAIN byID' : EntryTrue(byID'[i])
               /\ \A n \in DOMAIN byName' : EntryTrue(byName'[n])
    <3>1. EntryTrue(NewEntry(v, r.snap))
      BY <1>2
    <3> QED
      BY <1>1, <2>2, <3>1, PutTrue
  <2> QED
    BY <1>3, <2>1, <2>2 DEF RefreshOne
<1>4. CASE RefreshAll(r)
  <2> DEFINE V(i) == CHOOSE v \in r.vals : v.id = i
             W(n) == CHOOSE v \in r.vals : v.name = n
  <2>1. \A i \in {v.id : v \in r.vals} : V(i) \in r.vals
    OBVIOUS
  <2>2. \A n \in {v.name : v \in r.vals} : W(n) \in r.vals
    OBVIOUS
  <2>3. /\ byID' = [i \in {v.id : v \in r.vals} |-> NewEntry(V(i), r.snap)]
        /\ byName' = [n \in {v.name : v \in r.vals} |-> NewEntry(W(n), r.snap)]
    BY <1>4 DEF RefreshAll
  <2> HIDE DEF V, W
  <2> QED
    BY <1>2, <2>1, <2>2, <2>3
<1> QED
  BY <1>3, <1>4 DEF Store, r

LEMMA EntryNext == StaleInv /\ [Next]_vars => EntryInv'
<1> SUFFICES ASSUME StaleInv, [Next]_vars PROVE EntryInv'
  OBVIOUS
<1>0. TypeOK /\ SeenInv
  BY DEF StaleInv, HistInv
<1>1. /\ now <= now' /\ \A v \in Server : seen[v] <= seen'[v]
      /\ now \in Nat /\ now' \in Nat
      /\ seen \in [Server -> Nat \cup {-1}] /\ seen' \in [Server -> Nat \cup {-1}]
  BY <1>0, TypeNext, SeenNext DEF TypeOK
<1>2. ASSUME NEW e \in Entry, EntryTrue(e) PROVE EntryTrue(e)'
  <2>1. Value(e) \in Server /\ e.snap \in Nat /\ e.at \in Nat
    BY DEF Entry, Value, Server
  <2>2. e.snap <= seen'[Value(e)]
    BY <1>1, <1>2, <2>1 DEF EntryTrue
  <2> QED
    BY <1>1, <1>2, <2>1, <2>2 DEF EntryTrue, Value
<1>3. EntryMap(byID, Id)' /\ EntryMap(byName, Name)'
  BY <1>0, TypeNext DEF TypeOK
<1>4. /\ \A i \in DOMAIN byID' : EntryTrue(byID'[i])
      /\ \A n \in DOMAIN byName' : EntryTrue(byName'[n])
  <2>1. CASE UNCHANGED mapVars
    BY <2>1 DEF mapVars, StaleInv, HistInv, EntryInv
  <2>2. CASE \E t \in Thread : Store(t)
    BY <2>2, StoreTrue
  <2>3. UNCHANGED mapVars \/ \E t \in Thread : Store(t)
    BY DEF Next, Step, Tick, ApiChange, Start, LockHit, LockMiss, Serve, FetchFails, Reply,
           Relookup, vars, mapVars
  <2> QED
    BY <2>1, <2>2, <2>3
<1>5. /\ \A i \in DOMAIN byID' : byID'[i] \in Entry
      /\ \A n \in DOMAIN byName' : byName'[n] \in Entry
  BY <1>3 DEF EntryMap
<1>6. ASSUME NEW i \in DOMAIN byID' PROVE EntryTrue(byID[i])'
  <2>1. byID'[i] \in Entry /\ EntryTrue(byID'[i])
    BY <1>4, <1>5
  <2> QED
    BY <1>2, <2>1
<1>7. ASSUME NEW n \in DOMAIN byName' PROVE EntryTrue(byName[n])'
  <2>1. byName'[n] \in Entry /\ EntryTrue(byName'[n])
    BY <1>4, <1>5
  <2> QED
    BY <1>2, <2>1
<1> QED
  BY <1>6, <1>7 DEF EntryInv

LEMMA ListedNext == StaleInv /\ [Next]_vars => ListedInv'
<1> SUFFICES ASSUME StaleInv, [Next]_vars,
                    NEW u \in Thread, pc'[u] = "relookup", call'[u].op = "All",
                    NEW i \in DOMAIN byID'
             PROVE  byID'[i].at = mark'[u]
  BY DEF ListedInv
<1>0. /\ pc \in [Thread -> {"idle", "lock", "fetch", "direct", "store", "reply", "relookup"}]
      /\ mark \in [Thread -> Nat] /\ call \in [Thread -> Call \cup {NoCall}]
      /\ \A t \in Thread : HoldsMutex(t) <=> mu = t
  BY DEF StaleInv, TypeOK, MutexInv
<1>1. CASE pc[u] = "relookup"
  <2>1. ~ \E t \in Thread : Store(t)
    BY <1>0, <1>1 DEF Store, HoldsMutex
  <2>2. mark'[u] = mark[u] /\ call'[u] = call[u] /\ byID' = byID
    BY <1>0, <1>1, <2>1 DEF Next, Step, Tick, ApiChange, Start, LockHit, LockMiss, Serve,
                       FetchFails, Reply, Relookup, Return, vars, mapVars
  <2> QED
    BY <1>1, <2>2 DEF StaleInv, HistInv, ListedInv
<1>2. CASE pc[u] # "relookup"
  <2>1. Store(u)
    BY <1>0, <1>2 DEF Next, Step, Tick, ApiChange, Start, LockHit, LockMiss, Serve,
                       FetchFails, Reply, Store, Relookup, Return, vars
  <2>2. RefreshAll(resp[u]) /\ mark'[u] = now
    BY <1>0, <2>1 DEF Store, ListsAll
  <2> QED
    BY <2>2 DEF RefreshAll, NewEntry
<1> QED
  BY <1>1, <1>2

LEMMA StaleInit == Init => StaleInv
<1> SUFFICES ASSUME Init PROVE StaleInv
  OBVIOUS
<1>1. TypeOK /\ MutexInv
  BY TypeInit, MutexInit
<1>2. ClockInv /\ RespInv /\ ListedInv /\ EntryInv
  BY DEF Init, ClockInv, InFlight, RespInv, ListedInv, EntryInv
<1>3. SeenInv
  BY DEF Init, SeenInv, Live
<1> QED
  BY <1>1, <1>2, <1>3 DEF StaleInv, HistInv

LEMMA StaleNext == StaleInv /\ [Next]_vars => StaleInv'
<1> SUFFICES ASSUME StaleInv, [Next]_vars PROVE StaleInv'
  OBVIOUS
<1>1. TypeOK /\ MutexInv /\ ClockInv /\ SeenInv /\ RespInv
  BY DEF StaleInv, HistInv
<1> QED
  BY <1>1, TypeNext, MutexNext, ClockNext, SeenNext, RespNext, EntryNext, ListedNext
     DEF StaleInv, HistInv

-----------------------------------------------------------------------------
(* Staleness *)

Answer(t) ==
    Returned(t) => \A v \in res'.vals : now - seen[v] <= call[t].maxAge + Slack(call[t])

\* What Found takes from the maps is as old as its entry says.
LEMMA FoundAge ==
    ASSUME StaleInv, NEW c \in Call \cup {NoCall}, NEW v \in Found(c), NEW age \in Nat,
           c.op = "All" => \A i \in DOMAIN byID : now - byID[i].at <= age,
           c.op # "All" => age = c.maxAge
    PROVE  now - seen[v] <= age + Latency
<1>1. PICK e \in Entry : v = Value(e) /\ EntryTrue(e) /\ now - e.at <= age
  <2>1. /\ \A i \in DOMAIN byID : byID[i] \in Entry /\ EntryTrue(byID[i])
        /\ \A n \in DOMAIN byName : byName[n] \in Entry /\ EntryTrue(byName[n])
    BY DEF StaleInv, TypeOK, EntryMap, HistInv, EntryInv
  <2>2. CASE c.op = "All"
    BY <2>1, <2>2 DEF Found, Cached
  <2>3. CASE c.op # "All"
    BY <2>1, <2>3 DEF Found, Lookup, Fresh
  <2> QED
    BY <2>2, <2>3
<1>2. /\ e.snap \in Nat /\ e.at \in Nat /\ now \in Nat /\ Latency \in Nat
      /\ seen[v] \in Nat \cup {-1}
  <2>1. v \in Server
    BY <1>1 DEF Value, Entry, Server
  <2> QED
    BY <2>1, CacheAssumption DEF CacheAssumption, StaleInv, TypeOK, Entry
<1> QED
  BY <1>1, <1>2 DEF EntryTrue

LEMMA StaleStep == StaleInv /\ [Next]_vars => \A t \in Thread : Answer(t)
<1> SUFFICES ASSUME StaleInv, [Next]_vars, NEW t \in Thread, Returned(t), NEW v \in res'.vals
             PROVE  now - seen[v] <= call[t].maxAge + Slack(call[t])
  BY DEF Answer
<1>0. /\ pc \in [Thread -> {"idle", "lock", "fetch", "direct", "store", "reply", "relookup"}]
      /\ call[t] \in Call \cup {NoCall} /\ call[t].maxAge \in Nat
      /\ now \in Nat /\ Latency \in Nat /\ StepTime \in Nat /\ mark[t] \in Nat
  BY CallType, CacheAssumption DEF CacheAssumption, StaleInv, TypeOK
<1>1. LockHit(t) \/ Reply(t) \/ Relookup(t)
  BY <1>0 DEF Returned, Next, Step, Tick, ApiChange, Start, LockHit, LockMiss, Serve,
              FetchFails, Reply, Store, Relookup, Return, Error, vars
<1>2. CASE LockHit(t)
  <2>1. v \in Found(call[t]) /\ Hit(call[t])
    BY <1>2 DEF LockHit, Return, Values
  <2>2. call[t].op = "All" => \A i \in DOMAIN byID : now - byID[i].at <= call[t].maxAge
    BY <2>1 DEF Hit, AllFresh, Fresh
  <2>3. now - seen[v] <= call[t].maxAge + Latency
    BY <1>0, <2>1, <2>2, FoundAge
  <2>4. seen[v] \in Nat \cup {-1}
    BY <2>1, FoundType DEF StaleInv, TypeOK
  <2> QED
    BY <1>0, <2>3, <2>4 DEF Slack
<1>3. CASE Reply(t)
  <2>1. v \in resp[t].vals /\ pc[t] = "reply"
    BY <1>3 DEF Reply, Return, Values
  <2>2. /\ mark[t] <= resp[t].snap /\ resp[t].snap <= seen[v] /\ now <= mark[t] + Latency
    BY <2>1 DEF StaleInv, HistInv, RespInv, ClockInv, InFlight
  <2>3. resp[t].snap \in Nat /\ seen[v] \in Nat \cup {-1}
    BY <2>1 DEF StaleInv, TypeOK
  <2> QED
    BY <1>0, <2>2, <2>3 DEF Slack
<1>4. CASE Relookup(t)
  <2>1. v \in Found(call[t]) /\ pc[t] = "relookup"
    BY <1>4 DEF Relookup, Return, Values
  <2>2. seen[v] \in Nat \cup {-1}
    BY <2>1, FoundType DEF StaleInv, TypeOK
  <2>3. CASE call[t].op = "All"
    <3>1. \A i \in DOMAIN byID : byID[i].at = mark[t]
      BY <2>1, <2>3 DEF StaleInv, HistInv, ListedInv
    <3>2. now - mark[t] <= StepTime
      BY <1>0, <2>1 DEF StaleInv, HistInv, ClockInv
    <3>3. \A i \in DOMAIN byID : now - byID[i].at <= StepTime
      BY <3>1, <3>2
    <3>4. now - seen[v] <= StepTime + Latency
      BY <1>0, <2>1, <2>3, <3>3, FoundAge
    <3> QED
      BY <1>0, <2>2, <2>3, <3>4 DEF Slack
  <2>4. CASE call[t].op # "All"
    <3>1. now - seen[v] <= call[t].maxAge + Latency
      BY <1>0, <2>1, <2>4, FoundAge
    <3> QED
      BY <1>0, <2>2, <2>4, <3>1 DEF Slack
  <2> QED
    BY <2>3, <2>4
<1> QED
  BY <1>1, <1>2, <1>3, <1>4

\* Whatever the threads, the API and the clock do, no call of ByID, ByName or
\* All returns an object that ceased to exist longer ago than the max age of
\* the call plus the time an API call takes.
THEOREM StalenessBounded == Spec => BoundedStaleness
<1>1. Init => StaleInv
  BY StaleInit
<1>2. StaleInv /\ [Next]_vars => StaleInv'
  BY StaleNext
<1>3. StaleInv /\ [Next]_vars =>
        [\A t \in Thread : Returned(t) =>
            \A v \in res'.vals : now - seen[v] <= call[t].maxAge + Slack(call[t])]_vars
  BY StaleStep DEF Answer
<1> QED
  BY <1>1, <1>2, <1>3, PTL DEF Spec, BoundedStaleness

-----------------------------------------------------------------------------
(* The two maps *)

\* Storing one value under both keys, evicting from both maps by one clock
\* value, keeps the maps in agreement; so does replacing both.
LEMMA IndexStore ==
    ASSUME StaleInv, IndexInv, NEW t \in Thread, Store(t)
    PROVE  IndexInv'
<1> DEFINE r == resp[t]
<1>0. /\ now \in Nat /\ EvictAge \in Nat
      /\ r.snap \in Nat /\ r.vals \subseteq Server
      /\ \A i \in DOMAIN byID : byID[i].at \in Nat /\ byID[i].at <= now
      /\ \A n \in DOMAIN byName : byName[n].at \in Nat /\ byName[n].at <= now
  BY CacheAssumption DEF CacheAssumption, StaleInv, TypeOK, EntryMap, Entry, HistInv,
                         EntryInv, EntryTrue
<1>1. CASE RefreshOne(r)
  <2>1. CASE UNCHANGED mapVars
    BY <2>1 DEF mapVars, IndexInv, KeysMatch, MapsAgree
  <2>2. ASSUME NEW v \in r.vals,
               byID' = Evict(Put(byID, v.id, NewEntry(v, r.snap))),
               byName' = Evict(Put(byName, v.name, NewEntry(v, r.snap)))
        PROVE  IndexInv'
    <3> DEFINE e == NewEntry(v, r.snap)
               f == Put(byID, v.id, e)
               g == Put(byName, v.name, e)
    <3>1. e.id = v.id /\ e.name = v.name /\ e.at = now
      BY DEF NewEntry
    <3> HIDE DEF e, r
    <3>2. /\ DOMAIN f = DOMAIN byID \cup {v.id} /\ f[v.id] = e
          /\ \A i \in DOMAIN byID : i # v.id => f[i] = byID[i]
          /\ DOMAIN g = DOMAIN byName \cup {v.name} /\ g[v.name] = e
          /\ \A n \in DOMAIN byName : n # v.name => g[n] = byName[n]
      BY DEF Put
    <3> HIDE DEF f, g
    <3>3. /\ \A i \in DOMAIN f : f[i].id = i /\ f[i].at \in Nat
          /\ \A n \in DOMAIN g : g[n].name = n /\ g[n].at \in Nat
      BY <1>0, <3>1, <3>2 DEF IndexInv, KeysMatch
    <3>4. \A n \in DOMAIN g : g[n].id \in DOMAIN f /\ f[g[n].id].at >= g[n].at
      BY <1>0, <3>1, <3>2 DEF IndexInv, MapsAgree
    <3>5. \A i \in DOMAIN f : f[i].name \in DOMAIN g /\ g[f[i].name].at >= f[i].at
      BY <1>0, <3>1, <3>2 DEF IndexInv, MapsAgree
    <3>6. byID' = Evict(f) /\ byName' = Evict(g)
      BY <2>2 DEF e, f, g
    <3>7. KeysMatch'
      BY <3>3, <3>6 DEF Evict, KeysMatch
    <3>8. MapsAgree'
      BY <1>0, <3>3, <3>4, <3>5, <3>6 DEF Evict, MapsAgree
    <3> QED
      BY <3>7, <3>8 DEF IndexInv
  <2> QED
    BY <1>1, <2>1, <2>2 DEF RefreshOne
<1>2. CASE RefreshAll(r)
  <2> DEFINE V(i) == CHOOSE v \in r.vals : v.id = i
             W(n) == CHOOSE v \in r.vals : v.name = n
  <2>1. \A i \in {v.id : v \in r.vals} : V(i) \in r.vals /\ V(i).id = i
    OBVIOUS
  <2>2. \A n \in {v.name : v \in r.vals} : W(n) \in r.vals /\ W(n).name = n
    OBVIOUS
  <2>3. /\ byID' = [i \in {v.id : v \in r.vals} |-> NewEntry(V(i), r.snap)]
        /\ byName' = [n \in {v.name : v \in r.vals} |-> NewEntry(W(n), r.snap)]
    BY <1>2 DEF RefreshAll
  <2> HIDE DEF V, W, r
  <2>4. /\ DOMAIN byID' = {v.id : v \in r.vals} /\ DOMAIN byName' = {v.name : v \in r.vals}
        /\ \A i \in DOMAIN byID' : /\ byID'[i].id = V(i).id /\ byID'[i].name = V(i).name
                                    /\ byID'[i].at = now
        /\ \A n \in DOMAIN byName' : /\ byName'[n].id = W(n).id /\ byName'[n].name = W(n).name
                                      /\ byName'[n].at = now
    BY <2>3 DEF NewEntry
  <2>5. KeysMatch'
    BY <2>1, <2>2, <2>4 DEF KeysMatch
  <2>6. MapsAgree'
    BY <1>0, <2>1, <2>2, <2>4 DEF MapsAgree
  <2> QED
    BY <2>5, <2>6 DEF IndexInv
<1> QED
  BY <1>1, <1>2 DEF Store

LEMMA IndexNext == StaleInv /\ IndexInv /\ [Next]_vars => IndexInv'
<1> SUFFICES ASSUME StaleInv, IndexInv, [Next]_vars PROVE IndexInv'
  OBVIOUS
<1>1. CASE \E t \in Thread : Store(t)
  BY <1>1, IndexStore
<1>2. CASE UNCHANGED mapVars
  BY <1>2 DEF mapVars, IndexInv, KeysMatch, MapsAgree
<1>3. UNCHANGED mapVars \/ \E t \in Thread : Store(t)
  BY DEF Next, Step, Tick, ApiChange, Start, LockHit, LockMiss, Serve, FetchFails, Reply,
         Relookup, vars, mapVars
<1> QED
  BY <1>1, <1>2, <1>3

\* byID and byName always describe the same objects: each entry is filed under
\* its own keys, and an object known to one map is known to the other through
\* an entry at least as recent.
THEOREM IndexCorrect == Spec => []IndexInv
<1>1. Init => StaleInv /\ IndexInv
  BY StaleInit DEF Init, IndexInv, KeysMatch, MapsAgree
<1>2. StaleInv /\ IndexInv /\ [Next]_vars => (StaleInv /\ IndexInv)'
  BY StaleNext, IndexNext
<1> QED
  BY <1>1, <1>2, PTL DEF Spec

-----------------------------------------------------------------------------
(* (nil, nil) is right *)

\* The objects of S a lookup asks for.
Asked(c, S) == {v \in S : /\ c.op = "ByID" => v.id = c.key
                          /\ c.op = "ByName" => v.name = c.key}

\* The entry c asks for is there and was stored at time at.
Stored(c, at) ==
    /\ c.op = "ByID" => c.key \in DOMAIN byID /\ byID[c.key].at = at
    /\ c.op = "ByName" => c.key \in DOMAIN byName /\ byName[c.key].at = at

\* As long as the object asked for exists, the answer under way has it and the
\* refresh has stored it.  An answer to a request for one object has no other.
AskedInv ==
    \A t \in Thread :
        /\ pc[t] # "idle" => call[t] \in Call
        /\ present[t] => Matches(call[t], world) # {}
        /\ pc[t] \in {"store", "reply"} /\ present[t] => Asked(call[t], resp[t].vals) # {}
        /\ pc[t] = "store" /\ ~ListsAll(call[t]) => resp[t].vals \subseteq Asked(call[t], resp[t].vals)
        /\ pc[t] = "relookup" /\ present[t] => Stored(call[t], mark[t])

LEMMA StoreFiles ==
    ASSUME StaleInv, AskedInv, NEW t \in Thread, Store(t), present[t]
    PROVE  Stored(call[t], mark[t])'
<1> DEFINE c == call[t]
           r == resp[t]
<1>0. /\ now \in Nat /\ EvictAge \in Nat /\ r.vals \subseteq Server
      /\ mark'[t] = now /\ call' = call
  BY CacheAssumption DEF CacheAssumption, StaleInv, TypeOK, Store
<1>1. PICK v \in r.vals : /\ c.op = "ByID" => v.id = c.key
                          /\ c.op = "ByName" => v.name = c.key
  BY DEF AskedInv, Store, Asked
<1>2. CASE ListsAll(c)
  <2>1. RefreshAll(r)
    BY <1>2 DEF Store
  <2> HIDE DEF c, r
  <2>2. /\ v.id \in DOMAIN byID' /\ byID'[v.id].at = now
        /\ v.name \in DOMAIN byName' /\ byName'[v.name].at = now
    BY <2>1 DEF RefreshAll, NewEntry
  <2> QED
    BY <1>0, <1>1, <2>2 DEF Stored, c
<1>3. CASE ~ListsAll(c)
  <2>1. PICK w \in r.vals : /\ byID' = Evict(Put(byID, w.id, NewEntry(w, r.snap)))
                            /\ byName' = Evict(Put(byName, w.name, NewEntry(w, r.snap)))
    BY <1>1, <1>3 DEF Store, RefreshOne
  <2>2. /\ c.op = "ByID" => w.id = c.key
        /\ c.op = "ByName" => w.name = c.key
    BY <1>3 DEF AskedInv, Store, Asked
  <2> HIDE DEF c, r
  <2>3. /\ w.id \in DOMAIN byID' /\ byID'[w.id].at = now
        /\ w.name \in DOMAIN byName' /\ byName'[w.name].at = now
    BY <1>0, <2>1 DEF Evict, Put, NewEntry
  <2> QED
    BY <1>0, <2>2, <2>3 DEF Stored, c
<1> QED
  BY <1>2, <1>3

LEMMA AskedNext == StaleInv /\ AskedInv /\ [Next]_vars => AskedInv'
<1> SUFFICES ASSUME StaleInv, AskedInv, [Next]_vars, NEW u \in Thread
             PROVE  (/\ pc[u] # "idle" => call[u] \in Call
                     /\ present[u] => Matches(call[u], world) # {}
                     /\ pc[u] \in {"store", "reply"} /\ present[u] => Asked(call[u], resp[u].vals) # {}
                     /\ pc[u] = "store" /\ ~ListsAll(call[u])
                            => resp[u].vals \subseteq Asked(call[u], resp[u].vals)
                     /\ pc[u] = "relookup" /\ present[u] => Stored(call[u], mark[u]))'
  BY DEF AskedInv
<1> DEFINE Same == /\ pc'[u] = pc[u] /\ call'[u] = call[u] /\ mark'[u] = mark[u]
                   /\ resp'[u] = resp[u] /\ (present'[u] => present[u])
           Goal == (/\ pc[u] # "idle" => call[u] \in Call
                    /\ present[u] => Matches(call[u], world) # {}
                    /\ pc[u] \in {"store", "reply"} /\ present[u] => Asked(call[u], resp[u].vals) # {}
                    /\ pc[u] = "store" /\ ~ListsAll(call[u])
                           => resp[u].vals \subseteq Asked(call[u], resp[u].vals)
                    /\ pc[u] = "relookup" /\ present[u] => Stored(call[u], mark[u]))'
<1>0. /\ pc \in [Thread -> {"idle", "lock", "fetch", "direct", "store", "reply", "relookup"}]
      /\ call \in [Thread -> Call \cup {NoCall}]
      /\ mark \in [Thread -> Nat]
      /\ resp \in [Thread -> [vals: SUBSET Server, snap: Nat]]
      /\ present \in [Thread -> BOOLEAN]
      /\ \A t \in Thread : HoldsMutex(t) <=> mu = t
  BY DEF StaleInv, TypeOK, MutexInv
<1>1. /\ pc[u] # "idle" => call[u] \in Call
      /\ present[u] => Matches(call[u], world) # {}
      /\ pc[u] \in {"store", "reply"} /\ present[u] => Asked(call[u], resp[u].vals) # {}
      /\ pc[u] = "store" /\ ~ListsAll(call[u]) => resp[u].vals \subseteq Asked(call[u], resp[u].vals)
      /\ pc[u] = "relookup" /\ present[u] => Stored(call[u], mark[u])
  BY DEF AskedInv
<1>2. CASE Same /\ world' = world /\ UNCHANGED mapVars
  BY <1>1, <1>2 DEF mapVars, Matches, Live, Asked, ListsAll, Stored
<1>3. CASE \E i \in Id, n \in Name \cup {NoName} : ApiChange(i, n)
  <2>1. Same /\ UNCHANGED mapVars /\ (present'[u] => Matches(call[u], world') # {})
    BY <1>3 DEF ApiChange, mapVars
  <2> QED
    BY <1>1, <2>1 DEF mapVars, Matches, Live, Asked, ListsAll, Stored
<1>4. ASSUME NEW t \in Thread, t # u, Store(t) PROVE Goal
  <2>1. Same /\ world' = world /\ pc'[u] # "relookup"
    BY <1>0, <1>4 DEF Store, HoldsMutex, apiVars
  <2> QED
    BY <1>1, <2>1 DEF Matches, Live, Asked, ListsAll
<1>5. CASE Store(u)
  <2>1. /\ pc'[u] = "relookup" /\ call' = call /\ present' = present /\ world' = world
    BY <1>0, <1>5 DEF Store, apiVars
  <2>2. pc[u] = "store"
    BY <1>5 DEF Store
  <2> QED
    BY <1>1, <1>5, <2>1, <2>2, StoreFiles DEF Matches, Live
<1>6. CASE Serve(u)
  <2>1. /\ pc'[u] \in {"store", "reply"} /\ call' = call /\ present' = present
        /\ world' = world /\ pc[u] \in {"fetch", "direct"}
        /\ Matches(call[u], world) \subseteq resp'[u].vals
        /\ pc'[u] = "store" /\ ~ListsAll(call[u]) => resp'[u].vals = Matches(call[u], world)
    BY <1>0, <1>6 DEF Serve, apiVars, Matches
  <2>2. Matches(call[u], world) \subseteq Asked(call[u], resp'[u].vals)
    BY <2>1 DEF Matches, Asked
  <2> QED
    BY <1>1, <2>1, <2>2 DEF Matches, Live, ListsAll, Asked
<1>7. CASE \E c \in Call : Start(u, c)
  <2>1. PICK c \in Call : Start(u, c)
    BY <1>7
  <2>2. /\ pc'[u] \in {"direct", "lock"} /\ call'[u] = c /\ world' = world
        /\ present'[u] = (Matches(c, world) # {})
    BY <1>0, <2>1 DEF Start, apiVars
  <2> QED
    BY <2>2 DEF Matches, Live
<1>8. CASE LockMiss(u)
  BY <1>0, <1>1, <1>8 DEF LockMiss, apiVars, Matches, Live
<1>9. CASE pc'[u] = "idle" /\ present'[u] = FALSE
  BY <1>9
<1>10. \/ Same /\ world' = world /\ UNCHANGED mapVars
       \/ \E i \in Id, n \in Name \cup {NoName} : ApiChange(i, n)
       \/ \E t \in Thread : t # u /\ Store(t)
       \/ Store(u) \/ Serve(u) \/ (\E c \in Call : Start(u, c)) \/ LockMiss(u)
       \/ pc'[u] = "idle" /\ present'[u] = FALSE
  <2>1. CASE Tick \/ UNCHANGED vars
    BY <2>1 DEF Tick, vars, mapVars
  <2>2. ASSUME NEW t \in Thread, t # u,
               \/ LockHit(t) \/ LockMiss(t) \/ Serve(t) \/ FetchFails(t)
               \/ Reply(t) \/ Relookup(t) \/ \E c \in Call : Start(t, c)
        PROVE  Same /\ world' = world /\ UNCHANGED mapVars
    BY <1>0, <2>2 DEF LockHit, LockMiss, Serve, FetchFails, Reply, Relookup, Start, Return,
                      apiVars, mapVars
  <2>3. CASE LockHit(u) \/ FetchFails(u) \/ Reply(u) \/ Relookup(u)
    BY <1>0, <2>3 DEF LockHit, FetchFails, Reply, Relookup, Return
  <2> HIDE DEF Same
  <2> QED
    BY <2>1, <2>2, <2>3 DEF Next, Step
<1> HIDE DEF Same
<1> QED
  BY <1>2, <1>3, <1>4, <1>5, <1>6, <1>7, <1>8, <1>9, <1>10

LEMMA NotFoundStep ==
    ASSUME \A a \in MaxAges : StepTime <= a,
           StaleInv, AskedInv, [Next]_vars, NEW t \in Thread,
           Returned(t), call[t].op # "All", res'.vals = {}
    PROVE  ~present[t]
<1> SUFFICES ASSUME present[t] PROVE FALSE
  OBVIOUS
<1>0. /\ pc \in [Thread -> {"idle", "lock", "fetch", "direct", "store", "reply", "relookup"}]
      /\ now \in Nat /\ StepTime \in Nat /\ mark[t] \in Nat
  BY CacheAssumption DEF CacheAssumption, StaleInv, TypeOK
<1>1. LockHit(t) \/ Reply(t) \/ Relookup(t)
  BY <1>0 DEF Returned, Next, Step, Tick, ApiChange, Start, LockHit, LockMiss, Serve,
              FetchFails, Reply, Store, Relookup, Return, Error, vars
<1>2. CASE LockHit(t)
  BY <1>2 DEF LockHit, Hit, Found, Return, Values
<1>3. CASE Reply(t)
  BY <1>3 DEF Reply, Return, Values, AskedInv, Asked
<1>4. CASE Relookup(t)
  <2>1. pc[t] = "relookup" /\ Lookup(call[t]) = {}
    BY <1>4 DEF Relookup, Return, Values, Found
  <2>2. Stored(call[t], mark[t]) /\ call[t] \in Call
    BY <2>1 DEF AskedInv
  <2>3. now - mark[t] <= StepTime
    BY <1>0, <2>1 DEF StaleInv, HistInv, ClockInv
  <2>4. call[t].maxAge \in MaxAges /\ call[t].op \in {"ByID", "ByName"}
    BY <2>2 DEF Call
  <2>5. now - mark[t] <= call[t].maxAge
    <3>1. StepTime <= call[t].maxAge /\ call[t].maxAge \in Nat
      BY <2>4, CacheAssumption, Zenon DEF CacheAssumption
    <3> QED
      BY <1>0, <2>3, <3>1
  <2>6. CASE call[t].op = "ByID"
    <3>1. call[t].key \in {j \in DOMAIN byID : j = call[t].key /\ Fresh(byID[j], call[t].maxAge)}
      BY <2>2, <2>5, <2>6 DEF Stored, Fresh
    <3> QED
      BY <2>1, <2>6, <3>1 DEF Lookup
  <2>7. CASE call[t].op = "ByName"
    <3>1. call[t].key \in {m \in DOMAIN byName : m = call[t].key /\ Fresh(byName[m], call[t].maxAge)}
      BY <2>2, <2>5, <2>7 DEF Stored, Fresh
    <3> QED
      BY <2>1, <2>7, <3>1 DEF Lookup
  <2> QED
    BY <2>4, <2>6, <2>7
<1> QED
  BY <1>1, <1>2, <1>3, <1>4

\* If no call asks for a max age below the time between two statements (the
\* default is 10s), a lookup that returns (nil, nil) is right: the object was
\* absent at some moment of the call.
THEOREM NotFoundCorrect ==
    ASSUME \A a \in MaxAges : StepTime <= a
    PROVE  Spec => NotFoundIsTrue
<1>1. Init => StaleInv /\ AskedInv
  BY StaleInit DEF Init, AskedInv
<1>2. StaleInv /\ AskedInv /\ [Next]_vars => (StaleInv /\ AskedInv)'
  BY StaleNext, AskedNext
<1>3. StaleInv /\ AskedInv /\ [Next]_vars =>
        [\A t \in Thread : Returned(t) /\ call[t].op # "All" /\ res'.vals = {}
            => ~present[t]]_vars
  BY NotFoundStep
<1> QED
  BY <1>1, <1>2, <1>3, PTL DEF Spec, NotFoundIsTrue
=============================================================================
