-------------------------- MODULE CacheRefinement --------------------------
(***************************************************************************)
(* The cache implements what CachePromise promises its callers; without    *)
(* mode one it holds one listing of the API at a time, and All returns all *)
(* of it.                                                                  *)
(***************************************************************************)
EXTENDS CacheProofs

-----------------------------------------------------------------------------
(* Invariants *)

\* No two objects of S have the same id or the same name.
OneToOne(S) == \A u, v \in S : u.id = v.id \/ u.name = v.name => u = v

\* The API never holds two objects of one name, nor does an answer of it.
NamesInv ==
    /\ OneToOne(Live(world))
    /\ \A t \in Thread : pc[t] \in {"store", "reply"} => OneToOne(resp[t].vals)

\* An idle thread has no call; what a request that bypasses the cache returns
\* is what the call asked for; such a request is never made by All, and never
\* by a call that takes the mutex.
PathInv ==
    \A t \in Thread :
        /\ pc[t] = "idle" => call[t] = NoCall
        /\ pc[t] = "reply" => resp[t].vals \subseteq Asked(call[t], resp[t].vals)
        /\ pc[t] \in {"direct", "reply"} => Bypass(call[t])
        /\ pc[t] \in {"lock", "fetch", "store", "relookup"} => ~Bypass(call[t])

VisibleInv == StaleInv /\ AskedInv /\ IndexInv /\ NamesInv /\ PathInv

LEMMA NamesNext == TypeOK /\ NamesInv /\ [Next]_vars => NamesInv'
<1> SUFFICES ASSUME TypeOK, NamesInv, [Next]_vars PROVE NamesInv'
  OBVIOUS
<1>0. /\ pc \in [Thread -> {"idle", "lock", "fetch", "direct", "store", "reply", "relookup"}]
      /\ resp \in [Thread -> [vals: SUBSET Server, snap: Nat]]
      /\ world \in [Id -> Name \cup {NoName}] /\ NoName \notin Name
  BY CacheAssumption DEF CacheAssumption, TypeOK
<1>1. OneToOne(Live(world'))
  <2>1. CASE world' = world
    BY <2>1 DEF NamesInv
  <2>2. ASSUME NEW i \in Id, NEW n \in Name \cup {NoName}, ApiChange(i, n)
        PROVE  OneToOne(Live(world'))
    <3> SUFFICES ASSUME NEW u \in Live(world'), NEW v \in Live(world'),
                        u.id = v.id \/ u.name = v.name
                 PROVE  u = v
      BY DEF OneToOne
    <3>1. /\ u \in Server /\ world'[u.id] = u.name
          /\ v \in Server /\ world'[v.id] = v.name
      BY DEF Live
    <3>2. \A j \in Id : world'[j] = IF j = i THEN n ELSE world[j]
      BY <1>0, <2>2 DEF ApiChange
    <3>3. u.id \in Id /\ v.id \in Id /\ u.name \in Name /\ v.name \in Name
      BY <3>1 DEF Server
    <3>4. CASE u.id = v.id
      BY <3>1, <3>4 DEF Server
    <3>5. CASE u.id # i /\ v.id # i
      <4>1. u \in Live(world) /\ v \in Live(world)
        BY <3>1, <3>2, <3>3, <3>5 DEF Live
      <4> QED
        BY <4>1 DEF NamesInv, OneToOne
    <3>6. CASE u.id # v.id /\ (u.id = i \/ v.id = i)
      BY <1>0, <2>2, <3>1, <3>2, <3>3, <3>6 DEF ApiChange
    <3> QED
      BY <3>4, <3>5, <3>6
  <2>3. world' = world \/ \E i \in Id, n \in Name \cup {NoName} : ApiChange(i, n)
    BY DEF Next, Step, Tick, Start, LockHit, LockMiss, Serve, FetchFails, Reply, Store,
           Relookup, vars, apiVars
  <2> QED
    BY <2>1, <2>2, <2>3
<1>2. ASSUME NEW u \in Thread, pc'[u] \in {"store", "reply"}
      PROVE  OneToOne(resp'[u].vals)
  <2>1. CASE Serve(u)
    <3>1. resp'[u].vals \subseteq Live(world)
      BY <1>0, <2>1 DEF Serve, Matches
    <3> QED
      BY <3>1 DEF NamesInv, OneToOne
  <2>2. CASE pc[u] \in {"store", "reply"} /\ resp'[u] = resp[u]
    BY <2>2 DEF NamesInv
  <2>3. Serve(u) \/ (pc[u] \in {"store", "reply"} /\ resp'[u] = resp[u])
    <3>1. CASE \E t \in Thread : Step(t) \/ \E c \in Call : Start(t, c)
      BY <1>0, <1>2, <3>1 DEF Step, Start, LockHit, LockMiss, Serve, FetchFails, Reply,
                              Store, Relookup, Return
    <3>2. CASE Tick \/ (\E i \in Id, n \in Name \cup {NoName} : ApiChange(i, n)) \/ UNCHANGED vars
      BY <1>2, <3>2 DEF Tick, ApiChange, vars
    <3> QED
      BY <3>1, <3>2 DEF Next
  <2> QED
    BY <2>1, <2>2, <2>3
<1> QED
  BY <1>1, <1>2 DEF NamesInv

LEMMA PathNext == TypeOK /\ PathInv /\ [Next]_vars => PathInv'
<1> SUFFICES ASSUME TypeOK, PathInv, [Next]_vars, NEW u \in Thread
             PROVE  (/\ pc[u] = "idle" => call[u] = NoCall
                     /\ pc[u] = "reply" => resp[u].vals \subseteq Asked(call[u], resp[u].vals)
                     /\ pc[u] \in {"direct", "reply"} => Bypass(call[u])
                     /\ pc[u] \in {"lock", "fetch", "store", "relookup"} => ~Bypass(call[u]))'
  BY DEF PathInv
<1> DEFINE Goal == (/\ pc[u] = "idle" => call[u] = NoCall
                    /\ pc[u] = "reply" => resp[u].vals \subseteq Asked(call[u], resp[u].vals)
                    /\ pc[u] \in {"direct", "reply"} => Bypass(call[u])
                    /\ pc[u] \in {"lock", "fetch", "store", "relookup"} => ~Bypass(call[u]))'
<1>0. /\ pc \in [Thread -> {"idle", "lock", "fetch", "direct", "store", "reply", "relookup"}]
      /\ call \in [Thread -> Call \cup {NoCall}]
      /\ resp \in [Thread -> [vals: SUBSET Server, snap: Nat]]
  BY DEF TypeOK
<1>1. /\ pc[u] = "idle" => call[u] = NoCall
      /\ pc[u] = "reply" => resp[u].vals \subseteq Asked(call[u], resp[u].vals)
      /\ pc[u] \in {"direct", "reply"} => Bypass(call[u])
      /\ pc[u] \in {"lock", "fetch", "store", "relookup"} => ~Bypass(call[u])
  BY DEF PathInv
<1>2. CASE pc'[u] = pc[u] /\ call'[u] = call[u] /\ resp'[u] = resp[u]
  BY <1>1, <1>2 DEF Asked, Bypass
<1>3. ASSUME NEW c \in Call, Start(u, c) PROVE Goal
  BY <1>0, <1>3 DEF Start, Bypass
<1>4. CASE LockHit(u) \/ FetchFails(u) \/ Reply(u) \/ Relookup(u)
  BY <1>0, <1>4 DEF LockHit, FetchFails, Reply, Relookup, Return
<1>5. CASE LockMiss(u) \/ Store(u)
  BY <1>0, <1>1, <1>5 DEF LockMiss, Store, Bypass
<1>6. CASE Serve(u)
  <2>1. pc'[u] = "reply" => resp'[u].vals = Matches(call[u], world)
    BY <1>0, <1>6 DEF Serve
  <2>2. /\ call' = call
        /\ \/ pc[u] = "fetch" /\ pc'[u] = "store"
           \/ pc[u] = "direct" /\ pc'[u] = "reply"
    BY <1>0, <1>6 DEF Serve
  <2> QED
    BY <1>1, <2>1, <2>2 DEF Matches, Asked, Bypass
<1>7. \/ pc'[u] = pc[u] /\ call'[u] = call[u] /\ resp'[u] = resp[u]
      \/ Step(u) \/ \E c \in Call : Start(u, c)
  <2>1. ASSUME NEW t \in Thread, t # u, Step(t) \/ \E c \in Call : Start(t, c)
        PROVE  pc'[u] = pc[u] /\ call'[u] = call[u] /\ resp'[u] = resp[u]
    BY <1>0, <2>1 DEF Step, Start, LockHit, LockMiss, Serve, FetchFails, Reply, Store,
                      Relookup, Return
  <2>2. CASE Tick \/ (\E i \in Id, n \in Name \cup {NoName} : ApiChange(i, n)) \/ UNCHANGED vars
    BY <2>2 DEF Tick, ApiChange, vars
  <2> QED
    BY <2>1, <2>2 DEF Next
<1> QED
  BY <1>2, <1>3, <1>4, <1>5, <1>6, <1>7 DEF Step

LEMMA VisibleInit == Init => VisibleInv
<1> SUFFICES ASSUME Init PROVE VisibleInv
  OBVIOUS
<1>1. StaleInv
  BY StaleInit
<1>2. AskedInv /\ IndexInv /\ PathInv
  BY DEF Init, AskedInv, IndexInv, KeysMatch, MapsAgree, PathInv
<1>3. NamesInv
  <2>1. NoName \notin Name
    BY CacheAssumption DEF CacheAssumption
  <2>2. OneToOne(Live(world))
    BY <2>1 DEF Init, OneToOne, Live, Server
  <2> QED
    BY <2>2 DEF Init, NamesInv
<1> QED
  BY <1>1, <1>2, <1>3 DEF VisibleInv

LEMMA VisibleNext == VisibleInv /\ [Next]_vars => VisibleInv'
BY StaleNext, AskedNext, IndexNext, NamesNext, PathNext DEF VisibleInv, StaleInv

-----------------------------------------------------------------------------
(* The refinement *)

\* A lookup finds at most one value, and it has the key that was asked for.
LEMMA LookupOne ==
    ASSUME IndexInv, NEW c \in Call, c.op # "All"
    PROVE  /\ \A v \in Lookup(c) : Promise!Asked(c, v)
           /\ \A u, v \in Lookup(c) : u = v
<1>1. c.op \in {"ByID", "ByName"}
  BY DEF Call
<1>2. CASE c.op = "ByID"
  BY <1>2 DEF IndexInv, KeysMatch, Lookup, Value, Promise!Asked
<1>3. CASE c.op = "ByName"
  BY <1>3 DEF IndexInv, KeysMatch, Lookup, Value, Promise!Asked
<1> QED
  BY <1>1, <1>2, <1>3

\* What a call returns without an error answers it in the sense of the promise.
LEMMA AnswerStep ==
    ASSUME \A a \in MaxAges : StepTime <= a,
           VisibleInv, [Next]_vars, NEW t \in Thread, Returned(t)
    PROVE  Promise!Answers(t, res'.vals)
<1>0. /\ pc \in [Thread -> {"idle", "lock", "fetch", "direct", "store", "reply", "relookup"}]
      /\ seen \in [Server -> Nat \cup {-1}] /\ call[t] \in Call /\ call[t].maxAge \in Nat
      /\ now \in Nat /\ Latency \in Nat /\ StepTime \in Nat /\ res' \in Result
  BY CallType, TypeNext, CacheAssumption
     DEF CacheAssumption, VisibleInv, StaleInv, TypeOK, AskedInv, Returned
<1>1. LockHit(t) \/ Reply(t) \/ Relookup(t)
  BY <1>0 DEF Returned, Next, Step, Tick, ApiChange, Start, LockHit, LockMiss, Serve,
              FetchFails, Reply, Store, Relookup, Return, Error, vars
<1>2. \A v \in res'.vals : now - seen[v] <= call[t].maxAge + (Latency + StepTime)
  <2> SUFFICES ASSUME NEW v \in res'.vals
               PROVE  now - seen[v] <= call[t].maxAge + (Latency + StepTime)
    OBVIOUS
  <2>1. now - seen[v] <= call[t].maxAge + Slack(call[t])
    BY StaleStep DEF VisibleInv, Answer
  <2>2. seen[v] \in Nat \cup {-1}
    BY <1>0 DEF Result
  <2> QED
    BY <1>0, <2>1, <2>2 DEF Slack
<1>3. /\ \A v \in res'.vals : Promise!Asked(call[t], v)
      /\ call[t].op # "All" => \A v, u \in res'.vals : v = u
  <2>1. CASE LockHit(t) \/ Relookup(t)
    <3>1. res'.vals = Found(call[t])
      BY <2>1 DEF LockHit, Relookup, Return, Values
    <3>2. CASE call[t].op = "All"
      BY <3>2 DEF Promise!Asked
    <3>3. CASE call[t].op # "All"
      BY <1>0, <3>1, <3>3, LookupOne DEF VisibleInv, Found
    <3> QED
      BY <3>2, <3>3
  <2>2. CASE Reply(t)
    <3>1. res'.vals = resp[t].vals /\ pc[t] = "reply"
      BY <2>2 DEF Reply, Return, Values
    <3>2. resp[t].vals \subseteq Asked(call[t], resp[t].vals) /\ OneToOne(resp[t].vals)
      BY <3>1 DEF VisibleInv, PathInv, NamesInv
    <3>3. \A v \in resp[t].vals : Promise!Asked(call[t], v)
      BY <3>2 DEF Asked, Promise!Asked
    <3>4. call[t].op \in {"ByID", "ByName", "All"}
      BY <1>0 DEF Call
    <3> QED
      BY <3>1, <3>2, <3>3, <3>4 DEF OneToOne, Promise!Asked
  <2> QED
    BY <1>1, <2>1, <2>2
<1>4. call[t].op # "All" /\ res'.vals = {} => ~present[t]
  BY NotFoundStep DEF VisibleInv
<1> QED
  BY <1>2, <1>3, <1>4 DEF Promise!Answers

\* The promise and the cache agree on whether what is asked for exists.
LEMMA ExistsMatches ==
    ASSUME NEW c, NEW w
    PROVE  Promise!Exists(c, w) <=> Matches(c, w) # {}
BY DEF Promise!Exists, Promise!Asked, Promise!Object, Matches, Live, Server

\* Every step of the cache is a step of the promise, or changes nothing of it.
LEMMA SimulationStep ==
    ASSUME \A a \in MaxAges : StepTime <= a, VisibleInv, [Next]_vars
    PROVE  [Promise!Next]_(Promise!vars)
<1> USE DEF NoResult, Promise!NoResult
<1>0. /\ pc \in [Thread -> {"idle", "lock", "fetch", "direct", "store", "reply", "relookup"}]
      /\ \A t \in Thread : pc[t] = "idle" => call[t] = NoCall
      /\ \A t \in Thread : pc[t] # "idle" => call[t] \in Call
      /\ NoCall \notin Call
  BY DEF VisibleInv, StaleInv, TypeOK, PathInv, AskedInv, NoCall, Call
<1>1. CASE Tick
  <2>1. Promise!Tick
    BY <1>1 DEF Tick, Promise!Tick, Promise!Object, Server
  <2> QED
    BY <2>1 DEF Promise!Next
<1>2. ASSUME NEW i \in Id, NEW n \in Name \cup {NoName}, ApiChange(i, n)
      PROVE  Promise!Next
  <2>1. present' = [t \in Thread |-> present[t] /\ Promise!Exists(call[t], world')]
    <3>1. present' = [t \in Thread |-> present[t] /\ Matches(call[t], world') # {}]
      BY <1>2 DEF ApiChange
    <3>2. \A t \in Thread : Promise!Exists(call[t], world') = (Matches(call[t], world') # {})
      BY ExistsMatches DEF Promise!Exists
    <3> QED
      BY <3>1, <3>2
  <2>2. Promise!Change(i, n)
    BY <1>2, <2>1 DEF ApiChange, Promise!Change, Promise!Object, Server
  <2> QED
    BY <2>2 DEF Promise!Next
<1>3. ASSUME NEW t \in Thread, NEW c \in Call, Start(t, c)
      PROVE  Promise!Next
  <2>1. present' = [present EXCEPT ![t] = Promise!Exists(c, world)]
    <3>1. present' = [present EXCEPT ![t] = Matches(c, world) # {}]
      BY <1>3 DEF Start
    <3>2. Promise!Exists(c, world) = (Matches(c, world) # {})
      BY ExistsMatches DEF Promise!Exists
    <3> QED
      BY <3>1, <3>2
  <2>2. Promise!Start(t, c)
    BY <1>0, <1>3, <2>1 DEF Start, Promise!Start, apiVars
  <2> QED
    BY <2>2 DEF Promise!Next
<1>4. ASSUME NEW t \in Thread, LockMiss(t) \/ Serve(t) \/ Store(t)
      PROVE  Promise!Next
  <2>1. Promise!Work
    BY <1>4 DEF LockMiss, Serve, Store, apiVars, Promise!Work
  <2> QED
    BY <2>1 DEF Promise!Next
<1>5. ASSUME NEW t \in Thread, LockHit(t) \/ FetchFails(t) \/ Reply(t) \/ Relookup(t)
      PROVE  Promise!Next
  <2>1. /\ pc[t] # "idle" /\ pc'[t] = "idle"
        /\ call' = [call EXCEPT ![t] = NoCall] /\ present' = [present EXCEPT ![t] = FALSE]
        /\ UNCHANGED <<now, world, seen>>
    BY <1>0, <1>5 DEF LockHit, FetchFails, Reply, Relookup, Return, apiVars
  <2>2. call[t] # NoCall
    BY <1>0, <2>1
  <2>3. res' \in [kind: {"error", "values"}, vals: SUBSET Promise!Object]
    <3>1. res' \in Result
      BY TypeNext DEF VisibleInv, StaleInv, TypeOK
    <3>2. res'.kind \in {"error", "values"}
      BY <1>5 DEF LockHit, FetchFails, Reply, Relookup, Return, Error, Values
    <3> QED
      BY <3>1, <3>2 DEF Result, Promise!Object, Server
  <2>4. \/ res'.kind = "error" /\ res'.vals = {}
        \/ res'.kind = "values" /\ Promise!Answers(t, res'.vals)
    <3>1. CASE FetchFails(t)
      BY <3>1 DEF FetchFails, Return, Error
    <3>2. CASE LockHit(t) \/ Reply(t) \/ Relookup(t)
      <4>1. res'.kind = "values"
        BY <3>2 DEF LockHit, Reply, Relookup, Return, Values
      <4>2. Returned(t)
        BY <2>1, <4>1 DEF Returned
      <4> QED
        BY <4>1, <4>2, AnswerStep
    <3> QED
      BY <1>5, <3>1, <3>2
  <2>5. Promise!Return(t, res')
    BY <2>1, <2>2, <2>4 DEF Promise!Return
  <2> QED
    BY <2>3, <2>5 DEF Promise!Next
<1>6. CASE UNCHANGED vars
  BY <1>6 DEF vars, Promise!vars
<1> QED
  BY <1>1, <1>2, <1>3, <1>4, <1>5, <1>6 DEF Next, Step

LEMMA PromiseInit == Init => Promise!Init
BY DEF Init, Promise!Init, Promise!Object, Server, NoResult, Promise!NoResult

\* If no call asks for a max age below the time between two statements, the
\* cache implements CachePromise, whatever its modes, its maps, its evictions
\* and the interleaving of its callers: a call of ByID, ByName or All returns
\* objects that match its key and are recent enough, at most one object for a
\* lookup, an error, or a nil that is true.
THEOREM CacheImplements ==
    ASSUME \A a \in MaxAges : StepTime <= a
    PROVE  Spec => Implements
<1>1. Init => Promise!Init /\ VisibleInv
  BY PromiseInit, VisibleInit
<1>2. VisibleInv /\ [Next]_vars => VisibleInv'
  BY VisibleNext
<1>3. VisibleInv /\ [Next]_vars => [Promise!Next]_(Promise!vars)
  BY SimulationStep
<1> QED
  BY <1>1, <1>2, <1>3, PTL DEF Spec, Implements, Promise!Spec

-----------------------------------------------------------------------------
(* One listing *)

\* Replacing both maps by one answer without duplicates makes both hold just
\* that answer.
LEMMA RefreshAllHolds ==
    ASSUME TypeOK, NEW r \in [vals: SUBSET Server, snap: Nat], OneToOne(r.vals), RefreshAll(r)
    PROVE  /\ Cached' = r.vals
           /\ {Value(byName[n]) : n \in DOMAIN byName}' = r.vals
           /\ \A i \in DOMAIN byID' : byID'[i].snap = r.snap
<1> DEFINE V(i) == CHOOSE v \in r.vals : v.id = i
           W(n) == CHOOSE v \in r.vals : v.name = n
<1>0. \A v \in r.vals : v = [id |-> v.id, name |-> v.name]
  BY DEF Server
<1>1. \A v \in r.vals : V(v.id) = v
  BY DEF OneToOne
<1>2. \A v \in r.vals : W(v.name) = v
  BY DEF OneToOne
<1>3. /\ byID' = [i \in {v.id : v \in r.vals} |-> NewEntry(V(i), r.snap)]
      /\ byName' = [n \in {v.name : v \in r.vals} |-> NewEntry(W(n), r.snap)]
  BY DEF RefreshAll
<1> HIDE DEF V, W
<1>4. ASSUME NEW v \in r.vals
      PROVE  /\ v.id \in DOMAIN byID' /\ Value(byID'[v.id]) = v /\ byID'[v.id].snap = r.snap
             /\ v.name \in DOMAIN byName' /\ Value(byName'[v.name]) = v
  BY <1>0, <1>1, <1>2, <1>3 DEF NewEntry, Value
<1>5. /\ DOMAIN byID' = {v.id : v \in r.vals} /\ DOMAIN byName' = {v.name : v \in r.vals}
  BY <1>3
<1>6. {Value(byID'[i]) : i \in DOMAIN byID'} = r.vals
  BY <1>4, <1>5
<1>7. {Value(byName'[n]) : n \in DOMAIN byName'} = r.vals
  BY <1>4, <1>5
<1>8. \A i \in DOMAIN byID' : byID'[i].snap = r.snap
  BY <1>4, <1>5
<1> QED
  BY <1>6, <1>7, <1>8 DEF Cached, Value

\* Without mode one, whatever is stored is a listing.
LEMMA StoreLists ==
    ASSUME "one" \notin Modes, VisibleInv, NEW t \in Thread, Store(t)
    PROVE  /\ RefreshAll(resp[t]) /\ resp[t] \in [vals: SUBSET Server, snap: Nat]
           /\ OneToOne(resp[t].vals)
<1>1. pc[t] = "store"
  BY DEF Store
<1>2. call[t] \in Call /\ ~Bypass(call[t])
  BY <1>1 DEF VisibleInv, AskedInv, PathInv
<1>3. call[t].mode \in {"all", "off"}
  BY <1>2, CacheAssumption DEF CacheAssumption, Call
<1>4. ListsAll(call[t])
  BY <1>2, <1>3 DEF ListsAll, Bypass
<1> QED
  BY <1>1, <1>4 DEF Store, VisibleInv, NamesInv, StaleInv, TypeOK

LEMMA OneListingNext == VisibleInv /\ OneListing /\ [Next]_vars => OneListing'
<1> SUFFICES ASSUME VisibleInv, OneListing, [Next]_vars, "one" \notin Modes
             PROVE  (/\ Cached = {Value(byName[n]) : n \in DOMAIN byName}
                     /\ \A i, j \in DOMAIN byID : byID[i].snap = byID[j].snap)'
  BY DEF OneListing
<1>1. CASE UNCHANGED mapVars
  BY <1>1 DEF mapVars, OneListing, Cached, Value
<1>2. ASSUME NEW t \in Thread, Store(t)
      PROVE  (/\ Cached = {Value(byName[n]) : n \in DOMAIN byName}
              /\ \A i, j \in DOMAIN byID : byID[i].snap = byID[j].snap)'
  BY <1>2, StoreLists, RefreshAllHolds DEF VisibleInv, StaleInv
<1>3. UNCHANGED mapVars \/ \E t \in Thread : Store(t)
  BY DEF Next, Step, Tick, ApiChange, Start, LockHit, LockMiss, Serve, FetchFails, Reply,
         Relookup, vars, mapVars
<1> QED
  BY <1>1, <1>2, <1>3

\* Without mode one the two maps always hold one and the same listing of the
\* API, taken at one moment: lookups by id and by name never mix two states of
\* the project.
THEOREM OneListingCorrect == Spec => []OneListing
<1>1. Init => VisibleInv /\ OneListing
  BY VisibleInit DEF Init, OneListing, Cached
<1>2. VisibleInv /\ OneListing /\ [Next]_vars => (VisibleInv /\ OneListing)'
  BY VisibleNext, OneListingNext
<1> QED
  BY <1>1, <1>2, PTL DEF Spec

-----------------------------------------------------------------------------
(* All is complete *)

\* The API has held v, unchanged, since before the time s.
Settled(v, s) == v \in Live(world) /\ born[v.id] < s

\* Answers to a listing, the listing that is stored and, even when it is empty,
\* the listing All is about to return contain every object that was settled
\* when the API was asked.
CompleteInv ==
    /\ \A t \in Thread : pc[t] = "store" =>
          \A v \in Server : Settled(v, resp[t].snap) => v \in resp[t].vals
    /\ \A i \in DOMAIN byID : \A v \in Server :
          Settled(v, byID[i].snap) => v \in Cached
    /\ \A t \in Thread : pc[t] = "relookup" =>
          \A v \in Server : Settled(v, mark[t] - Latency) => v \in Cached

\* Nothing becomes settled at a moment that has passed.
LEMMA SettledNext ==
    ASSUME TypeOK, [Next]_vars, NEW v \in Server, NEW s \in Int, s <= now, Settled(v, s)'
    PROVE  Settled(v, s)
<1>0. /\ now \in Nat /\ born \in [Id -> Nat \cup {-1}] /\ v.id \in Id
      /\ world \in [Id -> Name \cup {NoName}]
  BY DEF TypeOK, Server
<1>1. ASSUME NEW i \in Id, NEW n \in Name \cup {NoName}, ApiChange(i, n)
      PROVE  Settled(v, s)
  <2>1. /\ born' = [born EXCEPT ![i] = now] /\ world' = [world EXCEPT ![i] = n]
    BY <1>1 DEF ApiChange
  <2>2. v.id # i
    BY <1>0, <2>1 DEF Settled
  <2> QED
    BY <1>0, <2>1, <2>2 DEF Settled, Live
<1>2. CASE UNCHANGED <<world, born>>
  BY <1>2 DEF Settled, Live
<1>3. UNCHANGED <<world, born>> \/ \E i \in Id, n \in Name \cup {NoName} : ApiChange(i, n)
  BY DEF Next, Step, Tick, Start, LockHit, LockMiss, Serve, FetchFails, Reply, Store,
         Relookup, vars, apiVars
<1> QED
  BY <1>1, <1>2, <1>3

LEMMA CompleteNext ==
    ASSUME "one" \notin Modes, VisibleInv, CompleteInv, [Next]_vars
    PROVE  CompleteInv'
<1>0. /\ pc \in [Thread -> {"idle", "lock", "fetch", "direct", "store", "reply", "relookup"}]
      /\ mark \in [Thread -> Nat] /\ resp \in [Thread -> [vals: SUBSET Server, snap: Nat]]
      /\ now \in Nat /\ born \in [Id -> Nat \cup {-1}] /\ Latency \in Nat
      /\ TypeOK /\ \A t \in Thread : HoldsMutex(t) <=> mu = t
  BY CacheAssumption DEF CacheAssumption, VisibleInv, StaleInv, TypeOK, MutexInv
<1>1. \A v \in Server, r \in Int :
        r <= now /\ v \in Live(world') /\ born'[v.id] < r => v \in Live(world) /\ born[v.id] < r
  BY <1>0, SettledNext DEF Settled
<1>2. ASSUME NEW u \in Thread, pc'[u] = "store", NEW v \in Server, Settled(v, resp[u].snap)'
      PROVE  v \in resp'[u].vals
  <2>1. CASE Serve(u)
    <3>1. pc[u] = "fetch" /\ call[u] \in Call /\ ~Bypass(call[u]) /\ world' = world
      BY <1>0, <1>2, <2>1 DEF Serve, VisibleInv, AskedInv, PathInv, apiVars
    <3>2. ListsAll(call[u])
      BY <3>1, CacheAssumption DEF CacheAssumption, Call, ListsAll, Bypass
    <3> QED
      BY <1>0, <1>2, <2>1, <3>1, <3>2 DEF Serve, Settled
  <2>2. CASE pc[u] = "store" /\ resp'[u] = resp[u]
    <3>1. resp[u].snap \in Nat /\ resp[u].snap <= now
      BY <1>0, <2>2 DEF VisibleInv, StaleInv, HistInv, RespInv
    <3>2. Settled(v, resp[u].snap)
      BY <1>1, <1>2, <2>2, <3>1 DEF Settled
    <3> QED
      BY <2>2, <3>2 DEF CompleteInv
  <2>3. Serve(u) \/ (pc[u] = "store" /\ resp'[u] = resp[u])
    <3>1. CASE \E t \in Thread : Step(t) \/ \E c \in Call : Start(t, c)
      BY <1>0, <1>2, <3>1 DEF Step, Start, LockHit, LockMiss, Serve, FetchFails, Reply,
                              Store, Relookup, Return
    <3>2. CASE Tick \/ (\E i \in Id, n \in Name \cup {NoName} : ApiChange(i, n)) \/ UNCHANGED vars
      BY <1>2, <3>2 DEF Tick, ApiChange, vars
    <3> QED
      BY <3>1, <3>2 DEF Next
  <2> QED
    BY <2>1, <2>2, <2>3
<1>3. CASE ~ \E t \in Thread : Store(t)
  <2>1. Cached' = Cached /\ byID' = byID
    <3>1. UNCHANGED mapVars
      BY <1>3 DEF Next, Step, Tick, ApiChange, Start, LockHit, LockMiss, Serve, FetchFails,
                  Reply, Relookup, vars, mapVars
    <3> QED
      BY <3>1 DEF mapVars, Cached, Value
  <2>2. ASSUME NEW i \in DOMAIN byID', NEW v \in Server, Settled(v, byID[i].snap)'
        PROVE  v \in Cached'
    <3>1. byID[i].snap \in Nat /\ byID[i].at \in Nat
      BY <1>0, <2>1 DEF TypeOK, EntryMap, Entry
    <3>2. byID[i].snap <= now
      BY <1>0, <2>1, <3>1 DEF VisibleInv, StaleInv, HistInv, EntryInv, EntryTrue
    <3> QED
      BY <1>1, <2>1, <2>2, <3>1, <3>2 DEF CompleteInv, Settled
  <2>3. ASSUME NEW u \in Thread, pc'[u] = "relookup", NEW v \in Server,
               Settled(v, mark[u] - Latency)'
        PROVE  v \in Cached'
    <3>1. pc[u] = "relookup" /\ mark'[u] = mark[u]
      BY <1>0, <1>3, <2>3 DEF Next, Step, Tick, ApiChange, Start, LockHit, LockMiss, Serve,
                              FetchFails, Reply, Relookup, Return, vars
    <3>2. mark[u] \in Nat /\ mark[u] <= now
      BY <1>0, <3>1 DEF VisibleInv, StaleInv, HistInv, ClockInv
    <3> QED
      BY <1>0, <1>1, <2>1, <2>3, <3>1, <3>2 DEF CompleteInv, Settled
  <2> QED
    BY <1>2, <2>2, <2>3 DEF CompleteInv
<1>4. ASSUME NEW t \in Thread, Store(t) PROVE CompleteInv'
  <2>1. /\ Cached' = resp[t].vals
        /\ \A i \in DOMAIN byID' : byID'[i].snap = resp[t].snap
    BY <1>0, <1>4, StoreLists, RefreshAllHolds
  <2>2. pc[t] = "store" /\ mark'[t] = now /\ world' = world /\ born' = born
    BY <1>0, <1>4 DEF Store, apiVars
  <2>3. resp[t].snap \in Nat /\ now - Latency <= resp[t].snap
    <3>1. mark[t] <= resp[t].snap /\ now <= mark[t] + Latency
      BY <2>2 DEF VisibleInv, StaleInv, HistInv, RespInv, ClockInv, InFlight
    <3> QED
      BY <1>0, <3>1
  <2>4. ASSUME NEW v \in Server, Settled(v, resp[t].snap) PROVE v \in Cached'
    BY <2>1, <2>2, <2>4 DEF CompleteInv
  <2>5. ASSUME NEW i \in DOMAIN byID', NEW v \in Server, Settled(v, byID[i].snap)'
        PROVE  v \in Cached'
    BY <2>1, <2>2, <2>4, <2>5 DEF Settled
  <2>6. ASSUME NEW u \in Thread, pc'[u] = "relookup", NEW v \in Server,
               Settled(v, mark[u] - Latency)'
        PROVE  v \in Cached'
    <3>1. u = t
      BY <1>0, <1>4, <2>2, <2>6 DEF Store, HoldsMutex
    <3>2. v.id \in Id /\ born[v.id] \in Int /\ born[v.id] < now - Latency
      BY <1>0, <2>2, <2>6, <3>1 DEF Settled, Server
    <3>3. born[v.id] < resp[t].snap
      BY <1>0, <2>3, <3>2
    <3> QED
      BY <2>2, <2>4, <2>6, <3>3 DEF Settled
  <2> QED
    BY <1>2, <2>5, <2>6 DEF CompleteInv
<1> QED
  BY <1>3, <1>4

LEMMA CompleteStep ==
    ASSUME "one" \notin Modes, VisibleInv, CompleteInv, [Next]_vars,
           NEW t \in Thread, Returned(t), call[t].op = "All", NEW v \in Live(world),
           born[v.id] < now - call[t].maxAge - Slack(call[t])
    PROVE  v \in res'.vals
<1>0. /\ pc \in [Thread -> {"idle", "lock", "fetch", "direct", "store", "reply", "relookup"}]
      /\ call[t] \in Call /\ call[t].maxAge \in Nat /\ mark[t] \in Nat
      /\ now \in Nat /\ Latency \in Nat /\ StepTime \in Nat
      /\ v \in Server /\ born[v.id] \in Int
  BY CallType, CacheAssumption
     DEF CacheAssumption, VisibleInv, StaleInv, TypeOK, AskedInv, Returned, Live, Server
<1>1. LockHit(t) \/ Reply(t) \/ Relookup(t)
  BY <1>0 DEF Returned, Next, Step, Tick, ApiChange, Start, LockHit, LockMiss, Serve,
              FetchFails, Reply, Store, Relookup, Return, Error, vars
<1>2. CASE LockHit(t)
  <2>1. res'.vals = Cached /\ AllFresh(call[t].maxAge)
    BY <1>2 DEF LockHit, Return, Values, Found, Hit
  <2>2. PICK i \in DOMAIN byID : now - byID[i].at <= call[t].maxAge
    BY <2>1 DEF AllFresh, Fresh
  <2>3. /\ byID[i].at \in Nat /\ byID[i].snap \in Nat /\ byID[i].at <= byID[i].snap + Latency
    BY DEF VisibleInv, StaleInv, TypeOK, EntryMap, Entry, HistInv, EntryInv, EntryTrue
  <2>4. born[v.id] < byID[i].snap
    BY <1>0, <2>2, <2>3 DEF Slack
  <2> QED
    BY <1>0, <2>1, <2>4 DEF CompleteInv, Settled
<1>3. CASE Reply(t)
  BY <1>3 DEF Reply, VisibleInv, PathInv, Bypass
<1>4. CASE Relookup(t)
  <2>1. res'.vals = Cached /\ pc[t] = "relookup"
    BY <1>4 DEF Relookup, Return, Values, Found
  <2>2. now <= mark[t] + StepTime
    BY <2>1 DEF VisibleInv, StaleInv, HistInv, ClockInv
  <2>3. born[v.id] < mark[t] - Latency
    BY <1>0, <2>2 DEF Slack
  <2> QED
    BY <1>0, <2>1, <2>3 DEF CompleteInv, Settled
<1> QED
  BY <1>1, <1>2, <1>3, <1>4

\* If the cache never runs in mode one, All returns every object that has
\* existed unchanged for longer than the max age and an API call, whether it
\* serves the listing it holds or fetches a new one.
THEOREM AllCompleteCorrect ==
    ASSUME "one" \notin Modes
    PROVE  Spec => AllIsComplete
<1>1. Init => VisibleInv /\ CompleteInv
  <2>1. Init => CompleteInv
    BY DEF Init, CompleteInv
  <2> QED
    BY <2>1, VisibleInit
<1>2. VisibleInv /\ CompleteInv /\ [Next]_vars => (VisibleInv /\ CompleteInv)'
  BY VisibleNext, CompleteNext
<1>3. VisibleInv /\ CompleteInv /\ [Next]_vars =>
        [\A t \in Thread : Returned(t) /\ call[t].op = "All" =>
            \A v \in Live(world) : born[v.id] < now - call[t].maxAge - Slack(call[t])
                                        => v \in res'.vals]_vars
  BY CompleteStep
<1> QED
  BY <1>1, <1>2, <1>3, PTL DEF Spec, AllIsComplete
=============================================================================
