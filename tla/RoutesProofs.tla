---------------------------- MODULE RoutesProofs ----------------------------
(***************************************************************************)
(* Theorems about Routes: the types, with one route per destination at the *)
(* API, and that routes which are right are left alone.                    *)
(***************************************************************************)
EXTENDS Routes, SequenceTheorems, TLAPS

-----------------------------------------------------------------------------
(* The inductive invariant of the types *)

EnvInv ==
    /\ server \in [Server -> IP \cup {NoIP, Unborn, Gone}] /\ steady \in [Server -> BOOLEAN]
    /\ node \in [Server -> Node \cup {Absent}] /\ OwnCIDRs(node)
    /\ changes \in 0..MaxChanges

\* The API has one route per destination.  Nobody but a call of CreateRoute
\* replaces network, or changes the routes, after they were listed.
ApiInv ==
    /\ routes \in Seq(AnyRoute) /\ OnePerDest(routes) /\ network \in Seq(AnyRoute)
    /\ phase = "list" => network = routes

GoodEntries(f) == DOMAIN f \subseteq Server /\ \A s \in DOMAIN f : f[s] \in [val: IP \cup {NoIP}, age: 0..3]

CacheInv == mode \in Modes /\ GoodEntries(cached)

Resolved == {"reload", "assign", "find", "compare", "replace", "add"}

AnyCall ==
    [op: {"delete", "create"}, node: Server \cup {Absent}, addr: IP \cup {NoIP},
     stage: {"delete", "create"} \cup Resolved, gw: IP \cup {NoIP}, idx: Nat, resp: Seq(AnyRoute),
     old: AnyRoute \cup {Idle}]

\* A call belongs to the phase; one that creates has a node, and an address
\* once it is resolved.
GoodCall(j, ph) ==
    /\ j \in AnyCall /\ j.op = ph
    /\ j.op = "delete" => j.stage = "delete"
    /\ j.op = "create" => j.stage # "delete" /\ j.node \in Server
    /\ j.stage \in Resolved => j.gw \in IP

CallsInv == DOMAIN call = CIDR /\ \A c \in CIDR : call[c] # Idle => GoodCall(call[c], phase)

ControllerInv ==
    phase \in {"idle", "list", "delete", "create"} /\ missing \subseteq Server /\ fails \in 0..MaxFails

TypeInv == EnvInv /\ ApiInv /\ CacheInv /\ CallsInv /\ ControllerInv

-----------------------------------------------------------------------------
(* Routes as sequences *)

\* A route that is dropped is gone, and only that one.
LEMMA WithoutIs ==
    ASSUME routes \in Seq(AnyRoute), OnePerDest(routes), NEW r
    PROVE  /\ Without(r) \in Seq(AnyRoute) /\ OnePerDest(Without(r))
           /\ Range(Without(r)) = Range(routes) \ {r}
<1>1. CASE r \notin Range(routes)
  BY <1>1 DEF Without
<1>2. CASE r \in Range(routes)
  <2> DEFINE k == CHOOSE i \in DOMAIN routes : routes[i] = r
             L == Len(routes)
             f == [i \in 1..(L - 1) |-> routes[IF i < k THEN i ELSE i + 1]]
  <2>1. Without(r) = f
    BY <1>2 DEF Without
  <2>2. L \in Nat /\ DOMAIN routes = 1..L /\ \A i \in 1..L : routes[i] \in AnyRoute
    OBVIOUS
  <2>3. k \in 1..L /\ routes[k] = r
    BY <1>2, <2>2 DEF Range
  <2> HIDE DEF k, L
  <2>4. L - 1 \in Nat /\ \A i \in 1..(L - 1) : (IF i < k THEN i ELSE i + 1) \in 1..L
    BY <2>2, <2>3
  <2>5. DOMAIN f = 1..(L - 1) /\ \A i \in 1..(L - 1) : f[i] = routes[IF i < k THEN i ELSE i + 1]
    OBVIOUS
  <2>6. f \in Seq(AnyRoute)
    <3>1. f \in [1..(L - 1) -> AnyRoute]
      BY <2>2, <2>4
    <3>q. QED
      BY <2>4, <3>1, SeqDef
  <2> HIDE DEF f
  <2>7. OnePerDest(f)
    <3> SUFFICES ASSUME NEW i \in 1..(L - 1), NEW m \in 1..(L - 1), f[i].dest = f[m].dest PROVE i = m
      BY <2>5 DEF OnePerDest
    <3>1. (IF i < k THEN i ELSE i + 1) = (IF m < k THEN m ELSE m + 1)
      <4> DEFINE x == IF i < k THEN i ELSE i + 1
                 y == IF m < k THEN m ELSE m + 1
      <4>1. x \in DOMAIN routes /\ y \in DOMAIN routes /\ routes[x].dest = routes[y].dest
        BY <2>2, <2>4, <2>5
      <4> HIDE DEF x, y
      <4>2. x = y
        BY <4>1 DEF OnePerDest
      <4>q. QED
        BY <4>2 DEF x, y
    <3>q. QED
      BY <2>2, <2>3, <3>1
  <2>8. \A x : x \in Range(f) => x \in Range(routes) \ {r}
    <3> SUFFICES ASSUME NEW i \in 1..(L - 1) PROVE f[i] \in Range(routes) \ {r}
      BY <2>5 DEF Range
    <3>1. f[i] \in Range(routes)
      BY <2>2, <2>4, <2>5 DEF Range
    <3>2. (IF i < k THEN i ELSE i + 1) # k
      BY <2>2, <2>3
    <3>3. routes[IF i < k THEN i ELSE i + 1] # routes[k]
      BY <2>2, <2>3, <2>4, <3>2 DEF OnePerDest
    <3>q. QED
      BY <2>3, <2>5, <3>1, <3>3
  <2>9. \A x : x \in Range(routes) \ {r} => x \in Range(f)
    <3> SUFFICES ASSUME NEW m \in 1..L, m # k PROVE routes[m] \in Range(f)
      BY <2>2, <2>3 DEF Range
    <3>1. CASE m < k
      BY <2>2, <2>3, <2>5, <3>1 DEF Range
    <3>2. CASE m > k
      <4>1. m - 1 \in 1..(L - 1) /\ ~(m - 1 < k) /\ m - 1 + 1 = m
        BY <2>2, <2>3, <3>2
      <4>2. f[m - 1] = routes[m]
        BY <2>5, <4>1
      <4>q. QED
        BY <2>5, <4>1, <4>2 DEF Range
    <3>q. QED
      BY <2>2, <2>3, <3>1, <3>2
  <2>q. QED
    BY <2>1, <2>6, <2>7, <2>8, <2>9
<1>q. QED
  BY <1>1, <1>2

\* A route to a new destination is added.
LEMMA AppendIs ==
    ASSUME routes \in Seq(AnyRoute), OnePerDest(routes), NEW r \in AnyRoute, r.dest \notin Dests(routes)
    PROVE  /\ Append(routes, r) \in Seq(AnyRoute) /\ OnePerDest(Append(routes, r))
           /\ Range(Append(routes, r)) = Range(routes) \cup {r}
<1> DEFINE a == Append(routes, r)
           L == Len(routes)
<1>1. /\ a \in Seq(AnyRoute) /\ L \in Nat /\ DOMAIN routes = 1..L /\ DOMAIN a = 1..(L + 1)
      /\ \A i \in 1..L : a[i] = routes[i]
      /\ a[L + 1] = r
  OBVIOUS
<1>2. \A i \in 1..L : routes[i].dest # r.dest
  BY <1>1 DEF Dests
<1> HIDE DEF a, L
<1>3. OnePerDest(a)
  <2> SUFFICES ASSUME NEW i \in 1..(L + 1), NEW m \in 1..(L + 1), a[i].dest = a[m].dest PROVE i = m
    BY <1>1 DEF OnePerDest
  <2>1. (i \in 1..L \/ i = L + 1) /\ (m \in 1..L \/ m = L + 1)
    BY <1>1
  <2>q. QED
    BY <1>1, <1>2, <2>1 DEF OnePerDest
<1>4. \A x : x \in Range(a) => x \in Range(routes) \cup {r}
  <2> SUFFICES ASSUME NEW i \in 1..(L + 1) PROVE a[i] \in Range(routes) \cup {r}
    BY <1>1 DEF Range
  <2>1. i \in 1..L \/ i = L + 1
    BY <1>1
  <2>q. QED
    BY <1>1, <2>1 DEF Range
<1>5. \A x : x \in Range(routes) \cup {r} => x \in Range(a)
  <2>1. \A i \in 1..L : i \in 1..(L + 1)
    BY <1>1
  <2>2. L + 1 \in 1..(L + 1)
    BY <1>1
  <2>q. QED
    BY <1>1, <2>1, <2>2 DEF Range
<1>q. QED
  BY <1>1, <1>3, <1>4, <1>5 DEF a

-----------------------------------------------------------------------------
(* Types *)

LEMMA EntryType ==
    ASSUME NEW s \in Server, Exists(s)
    PROVE  Entry(s) \in [val: IP \cup {NoIP}, age: 0..3] /\ Entry(s).val = server[s] /\ Entry(s).age = 0
  BY DEF Exists, Entry

LEMMA ListingType == GoodEntries(Listing)
  BY EntryType DEF GoodEntries, Listing

LEMMA RefreshedType ==
    ASSUME GoodEntries(cached), NEW s \in Server, NEW maxAge
    PROVE  GoodEntries(Refreshed(s, maxAge))
<1>1. Exists(s) => GoodEntries(WithEntry(s))
  BY EntryType DEF GoodEntries, WithEntry
<1>q. QED
  BY <1>1, ListingType DEF Refreshed

LEMMA NewCallType ==
    ASSUME NEW op \in {"delete", "create"}, NEW s \in Server \cup {Absent}, NEW a \in IP \cup {NoIP},
           op = "create" => s \in Server
    PROVE  GoodCall(NewCall(op, s, a), op)
<1>1. <<>> \in Seq(AnyRoute)
  OBVIOUS
<1>q. QED
  BY <1>1 DEF GoodCall, AnyCall, NewCall, Resolved

\* A step of one call leaves the others as they are.
LEMMA CallsUpdate ==
    ASSUME CallsInv, NEW c \in CIDR, phase' = phase, DOMAIN call' = CIDR,
           \A d \in CIDR \ {c} : call'[d] = call[d],
           call'[c] # Idle => GoodCall(call'[c], phase)
    PROVE  CallsInv'
  BY DEF CallsInv

LEMMA DoneIs ==
    ASSUME CallsInv, NEW c \in CIDR, Done(c)
    PROVE  /\ DOMAIN call' = CIDR /\ call'[c] = Idle
           /\ \A d \in CIDR \ {c} : call'[d] = call[d]
           /\ phase' = phase => CallsInv'
  BY DEF CallsInv, Done

LEMMA TypeInit == Init => TypeInv
<1> SUFFICES ASSUME Init PROVE TypeInv
  OBVIOUS
<1>1. PICK st \in Starts : server = st.server /\ node = st.node /\ routes = st.routes
  BY DEF Init
<1>2. EnvInv
  BY <1>1, RoutesAssumption DEF Init, EnvInv
<1>3. ApiInv
  BY <1>1, RoutesAssumption DEF Init, ApiInv
<1>4. CacheInv
  BY DEF Init, CacheInv, GoodEntries
<1>5. CallsInv /\ ControllerInv
  BY RoutesAssumption DEF Init, CallsInv, ControllerInv
<1>q. QED
  BY <1>2, <1>3, <1>4, <1>5 DEF TypeInv

\* What the invariant reads besides the environment, if the environment moves.
LEMMA TypeKept ==
    ASSUME TypeInv, EnvInv', CacheInv', UNCHANGED <<routes, network, phase, missing, call, fails>>
    PROVE  TypeInv'
  BY DEF TypeInv, ApiInv, CallsInv, ControllerInv

LEMMA TypeEnvironment == TypeInv /\ Environment => TypeInv'
<1> SUFFICES ASSUME TypeInv, Environment PROVE TypeInv'
  OBVIOUS
<1>1. ASSUME NEW s \in Server, NEW v \in IP \cup {NoIP, Gone}, ServerChanges(s, v) PROVE TypeInv'
  <2>1. EnvInv'
    BY <1>1, RoutesAssumption DEF ServerChanges, Change, TypeInv, EnvInv
  <2>q. QED
    BY <1>1, <2>1, TypeKept DEF ServerChanges, Change, TypeInv, CacheInv
<1>2. ASSUME NEW s \in Server, NEW m \in Node \cup {Absent}, NodeChanges(s, m) PROVE TypeInv'
  <2>1. node' = [node EXCEPT ![s] = m] /\ node \in [Server -> Node \cup {Absent}] /\ OwnCIDRs(node)
    BY <1>2 DEF NodeChanges, TypeInv, EnvInv
  <2>2. OwnCIDRs(node')
    BY <1>2, <2>1 DEF OwnCIDRs, NodeChanges
  <2>3. changes' \in 0..MaxChanges
    BY <1>2, RoutesAssumption DEF NodeChanges, Change, TypeInv, EnvInv
  <2>4. EnvInv'
    BY <1>2, <2>1, <2>2, <2>3 DEF NodeChanges, TypeInv, EnvInv
  <2>q. QED
    BY <1>2, <2>4, TypeKept DEF NodeChanges, Change, TypeInv, CacheInv
<1>q. QED
  BY <1>1, <1>2 DEF Environment

\* The nodes keep their pod CIDRs.
SameNodes ==
    \A x \in Server : /\ node'[x] # Absent <=> node[x] # Absent
                      /\ node[x] # Absent => node'[x].cidr = node[x].cidr

LEMMA TypeNodeSync ==
    ASSUME TypeInv, NEW s \in Server, NodeSync(s)
    PROVE  TypeInv' /\ SameNodes
<1>1. /\ node \in [Server -> Node \cup {Absent}] /\ OwnCIDRs(node) /\ Absent \notin Node
      /\ node[s] # Absent /\ server[s] \in IP \cup {NoIP}
      /\ node' = [node EXCEPT ![s].addr = server[s]]
  BY RoutesAssumption DEF NodeSync, Exists, TypeInv, EnvInv
<1>2. node'[s] \in Node /\ node'[s].cidr = node[s].cidr /\ node'[s] # Absent
  BY <1>1 DEF Node
<1>3. \A x \in Server \ {s} : node'[x] = node[x]
  BY <1>1
<1>4. node' \in [Server -> Node \cup {Absent}]
  BY <1>1, <1>2
<1>5. OwnCIDRs(node')
  BY <1>1, <1>2, <1>3 DEF OwnCIDRs
<1>6. EnvInv'
  BY <1>4, <1>5 DEF NodeSync, TypeInv, EnvInv
<1>7. TypeInv'
  BY <1>6, TypeKept DEF NodeSync, TypeInv, CacheInv
<1>q. QED
  BY <1>1, <1>2, <1>3, <1>7 DEF SameNodes

LEMMA TypeTick == TypeInv /\ Tick => TypeInv'
<1> SUFFICES ASSUME TypeInv, Tick PROVE TypeInv'
  OBVIOUS
<1>1. GoodEntries(cached')
  <2>1. /\ DOMAIN cached' = DOMAIN cached
        /\ \A s \in DOMAIN cached :
            cached'[s] = [cached[s] EXCEPT !.age = IF @ < 3 THEN @ + 1 ELSE @]
    BY DEF Tick
  <2>2. \A s \in DOMAIN cached : cached[s] \in [val: IP \cup {NoIP}, age: 0..3]
    BY DEF TypeInv, CacheInv, GoodEntries
  <2>3. \A s \in DOMAIN cached : cached'[s] \in [val: IP \cup {NoIP}, age: 0..3]
    BY <2>1, <2>2
  <2>q. QED
    BY <2>1, <2>3 DEF TypeInv, CacheInv, GoodEntries
<1>2. EnvInv'
  BY DEF Tick, TypeInv, EnvInv
<1>q. QED
  BY <1>1, <1>2, TypeKept DEF Tick, TypeInv, CacheInv

\* Where no call can be, none is.
LEMMA NoCalls ==
    ASSUME TypeInv, phase \in {"idle", "list"}, NEW c \in CIDR
    PROVE  call[c] = Idle
  BY DEF TypeInv, CallsInv, GoodCall, AnyCall

LEMMA TypeController == TypeInv /\ (ControllerStep \/ ListFails) => TypeInv'
<1> SUFFICES ASSUME TypeInv, ControllerStep \/ ListFails PROVE TypeInv'
  OBVIOUS
<1>1. ASSUME UNCHANGED envVars PROVE EnvInv'
  BY <1>1 DEF envVars, TypeInv, EnvInv
<1>2. CASE BeginList
  <2>1. ApiInv' /\ CacheInv' /\ ControllerInv'
    BY <1>2 DEF BeginList, TypeInv, ApiInv, CacheInv, ControllerInv
  <2>2. CallsInv'
    BY <1>2, NoCalls DEF BeginList, TypeInv, CallsInv
  <2>q. QED
    BY <1>1, <1>2, <2>1, <2>2 DEF BeginList, TypeInv
<1>3. CASE ListRoutes
  <2>1. ApiInv' /\ ControllerInv'
    BY <1>3 DEF ListRoutes, TypeInv, ApiInv, ControllerInv
  <2>2. CacheInv'
    BY <1>3, ListingType DEF ListRoutes, All, TypeInv, CacheInv
  <2>3. CallsInv'
    <3>1. DOMAIN call' = CIDR /\ \A c \in CIDR : call'[c] \in {NewCall("delete", Absent, NoIP), Idle}
      BY <1>3 DEF ListRoutes
    <3>2. GoodCall(NewCall("delete", Absent, NoIP), "delete")
      BY NewCallType
    <3>3. phase' = "delete"
      BY <1>3 DEF ListRoutes
    <3>q. QED
      BY <3>1, <3>2, <3>3 DEF CallsInv
  <2>q. QED
    BY <1>1, <1>3, <2>1, <2>2, <2>3 DEF ListRoutes, TypeInv
<1>4. CASE ListFails
  <2>1. ApiInv' /\ CacheInv'
    BY <1>4 DEF ListFails, TypeInv, ApiInv, CacheInv
  <2>2. ControllerInv'
    BY <1>4, RoutesAssumption DEF ListFails, TypeInv, ControllerInv
  <2>3. CallsInv'
    BY <1>4, NoCalls DEF ListFails, TypeInv, CallsInv
  <2>q. QED
    BY <1>1, <1>4, <2>1, <2>2, <2>3 DEF ListFails, TypeInv
<1>5. CASE EndOfDelete
  <2>1. ApiInv' /\ CacheInv' /\ ControllerInv'
    BY <1>5 DEF EndOfDelete, TypeInv, ApiInv, CacheInv, ControllerInv
  <2>2. CallsInv'
    <3>1. DOMAIN call' = CIDR /\ phase' = "create"
      BY <1>5 DEF EndOfDelete
    <3>2. ASSUME NEW c \in CIDR, call'[c] # Idle PROVE GoodCall(call'[c], "create")
      <4> DEFINE of == {s \in missing : node[s] # Absent /\ node[s].cidr = c}
                 x == CHOOSE x \in of : TRUE
      <4>1. of # {} /\ call'[c] = NewCall("create", x, node[x].addr)
        BY <1>5, <3>2 DEF EndOfDelete
      <4>2. x \in of
        BY <4>1
      <4>3. x \in Server /\ node[x].addr \in IP \cup {NoIP}
        BY <4>2 DEF TypeInv, EnvInv, ControllerInv, Node
      <4> HIDE DEF x
      <4>q. QED
        BY <4>1, <4>3, NewCallType
    <3>q. QED
      BY <3>1, <3>2 DEF CallsInv
  <2>q. QED
    BY <1>1, <1>5, <2>1, <2>2 DEF EndOfDelete, TypeInv
<1>6. CASE EndOfCreate
  <2>1. ApiInv' /\ CacheInv' /\ ControllerInv' /\ CallsInv'
    BY <1>6 DEF EndOfCreate, TypeInv, ApiInv, CacheInv, ControllerInv, CallsInv
  <2>q. QED
    BY <1>1, <1>6, <2>1 DEF EndOfCreate, TypeInv
<1>q. QED
  BY <1>2, <1>3, <1>4, <1>5, <1>6 DEF ControllerStep

\* A call that changes neither environment nor phase, for its part.
LEMMA TypeOfStep ==
    ASSUME TypeInv, UNCHANGED <<envVars, mode, phase, missing>>, phase \in {"delete", "create"},
           routes' \in Seq(AnyRoute), OnePerDest(routes'), network' \in Seq(AnyRoute),
           GoodEntries(cached'), fails' \in 0..MaxFails, CallsInv'
    PROVE  TypeInv'
<1>1. EnvInv'
  BY DEF envVars, TypeInv, EnvInv
<1>2. ApiInv' /\ CacheInv' /\ ControllerInv'
  BY DEF TypeInv, ApiInv, CacheInv, ControllerInv
<1>q. QED
  BY <1>1, <1>2 DEF TypeInv

\* A call is under way only in its phase.
LEMMA InStagePhase ==
    ASSUME TypeInv, NEW c \in CIDR, call[c] # Idle
    PROVE  /\ phase \in {"delete", "create"} /\ GoodCall(call[c], phase)
           /\ call[c].stage = "delete" <=> phase = "delete"
  BY DEF TypeInv, CallsInv, GoodCall, AnyCall

\* The routes that call c may leave behind.
ApiStep(c) ==
    \/ routes' = routes
    \/ \E r : routes' = Without(r)
    \/ InStage(c, "add") /\ c \notin Dests(routes) /\ routes' = Append(routes, Route(c, call[c].gw))

LEMMA ApiStepType ==
    ASSUME TypeInv, NEW c \in CIDR, ApiStep(c)
    PROVE  routes' \in Seq(AnyRoute) /\ OnePerDest(routes')
<1>1. routes \in Seq(AnyRoute) /\ OnePerDest(routes)
  BY DEF TypeInv, ApiInv
<1>2. CASE InStage(c, "add") /\ c \notin Dests(routes) /\ routes' = Append(routes, Route(c, call[c].gw))
  <2>1. call[c].gw \in IP
    BY <1>2, InStagePhase DEF InStage, GoodCall, Resolved
  <2>2. Route(c, call[c].gw) \in AnyRoute /\ Route(c, call[c].gw).dest = c
    BY <2>1 DEF Route, AnyRoute
  <2>q. QED
    BY <1>1, <1>2, <2>2, AppendIs
<1>q. QED
  BY <1>1, <1>2, WithoutIs DEF ApiStep

\* The call that a step of call c leaves.
CallStays(c) ==
    /\ DOMAIN call' = CIDR /\ \A d \in CIDR \ {c} : call'[d] = call[d]
    /\ call'[c] # Idle => GoodCall(call'[c], phase)

LEMMA LookedUpType ==
    ASSUME TypeInv, NEW c \in CIDR, InStage(c, "create")
    PROVE  call[c].node \in Server
  BY InStagePhase DEF InStage, GoodCall, AnyCall

\* The steps that move call c to its next stage.
LEMMA StagesType ==
    ASSUME TypeInv, NEW c \in CIDR,
           Resolve(c) \/ Reload(c) \/ Assign(c) \/ Find(c) \/ Compare(c) \/ Replace(c) \/ Conflict(c)
    PROVE  CallStays(c)
<1>0. DOMAIN call = CIDR /\ network \in Seq(AnyRoute) /\ routes \in Seq(AnyRoute)
  BY DEF TypeInv, CallsInv, ApiInv
<1>1. call[c] # Idle
  BY DEF Resolve, Reload, Assign, Find, Compare, Replace, Conflict, InStage
<1>2. GoodCall(call[c], phase) /\ call[c] \in AnyCall
  BY <1>1, InStagePhase DEF GoodCall
<1>3. CASE Resolve(c)
  <2>1. call' = [call EXCEPT ![c].stage = "reload", ![c].gw = Target(c)] /\ Target(c) \in IP
        /\ call[c].stage = "create"
    BY <1>3 DEF Resolve, InStage
  <2>2. GoodCall([call[c] EXCEPT !.stage = "reload", !.gw = Target(c)], phase)
    BY <1>2, <2>1 DEF GoodCall, AnyCall, Resolved
  <2>q. QED
    BY <1>0, <2>1, <2>2 DEF CallStays
<1>4. CASE Reload(c)
  <2>1. call' = [call EXCEPT ![c].stage = "assign", ![c].resp = routes] /\ call[c].stage = "reload"
    BY <1>4 DEF Reload, InStage
  <2>2. GoodCall([call[c] EXCEPT !.stage = "assign", !.resp = routes], phase)
    BY <1>0, <1>2, <2>1 DEF GoodCall, AnyCall, Resolved
  <2>q. QED
    BY <1>0, <2>1, <2>2 DEF CallStays
<1>5. CASE Assign(c)
  <2>1. call' = [call EXCEPT ![c].stage = "find", ![c].resp = <<>>] /\ call[c].stage = "assign"
    BY <1>5 DEF Assign, InStage
  <2>2. <<>> \in Seq(AnyRoute)
    OBVIOUS
  <2>3. GoodCall([call[c] EXCEPT !.stage = "find", !.resp = <<>>], phase)
    BY <1>2, <2>1, <2>2 DEF GoodCall, AnyCall, Resolved
  <2>q. QED
    BY <1>0, <2>1, <2>3 DEF CallStays
<1>6. CASE Find(c)
  <2>1. call[c].stage = "find"
    BY <1>6 DEF Find, InStage
  <2>2. CASE call' = [call EXCEPT ![c].stage = "add"]
    <3>1. GoodCall([call[c] EXCEPT !.stage = "add"], phase)
      BY <1>2, <2>1 DEF GoodCall, AnyCall, Resolved
    <3>q. QED
      BY <1>0, <2>2, <3>1 DEF CallStays
  <2>3. ASSUME NEW k \in DOMAIN network, call' = [call EXCEPT ![c].stage = "compare", ![c].idx = k]
        PROVE  CallStays(c)
    <3>1. k \in Nat
      BY <1>0, <2>3
    <3>2. GoodCall([call[c] EXCEPT !.stage = "compare", !.idx = k], phase)
      BY <1>2, <2>1, <3>1 DEF GoodCall, AnyCall, Resolved
    <3>q. QED
      BY <1>0, <2>3, <3>2 DEF CallStays
  <2>q. QED
    BY <1>6, <2>2, <2>3 DEF Find
<1>7. CASE Compare(c)
  <2> DEFINE r == network[call[c].idx]
  <2>1. call[c].stage = "compare" /\ r \in AnyRoute
    BY <1>0, <1>7 DEF Compare, InStage
  <2>2. CASE Done(c)
    BY <2>2, DoneIs DEF CallStays, TypeInv
  <2>3. CASE call' = [call EXCEPT ![c].stage = "replace", ![c].old = r]
    <3>1. GoodCall([call[c] EXCEPT !.stage = "replace", !.old = r], phase)
      BY <1>2, <2>1 DEF GoodCall, AnyCall, Resolved
    <3>q. QED
      BY <1>0, <2>3, <3>1 DEF CallStays
  <2>q. QED
    BY <1>7, <2>2, <2>3 DEF Compare
<1>8. CASE Replace(c)
  <2>1. call' = [call EXCEPT ![c].stage = "add"] /\ call[c].stage = "replace"
    BY <1>8 DEF Replace, InStage
  <2>2. GoodCall([call[c] EXCEPT !.stage = "add"], phase)
    BY <1>2, <2>1 DEF GoodCall, AnyCall, Resolved
  <2>q. QED
    BY <1>0, <2>1, <2>2 DEF CallStays
<1>9. CASE Conflict(c)
  <2>1. call' = [call EXCEPT ![c] = NewCall("create", call[c].node, call[c].addr)] /\ call[c].stage = "add"
    BY <1>9 DEF Conflict, InStage
  <2>2. phase = "create" /\ call[c].node \in Server /\ call[c].addr \in IP \cup {NoIP}
    BY <1>1, <1>2, <2>1, InStagePhase DEF GoodCall, AnyCall
  <2>3. GoodCall(NewCall("create", call[c].node, call[c].addr), phase)
    BY <2>2, NewCallType
  <2>q. QED
    BY <1>0, <2>1, <2>3 DEF CallStays
<1>q. QED
  BY <1>3, <1>4, <1>5, <1>6, <1>7, <1>8, <1>9

\* The steps that end call c.
LEMMA EndsType ==
    ASSUME TypeInv, NEW c \in CIDR, DeleteRoute(c) \/ Unresolved(c) \/ Add(c) \/ CallRejected(c) \/ CallFails(c)
    PROVE  CallStays(c) /\ call'[c] = Idle /\ call[c] # Idle
<1>1. Done(c) /\ call[c] # Idle
  BY DEF DeleteRoute, Unresolved, Add, CallRejected, CallFails, InStage
<1>q. QED
  BY <1>1, DoneIs DEF CallStays, TypeInv

\* Whatever call c does, unless the process panics.
Calls(c) ==
    \/ DeleteRoute(c) \/ Resolve(c) \/ Unresolved(c) \/ Reload(c) \/ Assign(c) \/ Find(c)
    \/ Compare(c) \/ Replace(c) \/ Add(c) \/ CallRejected(c) \/ Conflict(c) \/ CallFails(c)

LEMMA CallsFrame ==
    ASSUME NEW c \in CIDR, Calls(c)
    PROVE  /\ UNCHANGED <<envVars, mode, phase, missing, right>>
           /\ call[c] # Idle /\ ApiStep(c)
           /\ calm' = calm \/ calm' = FALSE
<1> USE DEF InStage, ApiStep
<1>1. CASE DeleteRoute(c)
  BY <1>1 DEF DeleteRoute
<1>2. CASE Resolve(c) \/ Unresolved(c)
  BY <1>2 DEF Resolve, Unresolved
<1>3. CASE Reload(c) \/ Assign(c) \/ Find(c) \/ Compare(c)
  BY <1>3 DEF Reload, Assign, Find, Compare
<1>4. CASE Replace(c)
  BY <1>4 DEF Replace
<1>5. CASE Add(c) \/ CallRejected(c) \/ Conflict(c)
  BY <1>5 DEF Add, CallRejected, Conflict
<1>6. CASE CallFails(c)
  BY <1>6 DEF CallFails
<1>q. QED
  BY <1>1, <1>2, <1>3, <1>4, <1>5, <1>6 DEF Calls

LEMMA TypeCalls ==
    ASSUME TypeInv, NEW c \in CIDR, Calls(c)
    PROVE  TypeInv'
<1>1. CallStays(c)
  BY StagesType, EndsType DEF Calls
<1>2. /\ UNCHANGED <<envVars, mode, phase, missing>> /\ phase \in {"delete", "create"}
      /\ routes' \in Seq(AnyRoute) /\ OnePerDest(routes')
  BY CallsFrame, ApiStepType, InStagePhase
<1>3. CallsInv'
  BY <1>1, <1>2, CallsUpdate DEF CallStays, TypeInv
<1>4. network' \in Seq(AnyRoute)
  <2>1. CASE Assign(c)
    BY <2>1, InStagePhase DEF Assign, InStage, GoodCall, AnyCall
  <2>2. CASE network' = network
    BY <2>2 DEF TypeInv, ApiInv
  <2>q. QED
    BY <2>1, <2>2 DEF Calls, DeleteRoute, Resolve, Unresolved, Reload, Find, Compare, Replace, Add,
                      CallRejected, Conflict, CallFails
<1>5. GoodEntries(cached')
  <2>1. CASE cached' = cached
    BY <2>1 DEF TypeInv, CacheInv
  <2>2. CASE InStage(c, "create") /\ cached' = Refreshed(call[c].node, RouteMaxAge)
    BY <2>2, LookedUpType, RefreshedType DEF TypeInv, CacheInv
  <2>q. QED
    BY <2>1, <2>2 DEF Calls, DeleteRoute, Resolve, Unresolved, Reload, Assign, Find, Compare, Replace,
                      Add, CallRejected, Conflict, CallFails
<1>6. fails' \in 0..MaxFails
  <2>1. CASE fails' = fails
    BY <2>1 DEF TypeInv, ControllerInv
  <2>2. CASE fails < MaxFails /\ fails' = fails + 1
    BY <2>2, RoutesAssumption DEF TypeInv, ControllerInv
  <2>q. QED
    BY <2>1, <2>2 DEF Calls, DeleteRoute, Resolve, Unresolved, Reload, Assign, Find, Compare, Replace,
                      Add, CallRejected, Conflict, CallFails
<1>q. QED
  BY <1>2, <1>3, <1>4, <1>5, <1>6, TypeOfStep

LEMMA TypePanic ==
    ASSUME TypeInv, NEW c \in CIDR, Panic(c)
    PROVE  TypeInv'
<1>1. EnvInv'
  BY DEF Panic, envVars, TypeInv, EnvInv
<1>2. ApiInv' /\ CacheInv' /\ ControllerInv' /\ CallsInv'
  BY DEF Panic, TypeInv, ApiInv, CacheInv, GoodEntries, ControllerInv, CallsInv
<1>q. QED
  BY <1>1, <1>2 DEF TypeInv

LEMMA TypeLookup ==
    ASSUME TypeInv, NEW s \in Server, InstanceLookup(s)
    PROVE  TypeInv'
<1>1. CacheInv'
  BY RefreshedType DEF InstanceLookup, TypeInv, CacheInv
<1>2. EnvInv'
  BY DEF InstanceLookup, envVars, TypeInv, EnvInv
<1>q. QED
  BY <1>1, <1>2, TypeKept DEF InstanceLookup

\* The steps there are.
LEMMA NextIs ==
    ASSUME [Next]_vars
    PROVE  \/ Environment \/ Tick \/ ControllerStep \/ ListFails
           \/ (\E s \in Server : NodeSync(s)) \/ (\E s \in Server : InstanceLookup(s))
           \/ (\E c \in CIDR : Calls(c)) \/ (\E c \in CIDR : Panic(c))
           \/ UNCHANGED vars
  BY DEF Next, CallStep, Calls

LEMMA TypeNext == TypeInv /\ [Next]_vars => TypeInv'
<1> SUFFICES ASSUME TypeInv, [Next]_vars PROVE TypeInv'
  OBVIOUS
<1>1. CASE UNCHANGED vars
  BY <1>1 DEF vars, TypeInv, EnvInv, ApiInv, CacheInv, CallsInv, ControllerInv
<1>q. QED
  BY <1>1, NextIs, TypeEnvironment, TypeTick, TypeController, TypeNodeSync, TypeLookup, TypeCalls, TypePanic

\* Whatever calls of CreateRoute overwrite each other's network, work with a
\* wrong index, fail or panic: the API holds one route per destination, its
\* gateways are addresses, and the cache has only servers that exist.
THEOREM TypeCorrect == Spec => []TypeOK
<1>1. TypeInv => TypeOK
  BY DEF TypeInv, TypeOK, EnvInv, ApiInv, CacheInv, GoodEntries, CallsInv, GoodCall, ControllerInv
<1>q. QED
  BY <1>1, TypeInit, TypeNext, PTL DEF Spec

-----------------------------------------------------------------------------
(* Right routes: the servers as ListRoutes sees them *)

\* A fresh cache knows every server that has not changed lately.
SnapInv ==
    AllHit => \A s \in Server :
        steady[s] = TRUE /\ Exists(s) => s \in DOMAIN cached /\ cached[s].val = server[s]

LEMMA ListingKnows ==
    ASSUME NEW s \in Server, Exists(s)
    PROVE  s \in DOMAIN Listing /\ Listing[s].val = server[s]
  BY DEF Listing, Entry

\* Without mode one, a lookup leaves the entries or lists all servers.
LEMMA RefreshedIs ==
    ASSUME "one" \notin Modes, TypeInv, NEW s, NEW maxAge
    PROVE  Refreshed(s, maxAge) \in {cached, Listing}
  BY RoutesAssumption DEF TypeInv, CacheInv, Refreshed

\* What happens to the cache, but for time.
LEMMA CacheSteps ==
    ASSUME "one" \notin Modes, TypeInv, [Next]_vars
    PROVE  \/ Environment \/ Tick
           \/ /\ UNCHANGED <<server, steady>>
              /\ cached' \in {cached, Listing} \/ DOMAIN cached' = {}
<1>1. CASE ControllerStep \/ ListFails
  <2>1. cached' \in {cached, Listing}
    BY <1>1 DEF ControllerStep, BeginList, ListRoutes, EndOfDelete, EndOfCreate, ListFails, All
  <2>q. QED
    BY <1>1, <2>1 DEF ControllerStep, BeginList, ListRoutes, EndOfDelete, EndOfCreate, ListFails, envVars
<1>2. ASSUME NEW s \in Server, NodeSync(s) \/ InstanceLookup(s)
      PROVE  UNCHANGED <<server, steady>> /\ cached' \in {cached, Listing}
  BY <1>2, RefreshedIs DEF NodeSync, InstanceLookup, envVars
<1>3. ASSUME NEW c \in CIDR, Calls(c)
      PROVE  UNCHANGED <<server, steady>> /\ cached' \in {cached, Listing}
  <2>1. cached' = cached \/ cached' = Refreshed(call[c].node, RouteMaxAge)
    BY <1>3 DEF Calls, DeleteRoute, Resolve, Unresolved, Reload, Assign, Find, Compare, Replace,
                Add, CallRejected, Conflict, CallFails
  <2>q. QED
    BY <1>3, <2>1, CallsFrame, RefreshedIs DEF envVars
<1>4. ASSUME NEW c \in CIDR, Panic(c)
      PROVE  UNCHANGED <<server, steady>> /\ DOMAIN cached' = {}
  BY <1>4 DEF Panic, envVars
<1>5. CASE UNCHANGED vars
  BY <1>5 DEF vars
<1>q. QED
  BY <1>1, <1>2, <1>3, <1>4, <1>5, NextIs

LEMMA SnapNext ==
    ASSUME "one" \notin Modes
    PROVE  TypeInv /\ SnapInv /\ [Next]_vars => SnapInv'
<1> SUFFICES ASSUME TypeInv, SnapInv, [Next]_vars, AllHit',
                    NEW s \in Server, (steady[s] = TRUE)', Exists(s)'
             PROVE  s \in DOMAIN cached' /\ cached'[s].val = server'[s]
  BY DEF SnapInv
<1>1. CASE Environment
  <2>1. cached' = cached /\ AllHit
    BY <1>1 DEF Environment, ServerChanges, NodeChanges, Change, AllHit
  <2>2. ASSUME NEW x \in Server, NEW v \in IP \cup {NoIP, Gone}, ServerChanges(x, v)
        PROVE  steady[s] = TRUE /\ server'[s] = server[s]
    BY <2>2 DEF ServerChanges, TypeInv, EnvInv
  <2>3. ASSUME NEW x \in Server, NEW m \in Node \cup {Absent}, NodeChanges(x, m)
        PROVE  steady[s] = TRUE /\ server'[s] = server[s]
    BY <2>3 DEF NodeChanges
  <2>4. steady[s] = TRUE /\ server'[s] = server[s]
    BY <1>1, <2>2, <2>3 DEF Environment
  <2>q. QED
    BY <2>1, <2>4 DEF SnapInv, Exists
<1>2. CASE Tick
  <2>1. PICK x \in DOMAIN cached' : cached'[x].age <= 0
    BY DEF AllHit, DefaultMaxAge
  <2>2. x \in DOMAIN cached /\ cached'[x] = [cached[x] EXCEPT !.age = IF @ < 3 THEN @ + 1 ELSE @]
    BY <1>2, <2>1 DEF Tick
  <2>3. cached[x] \in [val: IP \cup {NoIP}, age: 0..3]
    BY <2>2 DEF TypeInv, CacheInv, GoodEntries
  <2>q. QED
    BY <2>1, <2>2, <2>3
<1>3. CASE UNCHANGED <<server, steady>> /\ (cached' \in {cached, Listing} \/ DOMAIN cached' = {})
  <2>1. Exists(s) /\ steady[s] = TRUE
    BY <1>3 DEF Exists
  <2>2. CASE cached' = cached
    <3>1. AllHit
      BY <2>2 DEF AllHit
    <3>q. QED
      BY <1>3, <2>1, <2>2, <3>1 DEF SnapInv
  <2>3. CASE cached' = Listing
    BY <1>3, <2>1, <2>3, ListingKnows
  <2>q. QED
    BY <1>3, <2>2, <2>3 DEF AllHit
<1>q. QED
  BY <1>1, <1>2, <1>3, CacheSteps

-----------------------------------------------------------------------------
(* Right routes: while nothing changes and nothing fails *)

\* Between the listings of two periods.
LEMMA CalmFrame ==
    ASSUME TypeInv, [Next]_vars, calm', ~BeginList
    PROVE  /\ calm /\ server' = server /\ SameNodes
           /\ \A s \in Server : steady[s] = TRUE => steady'[s] = TRUE
           /\ right' \in {right, {}}
<1>1. ~Environment
  BY DEF Environment, ServerChanges, NodeChanges, Change
<1>2. CASE Tick
  BY <1>2 DEF Tick, SameNodes
<1>3. CASE ListRoutes \/ EndOfDelete \/ EndOfCreate \/ ListFails
  BY <1>3 DEF ListRoutes, EndOfDelete, EndOfCreate, ListFails, envVars, SameNodes
<1>4. ASSUME NEW s \in Server, NodeSync(s)
      PROVE  calm /\ UNCHANGED <<server, steady, right>> /\ SameNodes
  <2>1. SameNodes
    BY <1>4, TypeNodeSync
  <2>q. QED
    BY <1>4, <2>1 DEF NodeSync
<1>5. ASSUME NEW s \in Server, InstanceLookup(s)
      PROVE  calm /\ UNCHANGED <<server, steady, right>> /\ SameNodes
  BY <1>5 DEF InstanceLookup, envVars, SameNodes
<1>6. ASSUME NEW c \in CIDR, Calls(c)
      PROVE  calm /\ UNCHANGED <<server, steady, right>> /\ SameNodes
  BY <1>6, CallsFrame DEF envVars, SameNodes
<1>7. ASSUME NEW c \in CIDR, Panic(c)
      PROVE  calm /\ UNCHANGED <<server, steady>> /\ right' = {} /\ SameNodes
  BY <1>7 DEF Panic, envVars, SameNodes
<1>8. CASE UNCHANGED vars
  BY <1>8 DEF vars, SameNodes
<1>q. QED
  BY <1>1, <1>2, <1>3, <1>4, <1>5, <1>6, <1>7, <1>8, NextIs DEF ControllerStep

\* The routes that were right still are.
RightInv ==
    calm => \A r \in right : \E s \in Server :
        /\ node[s] # Absent /\ server[s] \in IP /\ steady[s] = TRUE
        /\ r = Route(node[s].cidr, server[s])

LEMMA RightNext == TypeInv /\ RightInv /\ [Next]_vars => RightInv'
<1> SUFFICES ASSUME TypeInv, RightInv, [Next]_vars, calm', NEW r \in right'
             PROVE  \E s \in Server : /\ node'[s] # Absent /\ server'[s] \in IP /\ steady'[s] = TRUE
                                      /\ r = Route(node'[s].cidr, server'[s])
  BY DEF RightInv
<1>1. CASE BeginList
  <2>1. r \in Wanted /\ (\A s \in Server : server[s] = r.gw => steady[s]) /\ UNCHANGED <<server, steady, node>>
    BY <1>1 DEF BeginList, envVars
  <2>2. PICK s \in Server : node[s] # Absent /\ server[s] \in IP /\ r = Route(node[s].cidr, server[s])
    BY <2>1 DEF Wanted
  <2>3. steady[s] = TRUE
    BY <2>1, <2>2 DEF Route, TypeInv, EnvInv
  <2>q. QED
    BY <2>1, <2>2, <2>3
<1>2. CASE ~BeginList
  <2>1. /\ calm /\ server' = server /\ SameNodes /\ r \in right
        /\ \A s \in Server : steady[s] = TRUE => steady'[s] = TRUE
    BY <1>2, CalmFrame
  <2>2. PICK s \in Server : /\ node[s] # Absent /\ server[s] \in IP /\ steady[s] = TRUE
                            /\ r = Route(node[s].cidr, server[s])
    BY <2>1 DEF RightInv
  <2>q. QED
    BY <2>1, <2>2 DEF SameNodes
<1>q. QED
  BY <1>1, <1>2

-----------------------------------------------------------------------------
(* Right routes: what is deleted *)

LEMMA DestsRange ==
    ASSUME NEW rs, NEW c
    PROVE  c \in Dests(rs) <=> \E r \in Range(rs) : r.dest = c
  BY DEF Dests, Range

LEMMA OneRoute ==
    ASSUME NEW rs, OnePerDest(rs), NEW x \in Range(rs), NEW y \in Range(rs), x.dest = y.dest
    PROVE  x = y
  BY DEF OnePerDest, Range

\* The route that a call of DeleteRoute deletes is the one in network.
LEMMA ObsoleteIs ==
    ASSUME network \in Seq(AnyRoute), OnePerDest(network), NEW k \in DOMAIN network
    PROVE  Obsolete(network[k].dest) = network[k]
<1> DEFINE c == network[k].dest
           m == CHOOSE i \in DOMAIN network : network[i].dest = c
<1>1. m \in DOMAIN network /\ network[m].dest = c
  OBVIOUS
<1>2. m = k
  BY <1>1 DEF OnePerDest
<1>3. Obsolete(c) = Route(c, network[k].gw)
  BY <1>2 DEF Obsolete, Gateway
<1>4. network[k] \in AnyRoute
  OBVIOUS
<1>q. QED
  BY <1>3, <1>4 DEF Route, AnyRoute

\* A route is going to be created for this destination.
Miss(c) == \E s \in missing : node[s] # Absent /\ node[s].cidr = c

\* A route that is being deleted is there and is not right, and one that is in
\* the way of a missing one is being deleted.
DeleteInv ==
    calm /\ phase = "delete" => \A c \in CIDR :
        /\ InStage(c, "delete") => Obsolete(c) \in Range(routes) /\ Obsolete(c) \notin right
        /\ Miss(c) /\ c \in Dests(routes) => call[c] # Idle

\* While routes are created, none of the destinations is taken, nor was it in
\* any network a call has read: nothing is compared, nothing replaced.
CreateInv ==
    calm /\ phase = "create" => \A c \in CIDR : call[c] # Idle =>
        /\ c \notin Dests(routes) /\ call[c].stage \notin {"compare", "replace"}
        /\ \A d \in CIDR : /\ InStage(d, "assign") => c \notin Dests(call[d].resp)
                           /\ InStage(d, "find") => c \notin Dests(network)

\* Of the routes that were right none is deleted.
LEMMA DeleteListed ==
    ASSUME Renamed = {}, TypeInv, SnapInv, RightInv, ListRoutes, calm
    PROVE  DeleteInv'
<1> DEFINE keep == {k \in DOMAIN network : Kept(All, network[k])}
           new == NewCall("delete", Absent, NoIP)
<1>1. /\ phase = "list" /\ phase' = "delete"
      /\ UNCHANGED <<server, steady, node, routes, network, right>>
      /\ \A c \in CIDR : call'[c] = IF \E k \in DOMAIN network \ keep : network[k].dest = c
                                      THEN new ELSE Idle
      /\ missing' = {s \in Server : /\ node[s] # Absent
                                    /\ ~ \E k \in keep : /\ s \in TargetNode(All, network[k])
                                                         /\ network[k].dest = node[s].cidr}
  BY DEF ListRoutes, envVars
<1>2. /\ network = routes /\ network \in Seq(AnyRoute) /\ OnePerDest(network)
      /\ OwnCIDRs(node) /\ new # Idle
  BY <1>1, RoutesAssumption DEF TypeInv, ApiInv, EnvInv
<1> HIDE DEF new
<1>3. ASSUME NEW s \in Server, steady[s] = TRUE, Exists(s)
      PROVE  s \in DOMAIN All /\ All[s].val = server[s]
  BY <1>3, ListingKnows DEF All, SnapInv
<1>4. ASSUME NEW r \in right PROVE Kept(All, r)
  <2>1. PICK s \in Server : /\ node[s] # Absent /\ server[s] \in IP /\ steady[s] = TRUE
                            /\ r = Route(node[s].cidr, server[s])
    BY <1>4 DEF RightInv
  <2>2. s \in DOMAIN All /\ All[s].val = server[s]
    BY <1>3, <2>1 DEF Exists
  <2>3. r.dest = node[s].cidr /\ r.gw = server[s]
    BY <2>1 DEF Route
  <2>4. s \in TargetNode(All, r)
    BY <2>2, <2>3 DEF TargetNode
  <2>q. QED
    BY <2>1, <2>3, <2>4 DEF Kept
<1>5. ASSUME NEW c \in CIDR, InStage(c, "delete")'
      PROVE  (Obsolete(c) \in Range(routes) /\ Obsolete(c) \notin right)'
  <2>1. PICK k \in DOMAIN network \ keep : network[k].dest = c
    BY <1>1, <1>5 DEF InStage
  <2>2. Obsolete(c) = network[k]
    BY <1>2, <2>1, ObsoleteIs
  <2>3. Obsolete(c) \in Range(routes) /\ Obsolete(c) \notin right
    BY <1>2, <1>4, <2>1, <2>2 DEF Range
  <2>q. QED
    BY <1>1, <2>3 DEF Obsolete
<1>6. ASSUME NEW c \in CIDR, Miss(c)', (c \in Dests(routes))'
      PROVE  call'[c] # Idle
  <2>1. PICK s \in missing' : node[s] # Absent /\ node[s].cidr = c
    BY <1>1, <1>6 DEF Miss
  <2>2. PICK k \in DOMAIN network : network[k].dest = c
    BY <1>1, <1>2, <1>6 DEF Dests
  <2>3. k \notin keep
    <3> SUFFICES ASSUME k \in keep PROVE FALSE
      OBVIOUS
    <3>1. PICK t \in TargetNode(All, network[k]) : node[t] # Absent /\ node[t].cidr = c
      BY <2>2 DEF Kept
    <3>2. t \in Server
      BY <3>1, ListingType DEF TargetNode, All, TypeInv, CacheInv, GoodEntries
    <3>3. t = s
      BY <1>1, <1>2, <2>1, <3>1, <3>2 DEF OwnCIDRs
    <3>q. QED
      BY <1>1, <2>1, <2>2, <3>1, <3>3
  <2>q. QED
    BY <1>1, <1>2, <2>2, <2>3
<1>q. QED
  BY <1>5, <1>6 DEF DeleteInv

\* Nothing that the two invariants read changes.
Quiet == UNCHANGED <<routes, network, phase, missing, call, right>>

\* The steps of a calm period.
LEMMA CalmSteps ==
    ASSUME TypeInv, [Next]_vars, calm'
    PROVE  \/ BeginList \/ ListRoutes \/ ListFails \/ EndOfDelete \/ EndOfCreate
           \/ (\E c \in CIDR : Calls(c)) \/ (\E c \in CIDR : Panic(c)) \/ Quiet
<1>1. ~Environment
  BY DEF Environment, ServerChanges, NodeChanges, Change
<1>2. Tick \/ UNCHANGED vars => Quiet
  BY DEF Tick, vars, Quiet
<1>3. ASSUME NEW s \in Server, NodeSync(s) \/ InstanceLookup(s) PROVE Quiet
  BY <1>3 DEF NodeSync, InstanceLookup, Quiet
<1>q. QED
  BY <1>1, <1>2, <1>3, NextIs DEF ControllerStep

LEMMA MissSame ==
    ASSUME TypeInv, SameNodes, missing' = missing, NEW c
    PROVE  Miss(c)' <=> Miss(c)
  BY DEF SameNodes, Miss, TypeInv, ControllerInv

LEMMA DeleteDeleteRoute ==
    ASSUME TypeInv, DeleteInv, calm, phase = "delete", NEW d \in CIDR, DeleteRoute(d), SameNodes
    PROVE  DeleteInv'
<1>1. /\ routes \in Seq(AnyRoute) /\ OnePerDest(routes)
      /\ Obsolete(d) \in Range(routes) /\ routes' = Without(Obsolete(d))
      /\ UNCHANGED <<network, missing, right>>
  BY DEF DeleteRoute, TypeInv, ApiInv
<1>2. call'[d] = Idle /\ \A c \in CIDR \ {d} : call'[c] = call[c]
  BY DoneIs DEF DeleteRoute, TypeInv
<1>3. Range(routes') = Range(routes) \ {Obsolete(d)}
  BY <1>1, WithoutIs
<1>4. \A c : Obsolete(c)' = Obsolete(c) /\ Obsolete(c).dest = c
  BY <1>1 DEF Obsolete, Route
<1>5. ASSUME NEW c \in CIDR, InStage(c, "delete")'
      PROVE  (Obsolete(c) \in Range(routes) /\ Obsolete(c) \notin right)'
  <2>1. c # d /\ InStage(c, "delete")
    BY <1>2, <1>5 DEF InStage
  <2>2. Obsolete(c) \in Range(routes) /\ Obsolete(c) \notin right
    BY <2>1 DEF DeleteInv
  <2>3. Obsolete(c) # Obsolete(d)
    BY <1>4, <2>1
  <2>q. QED
    BY <1>1, <1>3, <1>4, <2>2, <2>3
<1>6. ASSUME NEW c \in CIDR, Miss(c)', (c \in Dests(routes))'
      PROVE  call'[c] # Idle
  <2>1. PICK r \in Range(routes) \ {Obsolete(d)} : r.dest = c
    BY <1>3, <1>6, DestsRange
  <2>2. c # d
    BY <1>1, <1>4, <2>1, OneRoute
  <2>3. Miss(c) /\ c \in Dests(routes)
    BY <1>1, <1>6, <2>1, DestsRange, MissSame
  <2>q. QED
    BY <1>2, <2>2, <2>3 DEF DeleteInv
<1>q. QED
  BY <1>5, <1>6 DEF DeleteInv

\* In the phase of the deletions the calls of a calm period delete.
LEMMA DeleteCalls ==
    ASSUME TypeInv, DeleteInv, calm, calm', phase = "delete", NEW c \in CIDR, Calls(c)
    PROVE  DeleteRoute(c)
<1>1. call[c] # Idle /\ call[c].stage = "delete"
  BY CallsFrame, InStagePhase
<1>2. ~CallFails(c) /\ ~Conflict(c)
  BY DEF CallFails, Conflict
<1>3. ~CallRejected(c)
  BY <1>1 DEF CallRejected, InStage, DeleteInv
<1>q. QED
  BY <1>1, <1>2, <1>3 DEF Calls, Resolve, Unresolved, Reload, Assign, Find, Compare, Replace, Add, InStage

LEMMA DeleteNext ==
    ASSUME Renamed = {}
    PROVE  TypeInv /\ SnapInv /\ RightInv /\ DeleteInv /\ [Next]_vars => DeleteInv'
<1> SUFFICES ASSUME TypeInv, SnapInv, RightInv, DeleteInv, [Next]_vars, calm', phase' = "delete"
             PROVE  DeleteInv'
  BY DEF DeleteInv
<1>1. ~BeginList /\ ~ListFails /\ ~EndOfDelete /\ ~EndOfCreate /\ \A c \in CIDR : ~Panic(c)
  BY DEF BeginList, ListFails, EndOfDelete, EndOfCreate, Panic
<1>2. calm /\ SameNodes
  BY <1>1, CalmFrame
<1>3. CASE ListRoutes
  BY <1>2, <1>3, DeleteListed
<1>4. ASSUME NEW c \in CIDR, Calls(c) PROVE DeleteInv'
  <2>1. phase = "delete"
    BY <1>4, CallsFrame
  <2>q. QED
    BY <1>2, <1>4, <2>1, DeleteCalls, DeleteDeleteRoute
<1>5. CASE Quiet
  <2>1. \A c : Miss(c)' <=> Miss(c)
    BY <1>2, <1>5, MissSame DEF Quiet
  <2>2. /\ \A c : Obsolete(c)' = Obsolete(c) /\ (InStage(c, "delete")' <=> InStage(c, "delete"))
        /\ UNCHANGED <<routes, call, right, phase>>
    BY <1>5 DEF Quiet, Obsolete, InStage
  <2>q. QED
    BY <1>2, <2>1, <2>2 DEF DeleteInv
<1>q. QED
  BY <1>1, <1>3, <1>4, <1>5, CalmSteps

-----------------------------------------------------------------------------
(* Right routes: what is created *)

LEMMA CreateBegins ==
    ASSUME TypeInv, DeleteInv, EndOfDelete, calm
    PROVE  CreateInv'
<1>1. /\ phase = "delete" /\ \A c \in CIDR : call[c] = Idle
      /\ routes' = routes
  BY DEF EndOfDelete
<1>2. ASSUME NEW c \in CIDR, call'[c] # Idle
      PROVE  c \notin Dests(routes) /\ call'[c].stage = "create"
  <2> DEFINE of == {s \in missing : node[s] # Absent /\ node[s].cidr = c}
             x == CHOOSE x \in of : TRUE
  <2>1. of # {} /\ call'[c] = NewCall("create", x, node[x].addr)
    BY <1>2 DEF EndOfDelete
  <2>2. Miss(c)
    BY <2>1 DEF Miss
  <2> HIDE DEF x
  <2>3. call'[c].stage = "create"
    BY <2>1 DEF NewCall
  <2>q. QED
    BY <1>1, <2>2, <2>3 DEF DeleteInv
<1>q. QED
  BY <1>1, <1>2 DEF CreateInv, InStage

\* What a call that creates does in a calm period.
LEMMA CreateSteps ==
    ASSUME TypeInv, CreateInv, calm, calm', phase = "create", NEW e \in CIDR, Calls(e)
    PROVE  \/ /\ UNCHANGED <<routes, network>>
              /\ call'[e] = Idle \/ call'[e].stage \in {"reload", "add"}
           \/ Reload(e) \/ Assign(e) \/ Add(e)
<1>1. call[e] # Idle /\ call[e].stage \notin {"delete", "compare", "replace"}
  BY CallsFrame, InStagePhase DEF CreateInv
<1>2. ~CallFails(e) /\ ~Conflict(e) /\ ~DeleteRoute(e) /\ ~Compare(e) /\ ~Replace(e)
  BY <1>1 DEF CallFails, Conflict, DeleteRoute, Compare, Replace, InStage
<1>3. CASE Resolve(e)
  <2>1. call' = [call EXCEPT ![e].stage = "reload", ![e].gw = Target(e)] /\ UNCHANGED <<routes, network>>
    BY <1>3 DEF Resolve
  <2>2. call[e] \in AnyCall /\ DOMAIN call = CIDR
    BY <1>1, InStagePhase DEF GoodCall, TypeInv, CallsInv
  <2>q. QED
    BY <2>1, <2>2 DEF AnyCall
<1>4. CASE Unresolved(e) \/ CallRejected(e)
  BY <1>4, DoneIs DEF Unresolved, CallRejected, TypeInv
<1>5. CASE Find(e)
  <2>1. e \notin Dests(network)
    BY <1>1, <1>5 DEF Find, CreateInv
  <2>2. call' = [call EXCEPT ![e].stage = "add"] /\ UNCHANGED <<routes, network>>
    BY <1>5, <2>1 DEF Find, Dests
  <2>3. call[e] \in AnyCall /\ DOMAIN call = CIDR
    BY <1>1, InStagePhase DEF GoodCall, TypeInv, CallsInv
  <2>q. QED
    BY <2>2, <2>3 DEF AnyCall
<1>q. QED
  BY <1>2, <1>3, <1>4, <1>5 DEF Calls

LEMMA CreateCalls ==
    ASSUME TypeInv, CreateInv, calm, calm', phase = "create", NEW e \in CIDR, Calls(e)
    PROVE  CreateInv'
<1>1. DOMAIN call = CIDR /\ call[e] # Idle /\ call[e] \in AnyCall /\ routes \in Seq(AnyRoute) /\ OnePerDest(routes)
  BY CallsFrame, InStagePhase DEF GoodCall, TypeInv, CallsInv, ApiInv
<1>2. \A d \in CIDR \ {e} : call'[d] = call[d]
  BY StagesType, EndsType DEF Calls, CallStays
<1>3. ASSUME NEW c \in CIDR, call'[c] # Idle PROVE call[c] # Idle
  BY <1>1, <1>2, <1>3
<1>4. CASE UNCHANGED <<routes, network>> /\ (call'[e] = Idle \/ call'[e].stage \in {"reload", "add"})
  BY <1>2, <1>3, <1>4 DEF CreateInv, InStage
<1>5. CASE Reload(e)
  <2>1. /\ call'[e].stage = "assign" /\ call'[e].resp = routes
        /\ UNCHANGED <<routes, network>>
    BY <1>1, <1>5 DEF Reload, AnyCall
  <2>q. QED
    BY <1>2, <1>3, <2>1 DEF CreateInv, InStage
<1>6. CASE Assign(e)
  <2>1. /\ InStage(e, "assign") /\ call'[e].stage = "find"
        /\ network' = call[e].resp /\ routes' = routes
    BY <1>1, <1>6 DEF Assign, AnyCall
  <2>q. QED
    BY <1>2, <1>3, <2>1 DEF CreateInv, InStage
<1>7. CASE Add(e)
  <2>1. /\ call'[e] = Idle /\ network' = network /\ e \notin Dests(routes)
        /\ routes' = Append(routes, Route(e, call[e].gw))
    BY <1>7, DoneIs DEF Add, TypeInv
  <2>2. Route(e, call[e].gw) \in AnyRoute /\ Route(e, call[e].gw).dest = e
    BY <1>1, <1>7, InStagePhase DEF Add, InStage, GoodCall, Resolved, Route, AnyRoute
  <2>3. Range(routes') = Range(routes) \cup {Route(e, call[e].gw)}
    BY <1>1, <2>1, <2>2, AppendIs
  <2>4. ASSUME NEW c \in CIDR \ {e}, c \notin Dests(routes) PROVE c \notin Dests(routes')
    BY <2>2, <2>3, <2>4, DestsRange
  <2>q. QED
    BY <1>2, <1>3, <2>1, <2>4 DEF CreateInv, InStage
<1>q. QED
  BY <1>4, <1>5, <1>6, <1>7, CreateSteps

LEMMA CreateNext == TypeInv /\ DeleteInv /\ CreateInv /\ [Next]_vars => CreateInv'
<1> SUFFICES ASSUME TypeInv, DeleteInv, CreateInv, [Next]_vars, calm', phase' = "create"
             PROVE  CreateInv'
  BY DEF CreateInv
<1>1. ~BeginList /\ ~ListFails /\ ~ListRoutes /\ ~EndOfCreate /\ \A c \in CIDR : ~Panic(c)
  BY DEF BeginList, ListFails, ListRoutes, EndOfCreate, Panic
<1>2. calm
  BY <1>1, CalmFrame
<1>3. CASE EndOfDelete
  BY <1>2, <1>3, CreateBegins
<1>4. ASSUME NEW c \in CIDR, Calls(c) PROVE CreateInv'
  <2>1. phase = "create"
    BY <1>4, CallsFrame
  <2>q. QED
    BY <1>2, <1>4, <2>1, CreateCalls
<1>5. CASE Quiet
  BY <1>2, <1>5 DEF Quiet, CreateInv, InStage
<1>q. QED
  BY <1>1, <1>3, <1>4, <1>5, CalmSteps

-----------------------------------------------------------------------------
(* Right routes stay *)

StayInv == TypeInv /\ SnapInv /\ RightInv /\ DeleteInv /\ CreateInv

LEMMA StayInit == Init => StayInv
<1> SUFFICES ASSUME Init PROVE StayInv
  OBVIOUS
<1>1. SnapInv /\ RightInv
  BY DEF Init, SnapInv, AllHit, RightInv
<1>2. DeleteInv /\ CreateInv
  BY DEF Init, DeleteInv, CreateInv
<1>q. QED
  BY <1>1, <1>2, TypeInit DEF StayInv

LEMMA StayStep ==
    ASSUME StayInv, [Next]_vars, calm, calm'
    PROVE  Range(routes) \cap right \subseteq Range(routes')
<1>1. TypeInv /\ DeleteInv /\ CreateInv /\ routes \in Seq(AnyRoute) /\ OnePerDest(routes)
  BY DEF StayInv, TypeInv, ApiInv
<1>2. CASE \E c \in CIDR : Calls(c)
  <2>1. PICK c \in CIDR : Calls(c)
    BY <1>2
  <2>2. phase \in {"delete", "create"}
    BY <1>1, <2>1, CallsFrame, InStagePhase
  <2>3. CASE phase = "delete"
    <3>1. DeleteRoute(c)
      BY <1>1, <2>1, <2>3, DeleteCalls
    <3>2. Range(routes') = Range(routes) \ {Obsolete(c)} /\ InStage(c, "delete")
      BY <1>1, <3>1, WithoutIs DEF DeleteRoute
    <3>q. QED
      BY <1>1, <2>3, <3>2 DEF DeleteInv
  <2>4. CASE phase = "create"
    <3>1. CASE Add(c)
      <4>1. /\ InStage(c, "add") /\ c \notin Dests(routes)
            /\ routes' = Append(routes, Route(c, call[c].gw))
        BY <3>1 DEF Add
      <4>2. Route(c, call[c].gw) \in AnyRoute /\ Route(c, call[c].gw).dest = c
        BY <1>1, <4>1, InStagePhase DEF InStage, GoodCall, Resolved, Route, AnyRoute
      <4>q. QED
        BY <1>1, <4>1, <4>2, AppendIs
    <3>2. CASE routes' = routes
      BY <3>2
    <3>q. QED
      BY <1>1, <2>1, <2>4, <3>1, <3>2, CreateSteps DEF Reload, Assign
  <2>q. QED
    BY <2>2, <2>3, <2>4
<1>3. CASE routes' = routes
  BY <1>3
<1>q. QED
  BY <1>1, <1>2, <1>3, CalmSteps DEF BeginList, ListRoutes, ListFails, EndOfDelete, EndOfCreate, Panic, Quiet

\* A route that is right when ListRoutes reads the network, of a server that
\* is no news to the cache, survives the period: DeleteRoute gets only routes
\* that are no longer right, and CreateRoute finds no route to replace, while
\* nothing changes and nothing fails.  In mode one the cache of the servers
\* may be incomplete, and a renamed server is not found by name; there the
\* code deletes right routes, so both are excluded.
THEOREM RightRoutesStayCorrect ==
    ASSUME "one" \notin Modes, Renamed = {}
    PROVE  Spec => RightRoutesStay
<1>1. StayInv /\ [Next]_vars => StayInv'
  BY TypeNext, SnapNext, RightNext, DeleteNext, CreateNext DEF StayInv
<1>2. StayInv /\ [Next]_vars => [calm /\ calm' => Range(routes) \cap right \subseteq Range(routes')]_vars
  BY StayStep
<1>q. QED
  BY <1>1, <1>2, StayInit, PTL DEF Spec, RightRoutesStay
=============================================================================
