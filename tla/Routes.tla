------------------------------- MODULE Routes -------------------------------
(***************************************************************************)
(* ListRoutes, CreateRoute and DeleteRoute (hcloud/routes.go): the routes  *)
(* of the private network are made to match the pod CIDRs of the nodes.    *)
(*                                                                         *)
(* The route controller of Kubernetes calls them: it lists the routes,     *)
(* deletes those that belong to no node, all at the same time, waits, and  *)
(* creates the missing ones, all at the same time.  The calls share the    *)
(* field network without a mutex; reading it twice may give two networks.  *)
(*                                                                         *)
(* The server cache (module Cache) is modelled by its entries with an age  *)
(* in four classes, which is all that the two max ages and the hour after  *)
(* which entries are evicted tell apart.                                   *)
(***************************************************************************)
EXTENDS Integers, Sequences, FiniteSets, Functions

CONSTANTS
    Server,      \* the servers; a node has the name of its server
    Renamed,     \* the servers that were renamed, so the names differ
    IP,          \* addresses of the private network
    CIDR,        \* pod CIDRs of the cluster
    IPv6,        \* those of them that are not IPv4
    Foreign,     \* destinations of routes outside of the cluster CIDR
    Providers,   \* provider ids of nodes: "id", "unset", "other"
    Modes,       \* modes of the server cache
    Starts,      \* the servers, nodes and routes there are at the start
    NoIP,        \* not attached to the network
    Unborn, Gone,\* a server that does not exist yet, or no longer
    Absent, Idle,
    MaxChanges,  \* bound on the changes of servers and nodes
    MaxFails     \* bound on failing calls of the API

\* A node has a pod CIDR, a provider id, and the InternalIP that the node
\* controller gave it.
Node == [cidr: CIDR, provider: Providers, addr: IP \cup {NoIP}]

\* No two nodes have the same pod CIDR.
OwnCIDRs(ns) ==
    \A s, t \in Server : ns[s] # Absent /\ ns[t] # Absent /\ ns[s].cidr = ns[t].cidr => s = t

Route(dest, gw) == [dest |-> dest, gw |-> gw]

AnyRoute == [dest: CIDR \cup Foreign, gw: IP]

\* The API has one route for a destination.
OnePerDest(rs) == \A k, m \in DOMAIN rs : rs[k].dest = rs[m].dest => k = m

\* A call of DeleteRoute or CreateRoute at its start.
NewCall(op, s, addr) ==
    [op |-> op, node |-> s, addr |-> addr, stage |-> op, gw |-> NoIP, idx |-> 0, resp |-> <<>>, old |-> Idle]

ASSUME RoutesAssumption ==
    /\ Renamed \subseteq Server /\ IPv6 \subseteq CIDR /\ CIDR \cap Foreign = {}
    /\ Providers \subseteq {"id", "unset", "other"} /\ Modes \subseteq {"all", "one", "off"}
    /\ {NoIP, Unborn, Gone} \cap IP = {} /\ Absent \notin Node
    /\ NewCall("delete", Absent, NoIP) # Idle
    /\ \A st \in Starts :
        /\ st.server \in [Server -> IP \cup {NoIP, Unborn}]
        /\ st.node \in [Server -> Node \cup {Absent}] /\ OwnCIDRs(st.node)
        /\ st.routes \in Seq(AnyRoute) /\ OnePerDest(st.routes)
    /\ MaxChanges \in Nat /\ MaxFails \in Nat

VARIABLES
    server,   \* the API: the address of each server
    steady,   \* history: the server is as it is for longer than the max age
    node,     \* the nodes of the cluster
    routes,   \* the API: the routes of the network, in the order they came
    network,  \* routes.network, as far as its routes go
    mode, cached,      \* the server cache
    phase,    \* where the route controller is
    missing,  \* the nodes whose routes it is going to create
    call,     \* the calls of DeleteRoute and CreateRoute, by destination
    changes, fails,
    calm,     \* history: no change and no failure since the routes were listed
    right     \* history: the routes that were right by then

vars == <<server, steady, node, routes, network, mode, cached, phase, missing, call,
          changes, fails, calm, right>>
envVars == <<server, steady, node, changes>>

-----------------------------------------------------------------------------
(* Data *)

Dests(rs) == {rs[k].dest : k \in DOMAIN rs}

\* The gateway of a destination that is in rs.
Gateway(rs, dest) == rs[CHOOSE k \in DOMAIN rs : rs[k].dest = dest].gw

Exists(s) == server[s] \in IP \cup {NoIP}

\* The routes there should be.
Wanted ==
    {Route(node[s].cidr, server[s]) :
        s \in {x \in Server : /\ node[x] # Absent /\ server[x] \in IP
                              /\ node[x].cidr \notin IPv6
                              /\ \/ node[x].provider = "id"
                                 \/ node[x].provider = "unset" /\ x \notin Renamed}}

Init ==
    /\ \E st \in Starts : server = st.server /\ node = st.node /\ routes = st.routes
    /\ steady = [s \in Server |-> TRUE]
    /\ network = routes
    /\ mode \in Modes /\ cached = [s \in {} |-> <<>>]
    /\ phase = "idle" /\ missing = {}
    /\ call = [c \in CIDR |-> Idle]
    /\ changes = 0 /\ fails = 0
    /\ calm = TRUE /\ right = {}

-----------------------------------------------------------------------------
(* The environment *)

Change ==
    /\ changes < MaxChanges /\ changes' = changes + 1
    /\ calm' = FALSE
    /\ UNCHANGED <<routes, network, mode, cached, phase, missing, call, fails, right>>

\* A server is created, attached, detached or deleted.
ServerChanges(s, v) ==
    /\ Change
    /\ server[s] # v /\ server[s] # Gone
    /\ v \in IP => \A x \in Server : server[x] # v
    /\ v = Gone => Exists(s)
    /\ server' = [server EXCEPT ![s] = v]
    /\ steady' = [steady EXCEPT ![s] = FALSE]
    /\ UNCHANGED node

\* A node joins, with a pod CIDR of its own, or leaves.
NodeChanges(s, n) ==
    /\ Change
    /\ \/ node[s] # Absent /\ n = Absent
       \/ /\ node[s] = Absent /\ n # Absent /\ n.addr = NoIP
          /\ \A x \in Server : node[x] # Absent => node[x].cidr # n.cidr
    /\ node' = [node EXCEPT ![s] = n]
    /\ UNCHANGED <<server, steady>>

\* External: the node controller writes the address of the server.
NodeSync(s) ==
    /\ node[s] # Absent /\ Exists(s) /\ node[s].addr # server[s]
    /\ node' = [node EXCEPT ![s].addr = server[s]]
    /\ UNCHANGED <<server, steady, routes, network, mode, cached, phase, missing, call,
                   changes, fails, calm, right>>

\* Time passes, at least the default max age.
Tick ==
    /\ cached' = [s \in DOMAIN cached |-> [cached[s] EXCEPT !.age = IF @ < 3 THEN @ + 1 ELSE @]]
    /\ steady' = [s \in Server |-> TRUE]
    /\ cached' # cached \/ steady' # steady
    /\ UNCHANGED <<server, node, routes, network, mode, phase, missing, call, changes, fails,
                   calm, right>>

-----------------------------------------------------------------------------
(* The server cache *)

DefaultMaxAge == 0

\* routeTargetCacheMaxAge is longer than the default.
RouteMaxAge == 1

\* The hour after which refreshOne evicts an entry is longer still.
EvictAge == 2

Entry(s) == [val |-> server[s], age |-> 0]

\* Mutant of Listing: servers that do not exist get an entry, too.
Listing_WithNil == [s \in Server |-> Entry(s)]

\* refreshAll.
Listing == [s \in {x \in Server : Exists(x)} |-> Entry(s)]

\* Mutant of AllHit: the age is not looked at.
AllHit_NoAge == DOMAIN cached # {}

\* All is answered from the cache, whatever the mode.
AllHit == DOMAIN cached # {} /\ \A s \in DOMAIN cached : cached[s].age <= DefaultMaxAge

All == IF AllHit THEN cached ELSE Listing

\* An entry that a lookup with this max age returns.
Fresh(entries, s, maxAge) == s \in DOMAIN entries /\ entries[s].age <= maxAge

\* refreshOne: a server that was found gets an entry, and entries that expired
\* long ago are evicted.
WithEntry(s) ==
    [x \in {y \in DOMAIN cached : cached[y].age <= EvictAge} \cup {s} |->
        IF x = s THEN Entry(s) ELSE cached[x]]

\* The entries after a lookup of s.
Refreshed(s, maxAge) ==
    IF mode = "off" \/ Fresh(cached, s, maxAge) THEN cached
    ELSE IF mode = "all" THEN Listing
    ELSE IF Exists(s) THEN WithEntry(s) ELSE cached

\* What resolveRouteTarget is told: the private address, NoIP, or Gone for nil.
LookedUp(s) ==
    LET entries == Refreshed(s, RouteMaxAge)
    IN  IF mode = "off" THEN (IF Exists(s) THEN server[s] ELSE Gone)
        ELSE IF Fresh(entries, s, RouteMaxAge) THEN entries[s].val ELSE Gone

\* The node controllers use the same cache, with the default max age.
InstanceLookup(s) ==
    /\ cached' = Refreshed(s, DefaultMaxAge) /\ cached' # cached
    /\ UNCHANGED <<envVars, routes, network, mode, phase, missing, call, fails, calm, right>>

-----------------------------------------------------------------------------
(* Listing *)

\* The controller lists the routes: the network is reloaded.
BeginList ==
    /\ phase = "idle"
    /\ phase' = "list"
    /\ network' = routes
    /\ calm' = TRUE
    /\ right' = {r \in Range(routes) \cap Wanted : \A s \in Server : server[s] = r.gw => steady[s]}
    /\ UNCHANGED <<envVars, routes, mode, cached, missing, call, fails>>

\* The node a route is reported for: the name of the server with its gateway,
\* none if it is a blackhole.
TargetNode(entries, r) == {s \in DOMAIN entries : entries[s].val = r.gw} \ Renamed

\* External: the controller keeps a route if its node has this pod CIDR.
Kept(entries, r) == \E s \in TargetNode(entries, r) : node[s] # Absent /\ node[s].cidr = r.dest

\* The servers are read.  The controller starts to delete the routes that are
\* in the cluster CIDR and are not kept.
ListRoutes ==
    LET entries == All
        keep == {k \in DOMAIN network : Kept(entries, network[k])}
    IN  /\ phase = "list"
        /\ cached' = entries
        /\ phase' = "delete"
        /\ call' = [c \in CIDR |->
                IF \E k \in DOMAIN network \ keep : network[k].dest = c
                  THEN NewCall("delete", Absent, NoIP) ELSE Idle]
        /\ missing' = {s \in Server : /\ node[s] # Absent
                                      /\ ~ \E k \in keep : /\ s \in TargetNode(entries, network[k])
                                                           /\ network[k].dest = node[s].cidr}
        /\ UNCHANGED <<envVars, routes, network, mode, fails, calm, right>>

\* reloadNetwork or the cache fails; the next attempt starts over.
ListFails ==
    /\ phase = "list"
    /\ fails < MaxFails /\ fails' = fails + 1
    /\ phase' = "idle" /\ right' = {}
    /\ UNCHANGED <<envVars, routes, network, mode, cached, missing, call, calm>>

-----------------------------------------------------------------------------
(* Deleting *)

Done(c) == call' = [call EXCEPT ![c] = Idle]

InStage(c, st) == call[c] # Idle /\ call[c].stage = st

\* External: the API drops a route, those after it move up.
Without(r) ==
    LET k == CHOOSE i \in DOMAIN routes : routes[i] = r
    IN  IF r \notin Range(routes) THEN routes
        ELSE [i \in 1..(Len(routes) - 1) |-> routes[IF i < k THEN i ELSE i + 1]]

\* Mutant of Obsolete: the destinations are not compared.
Obsolete_First(c) == Route(c, network[1].gw)

\* The gateway is taken from network.  It is there: nothing reloads network
\* while routes are deleted.
Obsolete(c) == Route(c, Gateway(network, c))

DeleteRoute(c) ==
    /\ InStage(c, "delete")
    /\ Obsolete(c) \in Range(routes)
    /\ routes' = Without(Obsolete(c))
    /\ Done(c)
    /\ UNCHANGED <<envVars, network, mode, cached, phase, missing, fails, calm, right>>

\* External: when all calls have returned the missing routes are created.
EndOfDelete ==
    /\ phase = "delete" /\ \A c \in CIDR : call[c] = Idle
    /\ phase' = "create"
    /\ call' = [c \in CIDR |->
            LET of == {s \in missing : node[s] # Absent /\ node[s].cidr = c}
            IN  IF of = {} THEN Idle
                ELSE LET s == CHOOSE x \in of : TRUE IN NewCall("create", s, node[s].addr)]
    /\ missing' = {}
    /\ UNCHANGED <<envVars, routes, network, mode, cached, fails, calm, right>>

-----------------------------------------------------------------------------
(* Creating *)

\* resolveRouteTarget, for a node that is still there.
CanLookUp(c) ==
    /\ c \notin IPv6
    /\ node[call[c].node] # Absent
    /\ node[call[c].node].provider # "other"

\* With a provider id the server is looked up by id, otherwise by the name of
\* the node, which no renamed server has.
Target(c) ==
    IF node[call[c].node].provider = "unset" /\ call[c].node \in Renamed
      THEN Gone ELSE LookedUp(call[c].node)

\* The target is found and is one of the node's addresses.
Resolve(c) ==
    /\ InStage(c, "create") /\ CanLookUp(c)
    /\ Target(c) \in IP /\ Target(c) = call[c].addr
    /\ cached' = Refreshed(call[c].node, RouteMaxAge)
    /\ call' = [call EXCEPT ![c].stage = "reload", ![c].gw = Target(c)]
    /\ UNCHANGED <<envVars, routes, network, mode, phase, missing, fails, calm, right>>

\* CreateRoute returns an error before it changes anything.
Unresolved(c) ==
    /\ InStage(c, "create")
    /\ \/ ~CanLookUp(c) /\ UNCHANGED cached
       \/ /\ CanLookUp(c)
          /\ Target(c) \notin IP \/ Target(c) # call[c].addr
          /\ cached' = Refreshed(call[c].node, RouteMaxAge)
    /\ Done(c)
    /\ UNCHANGED <<envVars, routes, network, mode, phase, missing, fails, calm, right>>

\* reloadNetwork: the API answers, and then the answer is assigned.
Reload(c) ==
    /\ InStage(c, "reload")
    /\ call' = [call EXCEPT ![c].stage = "assign", ![c].resp = routes]
    /\ UNCHANGED <<envVars, routes, network, mode, cached, phase, missing, fails, calm, right>>

Assign(c) ==
    /\ InStage(c, "assign")
    /\ network' = call[c].resp
    /\ call' = [call EXCEPT ![c].stage = "find", ![c].resp = <<>>]
    /\ UNCHANGED <<envVars, routes, mode, cached, phase, missing, fails, calm, right>>

\* IndexFunc over network.Routes.
Find(c) ==
    /\ InStage(c, "find")
    /\ \/ /\ c \notin Dests(network)
          /\ call' = [call EXCEPT ![c].stage = "add"]
       \/ \E k \in DOMAIN network :
            /\ network[k].dest = c
            /\ call' = [call EXCEPT ![c].stage = "compare", ![c].idx = k]
    /\ UNCHANGED <<envVars, routes, network, mode, cached, phase, missing, fails, calm, right>>

\* network.Routes[existingIdx], of a network that may be another one by now.
\* If the gateway is the right one there is nothing to do.
Compare(c) ==
    /\ InStage(c, "compare")
    /\ call[c].idx \in DOMAIN network
    /\ LET r == network[call[c].idx]
       IN  \/ r.gw = call[c].gw /\ Done(c)
           \/ r.gw # call[c].gw /\ call' = [call EXCEPT ![c].stage = "replace", ![c].old = r]
    /\ UNCHANGED <<envVars, routes, network, mode, cached, phase, missing, fails, calm, right>>

\* The index is out of range: the process panics and starts again.
Panic(c) ==
    /\ InStage(c, "compare")
    /\ call[c].idx \notin DOMAIN network
    /\ network' = routes
    /\ cached' = [s \in {} |-> <<>>]
    /\ phase' = "idle" /\ missing' = {} /\ right' = {}
    /\ call' = [x \in CIDR |-> Idle]
    /\ UNCHANGED <<envVars, routes, mode, fails, calm>>

\* The stale route is deleted, to be replaced.
Replace(c) ==
    /\ InStage(c, "replace")
    /\ call[c].old \in Range(routes)
    /\ routes' = Without(call[c].old)
    /\ call' = [call EXCEPT ![c].stage = "add"]
    /\ UNCHANGED <<envVars, network, mode, cached, phase, missing, fails, calm, right>>

Add(c) ==
    /\ InStage(c, "add")
    /\ c \notin Dests(routes)
    /\ routes' = Append(routes, Route(c, call[c].gw))
    /\ Done(c)
    /\ UNCHANGED <<envVars, network, mode, cached, phase, missing, fails, calm, right>>

\* The API is locked: the controller calls CreateRoute again.
Conflict(c) ==
    /\ InStage(c, "add")
    /\ fails < MaxFails /\ fails' = fails + 1
    /\ calm' = FALSE
    /\ call' = [call EXCEPT ![c] = NewCall("create", @.node, @.addr)]
    /\ UNCHANGED <<envVars, routes, network, mode, cached, phase, missing, right>>

\* The API rejects a call: the route is not there, or the destination is
\* taken.
CallRejected(c) ==
    /\ \/ InStage(c, "delete") /\ Obsolete(c) \notin Range(routes)
       \/ InStage(c, "replace") /\ call[c].old \notin Range(routes)
       \/ InStage(c, "add") /\ c \in Dests(routes)
    /\ Done(c)
    /\ UNCHANGED <<envVars, routes, network, mode, cached, phase, missing, fails, calm, right>>

\* A call, or waiting for its action, fails; its effect may have taken place.
CallFails(c) ==
    /\ call[c] # Idle /\ call[c].stage \in {"create", "delete", "reload", "replace", "add"}
    /\ fails < MaxFails /\ fails' = fails + 1
    /\ calm' = FALSE
    /\ \/ UNCHANGED routes
       \/ call[c].stage = "delete" /\ routes' = Without(Obsolete(c))
       \/ call[c].stage = "replace" /\ routes' = Without(call[c].old)
       \/ /\ call[c].stage = "add" /\ c \notin Dests(routes)
          /\ routes' = Append(routes, Route(c, call[c].gw))
    /\ Done(c)
    /\ UNCHANGED <<envVars, network, mode, cached, phase, missing, right>>

\* External: the controller waits for all calls, and for its next period.
EndOfCreate ==
    /\ phase = "create" /\ \A c \in CIDR : call[c] = Idle
    /\ phase' = "idle" /\ right' = {}
    /\ UNCHANGED <<envVars, routes, network, mode, cached, missing, call, fails, calm>>

-----------------------------------------------------------------------------
Environment ==
    \/ \E s \in Server : \/ \E v \in IP \cup {NoIP, Gone} : ServerChanges(s, v)
                         \/ \E n \in Node \cup {Absent} : NodeChanges(s, n)

CallStep(c) ==
    \/ DeleteRoute(c) \/ Resolve(c) \/ Unresolved(c) \/ Reload(c) \/ Assign(c) \/ Find(c)
    \/ Compare(c) \/ Panic(c) \/ Replace(c) \/ Add(c) \/ CallRejected(c)

ControllerStep == BeginList \/ ListRoutes \/ EndOfDelete \/ EndOfCreate

Next ==
    \/ Environment \/ Tick \/ ControllerStep \/ ListFails
    \/ \E s \in Server : NodeSync(s) \/ InstanceLookup(s)
    \/ \E c \in CIDR : CallStep(c) \/ Conflict(c) \/ CallFails(c)

Spec == Init /\ [][Next]_vars

\* Goroutines run, API calls end, the controllers come round again, and time
\* passes.
FairSpec ==
    /\ Spec
    /\ WF_vars(Tick) /\ WF_vars(ControllerStep)
    /\ \A s \in Server : WF_vars(NodeSync(s))
    /\ \A c \in CIDR : WF_vars(CallStep(c))
-----------------------------------------------------------------------------
(* Properties *)

\* Types of the API, the cache and the calls; the API holds at most one route
\* for a destination, and the cache only servers that exist.
TypeOK ==
    /\ server \in [Server -> IP \cup {NoIP, Unborn, Gone}]
    /\ steady \in [Server -> BOOLEAN]
    /\ node \in [Server -> Node \cup {Absent}]
    /\ routes \in Seq(AnyRoute) /\ OnePerDest(routes) /\ network \in Seq(AnyRoute)
    /\ DOMAIN cached \subseteq Server
    /\ \A s \in DOMAIN cached : cached[s] \in [val: IP \cup {NoIP}, age: 0..3]
    /\ phase \in {"idle", "list", "delete", "create"}
    /\ missing \subseteq Server
    /\ \A c \in CIDR : call[c] # Idle => phase = call[c].op
    /\ changes \in 0..MaxChanges /\ fails \in 0..MaxFails

\* A route that is right when the routes are listed, with a server that is no
\* news to the cache, is not deleted: pods do not lose their connection while
\* nothing changes and nothing fails.
RightRoutesStay == [][calm /\ calm' => Range(routes) \cap right \subseteq Range(routes')]_vars

\* Once servers and nodes no longer change, the routes of the cluster are the
\* wanted ones and stay so, whatever failed, was stale or was overwritten.
Settles == <>[]({r \in Range(routes) : r.dest \in CIDR} = Wanted)
=============================================================================
