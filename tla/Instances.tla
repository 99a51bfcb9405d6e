------------------------------ MODULE Instances ------------------------------
(***************************************************************************)
(* The methods of InstancesV2 (hcloud/instances.go, instances_util.go) and *)
(* the controllers of Kubernetes that call them: the node controller takes *)
(* provider id and addresses of a node from InstanceMetadata, and the node *)
(* lifecycle controller deletes a node when InstanceExists says no, and    *)
(* taints it when InstanceShutdown says yes.                               *)
(*                                                                         *)
(* lookupServer goes to the server cache and to the Robot client; both are *)
(* modelled by what the modules Cache and RobotClient show of them.  Their *)
(* answers come from the API as it is, or as it was when it was last       *)
(* listed (the views); only the cache looks again before it says nil.  The *)
(* list of the Robot client is used until its timeout has passed.          *)
(***************************************************************************)
EXTENDS Cloud, Sequences, FiniteSets, SequencesExt

CONSTANTS
    NodeName,          \* names of nodes of the cluster
    OtherName,         \* names that servers may have besides
    CloudId, RobotId,  \* ids of servers, one number may be both
    Absent,            \* no such server, no such node
    Nil,               \* the nil server, no list
    ProviderIDs,       \* provider ids a kubelet may register with
    KubeletIPs,        \* InternalIPs a kubelet registers a node with
    Starts,            \* the servers there are at the start, in the Cloud and in Robot
    MaxChanges         \* bound on the changes of servers

\* Texts are sequences of their parts; the number is the last of them.
NoProviderID == <<>>
prefixCloud == <<"hcloud://">>
prefixRobot == <<"hrobot://">>
prefixRobotLegacy == <<"hcloud://", "bm-">>

FromCloudServerID(id) == prefixCloud \o <<id>>
FromRobotServerNumber(id) == prefixRobot \o <<id>>

Families == {"ipv4", "ipv6"}

ServerName == NodeName \cup OtherName

\* Servers of the Cloud and of Robot; those in a tower case do not report
\* whether they are switched off.
CloudServer == [name: ServerName, off: BOOLEAN, nets: {{"ipv4", "private"}}, tower: {FALSE}]
RobotServer == [name: ServerName, off: BOOLEAN, nets: {{}}, tower: BOOLEAN]

\* What lookupServer may find in either API.
Findable == [kind: {"cloud"}, id: CloudId, server: CloudServer]
              \cup [kind: {"robot"}, id: RobotId, server: RobotServer]

\* An address and the family it belongs to; of says whose it is.
Address(of, family) == [of |-> of, family |-> family]

\* The nodes that there may be.
AnyProviderID ==
    {NoProviderID} \cup {FromCloudServerID(i) : i \in CloudId}
      \cup {FromRobotServerNumber(i) : i \in RobotId}
      \cup {prefixRobotLegacy \o <<i>> : i \in RobotId}

AnyAddress ==
    (UNION {KubeletIPs[n] : n \in NodeName})
      \cup {Address(<<kind, i>>, f) : kind \in {"cloud", "robot", "private"},
                                     i \in CloudId \cup RobotId, f \in Families}

Node ==
    [providerID: AnyProviderID, initialized: BOOLEAN, external: SUBSET AnyAddress,
     internal: SUBSET AnyAddress, shutdown: BOOLEAN]

ASSUME InstancesAssumption ==
    /\ MaxChanges \in Nat
    /\ \A f \in Findable : f # Nil
    /\ Absent \notin Node
    /\ \A n \in NodeName : \A a \in KubeletIPs[n] : a.family \in Families
    /\ \A st \in Starts :
        /\ st.cloud \in [CloudId -> {Absent} \cup CloudServer]
        /\ \A i, j \in CloudId : i # j /\ st.cloud[i] # Absent /\ st.cloud[j] # Absent
                                  => st.cloud[i].name # st.cloud[j].name
        /\ st.robot \in [RobotId -> {Absent} \cup RobotServer]

VARIABLES
    cloudSrv, robotSrv,    \* the APIs: each server, Absent if there is none
    cloudView, robotView,  \* the same when it was last listed; the Robot client's
                           \* list is Nil if there is none or it has expired
    steady,                \* history: the Robot server is as it is for longer
                           \* than the timeout of the client's list
    nodes,                 \* the nodes of the cluster
    changes

vars == <<cloudVars, cloudSrv, robotSrv, cloudView, robotView, steady, nodes, changes>>
serverVars == <<cloudSrv, robotSrv, cloudView, steady>>
apiVars == <<serverVars, robotView>>

-----------------------------------------------------------------------------
(* Data *)

\* A server of either API: its name, whether it is switched off, and the nets
\* it has an address of: the families of the public net, the private net.
Server(name, off, nets, tower) == [name |-> name, off |-> off, nets |-> nets, tower |-> tower]

\* A node as its kubelet registers it: to be initialized, with the addresses
\* of --node-ip.
NewNode(n, pid, ips) ==
    [providerID |-> pid, initialized |-> FALSE, external |-> {}, internal |-> ips, shutdown |-> FALSE]

\* What lookupServer found.
Found(kind, id, server) == [kind |-> kind, id |-> id, server |-> server]

\* Mutant of ToServerID: the prefixes are compared in another order.
ToServerID_CloudFirst(pid) ==
    LET prefix == CASE IsPrefix(prefixRobot, pid) -> prefixRobot
                    [] IsPrefix(prefixCloud, pid) -> prefixCloud
                    [] OTHER -> pid
        rest == SubSeq(pid, Len(prefix) + 1, Len(pid))
    IN  IF Len(rest) = 1 THEN [ok |-> TRUE, cloud |-> prefix = prefixCloud, id |-> rest[1]]
                         ELSE [ok |-> FALSE, cloud |-> FALSE, id |-> Nil]

\* providerid.ToServerID: the legacy prefix of Robot begins with the prefix of
\* Cloud servers and is compared first; what follows has to be a number.
ToServerID(pid) ==
    LET prefix == CASE IsPrefix(prefixRobot, pid) -> prefixRobot
                    [] IsPrefix(prefixRobotLegacy, pid) -> prefixRobotLegacy
                    [] IsPrefix(prefixCloud, pid) /\ ~IsPrefix(prefixRobotLegacy, pid) -> prefixCloud
                    [] OTHER -> pid
        rest == SubSeq(pid, Len(prefix) + 1, Len(pid))
    IN  IF Len(rest) = 1 THEN [ok |-> TRUE, cloud |-> prefix = prefixCloud, id |-> rest[1]]
                         ELSE [ok |-> FALSE, cloud |-> FALSE, id |-> Nil]

-----------------------------------------------------------------------------
(* Addresses *)

IPv4(c) == c.family \in {"ipv4", "dualstack"}
IPv6(c) == c.family \in {"ipv6", "dualstack"}

Wanted(c) == {f \in Families : (f = "ipv4" /\ IPv4(c)) \/ (f = "ipv6" /\ IPv6(c))}

\* hcloudNodeAddresses: public addresses that the server has, and the one in
\* the network.
HcloudNodeAddresses(f, c) ==
    [external |-> {Address(<<"cloud", f.id>>, y) : y \in Wanted(c) \cap f.server.nets},
     internal |-> IF networkID /\ "private" \in f.server.nets THEN {Address(<<"private", f.id>>, "ipv4")} ELSE {}]

\* Mutant of RobotNodeAddresses: dualstack is taken for IPv4 alone.
RobotNodeAddresses_IPv4Alone(f, node, c) ==
    LET external == {Address(<<"robot", f.id>>, y) : y \in Wanted(c)}
    IN  [external |-> external,
         internal |-> IF c.forwardInternalIPs
                        THEN {a \in node.internal : IF IPv4(c) THEN a.family = "ipv4" ELSE a.family = "ipv6"} \ external
                        ELSE {}]

\* robotNodeAddresses: Robot does not say which addresses a server has.  The
\* InternalIPs that the node already has are kept, if they are wanted and not
\* public.
RobotNodeAddresses(f, node, c) ==
    LET external == {Address(<<"robot", f.id>>, y) : y \in Wanted(c)}
    IN  [external |-> external,
         internal |-> IF c.forwardInternalIPs
                        THEN {a \in node.internal : a.family \in Wanted(c)} \ external ELSE {}]

\* What InstanceMetadata returns for the node.
Metadata(f, node) ==
    IF f.kind = "cloud"
      THEN [providerID |-> FromCloudServerID(f.id), addresses |-> HcloudNodeAddresses(f, cfg)]
      ELSE [providerID |-> FromRobotServerNumber(f.id), addresses |-> RobotNodeAddresses(f, node, cfg)]

-----------------------------------------------------------------------------
(* The clients *)

Named(srv, n) == {i \in DOMAIN srv : srv[i] # Absent /\ srv[i].name = n}

With(srv, i) == {j \in {i} \cap DOMAIN srv : srv[j] # Absent}

\* The server cache refreshes nothing in a mode it does not know, and with a
\* max age that is not positive what it refreshed has expired when it is looked up again.
Blind == cfg.mode # "off" /\ (~(cfg.mode \in {"all", "one"}) \/ cfg.maxAge <= 0)

\* The answers of the server cache, where current and listed are the ids that
\* match what is asked for, at the API and when it was last listed.
CloudAnswers(current, listed) ==
    {Found("cloud", i, cloudSrv[i]) : i \in current}
      \cup {Found("cloud", i, cloudView[i]) : i \in IF cfg.mode = "off" THEN {} ELSE listed}
      \cup IF Blind \/ current = {} THEN {Nil} ELSE {}

\* updateCacheIfNecessary: the list of the Robot client, which it asks for if
\* it has none.
RobotList == IF robotView = Nil THEN robotSrv ELSE robotView

\* The Robot client answers from its list.  The nil that a limited client may
\* return instead is the matter of module RobotClient.
RobotAnswers(listed) ==
    IF listed = {} THEN {Nil} ELSE {Found("robot", i, RobotList[i]) : i \in listed}

-----------------------------------------------------------------------------
(* The environment *)

Init ==
    /\ InitCloud
    /\ \E st \in Starts : cloudSrv = st.cloud /\ robotSrv = st.robot
    /\ cloudView = cloudSrv /\ robotView = Nil /\ steady = [i \in RobotId |-> TRUE]
    /\ nodes = [n \in NodeName |-> Absent]
    /\ changes = 0

\* The server srv becomes v, by one call; that it is switched on again is not
\* counted.
Change(srv, v) ==
    /\ srv # Absent /\ v # srv
    /\ v # Absent => v.tower = srv.tower /\ (v.name = srv.name \/ v.off = srv.off)
    /\ IF v = [srv EXCEPT !.off = FALSE]
         THEN UNCHANGED changes ELSE changes < MaxChanges /\ changes' = changes + 1

\* A server of the Cloud is deleted, switched on or off, or renamed.
ChangeCloud(i, v) ==
    /\ Change(cloudSrv[i], v)
    /\ v # Absent => Named(cloudSrv, v.name) \subseteq {i}
    /\ cloudSrv' = [cloudSrv EXCEPT ![i] = v]
    /\ UNCHANGED <<cloudVars, robotSrv, cloudView, robotView, steady, nodes>>

\* A server of Robot is given back, switched on or off, or renamed, maybe
\* because another cluster uses it now.
ChangeRobot(i, v) ==
    /\ Change(robotSrv[i], v)
    /\ robotSrv' = [robotSrv EXCEPT ![i] = v]
    /\ steady' = [steady EXCEPT ![i] = FALSE]
    /\ UNCHANGED <<cloudVars, cloudSrv, cloudView, robotView, nodes>>

\* The server cache lists the servers again.
Refresh ==
    /\ cloudView # cloudSrv /\ cloudView' = cloudSrv
    /\ UNCHANGED <<cloudVars, cloudSrv, robotSrv, robotView, steady, nodes, changes>>

\* The Load Balancer controller uses the Robot client, too.
ListRobots ==
    /\ stage = "up" /\ robotClient /\ robotView = Nil
    /\ robotView' = RobotList
    /\ UNCHANGED <<cloudVars, serverVars, nodes, changes>>

\* Mutant of Tick: the list does not expire.
Tick_KeepsList ==
    /\ steady' = [i \in RobotId |-> TRUE]
    /\ steady' # steady
    /\ UNCHANGED <<cloudVars, cloudSrv, robotSrv, cloudView, robotView, nodes, changes>>

\* The timeout of the Robot client's list passes.
Tick ==
    /\ robotView' = Nil /\ steady' = [i \in RobotId |-> TRUE]
    /\ <<robotView', steady'>> # <<robotView, steady>>
    /\ UNCHANGED <<cloudVars, cloudSrv, robotSrv, cloudView, nodes, changes>>

\* The kubelet of a server registers its node, maybe with a provider id of
\* its server.
Register(n, pid) ==
    /\ nodes[n] = Absent
    /\ \/ \E i \in Named(cloudSrv, n) :
            ~cloudSrv[i].off /\ pid \in {NoProviderID, FromCloudServerID(i)}
       \/ \E i \in Named(robotSrv, n) :
            /\ ~robotSrv[i].off
            /\ pid \in {NoProviderID, FromRobotServerNumber(i), prefixRobotLegacy \o <<i>>}
    /\ nodes' = [nodes EXCEPT ![n] = NewNode(n, pid, KubeletIPs[n])]
    /\ UNCHANGED <<cloudVars, apiVars, changes>>

\* What a provider id was made from: the kind and the id of a server.
KindOf(pid) == IF Len(pid) = 2 /\ pid[1] = "hcloud://" THEN "cloud" ELSE "robot"

ServerOf(pid) == (IF KindOf(pid) = "cloud" THEN cloudSrv ELSE robotSrv)[pid[Len(pid)]]

\* The kubelet of a server that runs reports its node ready, and the lifecycle
\* controller removes the taint.  A new name of a Cloud server changes nothing
\* on it; one of Robot has been set up again.
Ready(n) ==
    /\ nodes[n] # Absent /\ nodes[n].shutdown /\ nodes[n].providerID # NoProviderID
    /\ ServerOf(nodes[n].providerID) # Absent
    /\ ~ServerOf(nodes[n].providerID).off
    /\ KindOf(nodes[n].providerID) = "robot" => ServerOf(nodes[n].providerID).name = n
    /\ nodes' = [nodes EXCEPT ![n].shutdown = FALSE]
    /\ UNCHANGED <<cloudVars, apiVars, changes>>

-----------------------------------------------------------------------------
(* lookupServer *)

\* Mutant of First: the client of Robot is taken for granted.
First_NoClient(node) ==
    LET id == ToServerID(node.providerID)
    IN  CASE node.providerID = NoProviderID -> "cloudByName"
          [] node.providerID # NoProviderID /\ id.ok -> IF id.cloud THEN "cloudByID" ELSE "robotByID"
          [] OTHER -> "error"

\* Where the lookup for a node starts; an invalid provider id is an error, and
\* so is one of Robot without a client.
First(node) ==
    LET id == ToServerID(node.providerID)
    IN  CASE node.providerID = NoProviderID -> "cloudByName"
          [] node.providerID # NoProviderID /\ id.ok /\ id.cloud -> "cloudByID"
          [] node.providerID # NoProviderID /\ id.ok /\ ~id.cloud /\ robotClient -> "robotByID"
          [] OTHER -> "error"

Job(op, n, node) == [op |-> op, name |-> n, node |-> node, at |-> First(node), found |-> Nil]

Finish(k) == job' = [job EXCEPT ![k] = Idle]

Continue(k, at, found) == job' = [job EXCEPT ![k].at = at, ![k].found = found]

localVars == <<env, stage, cfg, robotClient, networkID, restarts>>

\* A controller looks at a node of its informer: the node controller for its
\* metadata, the lifecycle controller (if the node is not ready, which is left
\* open here) for its existence.
Begin(k, op, n) ==
    /\ stage = "up" /\ job[k] = Idle
    /\ nodes[n] # Absent
    /\ First(nodes[n]) # "error"
    /\ job' = [job EXCEPT ![k] = Job(op, n, nodes[n])]
    /\ UNCHANGED <<localVars, fails, apiVars, nodes, changes>>

CloudByID(k) ==
    /\ job[k].at = "cloudByID"
    /\ LET id == ToServerID(job[k].node.providerID).id
       IN  \E f \in CloudAnswers(With(cloudSrv, id), With(cloudView, id)) :
            Continue(k, "found", f)
    /\ UNCHANGED <<localVars, fails, apiVars, nodes, changes>>

CloudByName(k) ==
    /\ job[k].at = "cloudByName"
    /\ \E f \in CloudAnswers(Named(cloudSrv, job[k].name), Named(cloudView, job[k].name)) :
        Continue(k, IF robotClient THEN "robotByName" ELSE "found", f)
    /\ UNCHANGED <<localVars, fails, apiVars, nodes, changes>>

\* getRobotServerByName.  A server of that name in both APIs is an error.
RobotByName(k) ==
    /\ job[k].at = "robotByName"
    /\ \E f \in RobotAnswers(Named(RobotList, job[k].name)) :
        CASE f = Nil -> Continue(k, "found", job[k].found)
          [] f # Nil /\ job[k].found = Nil -> Continue(k, "found", f)
          [] OTHER -> Finish(k)
    /\ robotView' = RobotList
    /\ UNCHANGED <<localVars, fails, serverVars, nodes, changes>>

\* getRobotServerByID: a server that is not found is nil, and so is one that
\* was given another name.
RobotByID(k) ==
    /\ job[k].at = "robotByID"
    /\ \E f \in RobotAnswers(With(RobotList, ToServerID(job[k].node.providerID).id)) :
        Continue(k, "found", IF f # Nil /\ f.server.name = job[k].name THEN f ELSE Nil)
    /\ robotView' = RobotList
    /\ UNCHANGED <<localVars, fails, serverVars, nodes, changes>>

\* A call of an API fails, and with it the call of the controller.
CallFails(k) ==
    /\ job[k].at # "found"
    /\ fails < MaxFails /\ fails' = fails + 1
    /\ Finish(k)
    /\ UNCHANGED <<localVars, apiVars, nodes, changes>>

-----------------------------------------------------------------------------
(* What the controllers do with the answer *)

\* The node is deleted; what is under way for it comes to nothing, as the API
\* server refuses updates of a node that is no longer the same.
Delete(n) ==
    /\ nodes' = [nodes EXCEPT ![n] = Absent]
    /\ job' = [k \in Controller |->
                IF job[k] # Idle /\ job[k].name = n THEN Idle ELSE job[k]]

\* InstanceExists: the lifecycle controller deletes the node (by its name) if
\* there is no server, and asks for its state otherwise.
InstanceExists(k) ==
    /\ job[k].at = "found" /\ job[k].op = "exists"
    /\ IF job[k].found = Nil
         THEN Delete(job[k].name)
         ELSE /\ job' = [job EXCEPT ![k] = Job("shutdown", job[k].name, job[k].node)]
              /\ UNCHANGED nodes
    /\ UNCHANGED <<localVars, fails, apiVars, changes>>

\* The lifecycle controller taints the node.
Taint(n) == nodes' = [nodes EXCEPT ![n].shutdown = TRUE]

\* InstanceShutdown: no server is an error, a Cloud server knows its state, and
\* that of a Robot server is asked for.
InstanceShutdown(k) ==
    /\ job[k].at = "found" /\ job[k].op = "shutdown"
    /\ CASE job[k].found = Nil -> Finish(k) /\ UNCHANGED nodes
         [] job[k].found # Nil /\ job[k].found.kind = "cloud" ->
                /\ Finish(k)
                /\ IF job[k].found.server.off THEN Taint(job[k].name) ELSE UNCHANGED nodes
         [] OTHER -> Continue(k, "resetGet", job[k].found) /\ UNCHANGED nodes
    /\ UNCHANGED <<localVars, fails, apiVars, changes>>

\* ResetGet, which does not use the list: a server in a tower case is taken to
\* run, and one that is gone is an error.
ResetGet(k) ==
    LET server == robotSrv[job[k].found.id]
    IN  /\ job[k].at = "resetGet"
        /\ IF server # Absent /\ server.off /\ ~server.tower
             THEN Taint(job[k].name) ELSE UNCHANGED nodes
        /\ Finish(k)
        /\ UNCHANGED <<localVars, fails, apiVars, changes>>

\* The node controller sets the addresses of a node, and its provider id if it
\* has none.
Updated(node, md) ==
    [node EXCEPT !.providerID = IF @ = NoProviderID THEN md.providerID ELSE @,
                 !.initialized = TRUE,
                 !.external = md.addresses.external,
                 !.internal = md.addresses.internal]

\* InstanceMetadata: the node is updated if there is a server.
InstanceMetadata(k) ==
    LET n == job[k].name
        md == Metadata(job[k].found, job[k].node)
    IN  /\ job[k].at = "found" /\ job[k].op = "metadata"
        /\ IF job[k].found = Nil
             THEN UNCHANGED nodes
             ELSE nodes' = [nodes EXCEPT ![n] = Updated(@, md)]
        /\ Finish(k)
        /\ UNCHANGED <<localVars, fails, apiVars, changes>>

Step(k) ==
    /\ job[k] # Idle
    /\ \/ CloudByID(k) \/ CloudByName(k) \/ RobotByName(k) \/ RobotByID(k) \/ CallFails(k)
       \/ InstanceExists(k) \/ InstanceShutdown(k) \/ ResetGet(k) \/ InstanceMetadata(k)

\* The node controller asks for metadata, the lifecycle controller for the rest.
Asks(k) == IF k = "node" THEN "metadata" ELSE "exists"

\* A step of the process, which loses what was listed when it ends.
Process ==
    /\ NextCloud
    /\ cloudView' = IF stage' = "down" THEN cloudSrv ELSE cloudView
    /\ robotView' = IF stage' = "down" THEN Nil ELSE robotView
    /\ UNCHANGED <<cloudSrv, robotSrv, steady, nodes, changes>>

Next ==
    \/ Process \/ Refresh \/ ListRobots \/ Tick
    \/ \E i \in CloudId, v \in {Absent} \cup CloudServer : ChangeCloud(i, v)
    \/ \E i \in RobotId, v \in {Absent} \cup RobotServer : ChangeRobot(i, v)
    \/ \E n \in NodeName : Ready(n) \/ \E pid \in ProviderIDs : Register(n, pid)
    \/ \E k \in Controller : Step(k) \/ \E n \in NodeName : Begin(k, Asks(k), n)

\* The process is started until it runs, calls end, lists expire, nodes that
\* run become ready, and the controllers look at every node again and again.
Fairness ==
    /\ WF_vars(StartUp /\ UNCHANGED <<apiVars, nodes, changes>>)
    /\ WF_vars(Refresh) /\ WF_vars(Tick)
    /\ \A n \in NodeName : WF_vars(Ready(n))
    /\ \A k \in Controller :
        /\ WF_vars(Step(k))
        /\ \A n \in NodeName : SF_vars(Begin(k, Asks(k), n))

Spec == Init /\ [][Next]_vars /\ Fairness

-----------------------------------------------------------------------------
(* Properties *)

\* Types of the state.
TypeOK ==
    /\ env \in Environments
    /\ stage \in {"down", "network", "attached", "location", "up"}
    /\ cfg = Unset <=> stage = "down"
    /\ stage = "up" => networkID = cfg.network
    /\ \A k \in Controller : job[k] # Idle =>
        /\ job[k].at \in {"cloudByID", "cloudByName", "robotByName", "robotByID", "found", "resetGet"}
        /\ job[k].at \in {"robotByName", "robotByID", "resetGet"} => robotClient
    /\ \A n \in NodeName : nodes[n] # Absent =>
        /\ nodes[n].initialized => nodes[n].providerID # NoProviderID
        /\ nodes[n].initialized \in BOOLEAN /\ nodes[n].shutdown \in BOOLEAN
        /\ \A a \in nodes[n].external \cup nodes[n].internal : a.family \in Families
    /\ restarts \in 0..MaxRestarts /\ fails \in 0..MaxFails /\ changes \in 0..MaxChanges

\* The API with servers srv has no server for a node of name n whose provider
\* id says kind and id.
Missing(srv, kind, id, n) ==
    With(srv, id) = {} \/ (kind = "robot" /\ srv[id].name # n)

\* The server of node n does not exist.  What is known of Robot servers may be
\* as old as the list, so of those only the steady ones count.
GoneFor(n, pid) ==
    LET id == pid[Len(pid)]
    IN  IF KindOf(pid) = "cloud" THEN Missing(cloudSrv, "cloud", id, n)
        ELSE id \in RobotId /\ steady[id] => Missing(robotSrv, "robot", id, n)

\* The lookup of controller k ends without an error in this step.
Answered(k) == job[k] # Idle /\ job'[k] # Idle /\ job[k].at # "found" /\ job'[k].at = "found"

\* A server is only reported to be gone if it is: whatever the environment,
\* through restarts with other settings and without credentials, with stale
\* lists and every form of provider id ever used, InstanceExists says no for
\* a node with a provider id only when the API has no server for it at that
\* moment.  In Robot a server of another name is none for the node, and a server
\* that changed within the timeout of the list may still be unknown.  On that
\* answer the node is deleted.
GoneIsTrue ==
    [][\A k \in Controller : Answered(k) /\ job'[k].found = Nil /\ job[k].node.providerID # NoProviderID
            => GoneFor(job[k].name, job[k].node.providerID)]_vars

\* The node controller updates node n in this step.
Initialized(n) ==
    /\ nodes[n] # Absent /\ nodes'[n] # Absent
    /\ nodes'[n].initialized
    /\ nodes'[n].shutdown = nodes[n].shutdown /\ nodes'[n] # nodes[n]

\* The InternalIPs of a Robot node, which nobody but its kubelet knows, survive
\* every update of its addresses and every restart: an update is made from the
\* node that earlier updates wrote, and keeps every InternalIP of a family that
\* the environment asks for, unless it is public.
InternalIPKept ==
    [][\A k \in Controller :
        job[k] # Idle /\ job'[k] = Idle /\ Initialized(job[k].name) /\ job[k].found.kind = "robot"
          /\ env.forwardInternalIPs # FALSE =>
            \A a \in nodes[job[k].name].internal :
                Env(env.family, "ipv4") \in {a.family, "dualstack"}
                    => a \in nodes'[job[k].name].internal \cup nodes'[job[k].name].external]_vars

\* The node n is what its server makes it.
Right(n) ==
    LET node == nodes[n]
        pid == node.providerID
        id == pid[Len(pid)]
    IN  CASE pid = NoProviderID ->
                Named(robotSrv, n) # {} /\ (robotClient => Named(cloudSrv, n) # {})
          [] pid # NoProviderID /\ KindOf(pid) = "cloud" ->
                /\ ~Missing(cloudSrv, "cloud", id, n)
                /\ node.initialized
                /\ cloudSrv[id].off <=> node.shutdown
                /\ LET should == HcloudNodeAddresses(Found("cloud", id, cloudSrv[id]), cfg)
                   IN  node.external = should.external /\ node.internal = should.internal
          [] OTHER -> robotClient =>
                /\ ~Missing(robotSrv, "robot", id, n)
                /\ node.initialized
                /\ robotSrv[id].off /\ ~robotSrv[id].tower <=> node.shutdown
                /\ LET should == RobotNodeAddresses(Found("robot", id, robotSrv[id]), node, cfg)
                   IN  node.external = should.external /\ node.internal = should.internal

\* Once nothing changes any more, the process runs if its environment allows
\* it, nodes without a server are gone, and the others are initialized, with
\* the addresses of their servers and the taint of those that are shut down and
\* say so; but for names that both APIs know, and Robot servers without
\* credentials.
Settles ==
    <>[](Deployable(env) => stage = "up" /\ \A n \in NodeName : nodes[n] # Absent => Right(n))
=============================================================================
