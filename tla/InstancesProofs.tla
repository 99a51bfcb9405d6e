--------------------------- MODULE InstancesProofs ---------------------------
(***************************************************************************)
(* Proofs about Instances.  A lookup is a sequence of calls that starts    *)
(* from a copy of a node and from what the process was started with, while *)
(* servers, lists, nodes and the deployment change.  The invariant says    *)
(* what the copy and the place of a lookup still have to do with the node, *)
(* with its provider id and with the settings.                             *)
(***************************************************************************)
EXTENDS Instances, SequenceTheorems, TLAPS

-----------------------------------------------------------------------------
(* Provider ids *)

\* The forms that provider ids of nodes have.
IsProviderID(pid) ==
    \/ pid = NoProviderID
    \/ \E i : pid \in {FromCloudServerID(i), FromRobotServerNumber(i), prefixRobotLegacy \o <<i>>}

\* Texts that are joined from their parts.
LEMMA JoinTwo ==
    ASSUME NEW a, NEW b
    PROVE  <<a>> \o <<b>> = <<a, b>>
<1> DEFINE S == {a, b}
           s == <<a>> \o <<b>>
           t == <<a, b>>
<1>1. s \in Seq(S) /\ Len(s) = 2 /\ s[1] = a /\ s[2] = b
  OBVIOUS
<1>2. t \in Seq(S) /\ Len(t) = 2 /\ t[1] = a /\ t[2] = b
  OBVIOUS
<1> HIDE DEF S, s, t
<1>3. \A i \in 1..Len(s) : s[i] = t[i]
  BY <1>1, <1>2
<1>4. s = t
  BY <1>1, <1>2, <1>3, SeqEqual
<1>q. QED
  BY <1>4 DEF s, t

LEMMA JoinThree ==
    ASSUME NEW a, NEW b, NEW c
    PROVE  <<a, b>> \o <<c>> = <<a, b, c>>
<1> DEFINE S == {a, b, c}
           s == <<a, b>> \o <<c>>
           t == <<a, b, c>>
<1>1. s \in Seq(S) /\ Len(s) = 3 /\ s[1] = a /\ s[2] = b /\ s[3] = c
  OBVIOUS
<1>2. t \in Seq(S) /\ Len(t) = 3 /\ t[1] = a /\ t[2] = b /\ t[3] = c
  OBVIOUS
<1> HIDE DEF S, s, t
<1>3. \A i \in 1..Len(s) : s[i] = t[i]
  BY <1>1, <1>2
<1>4. s = t
  BY <1>1, <1>2, <1>3, SeqEqual
<1>q. QED
  BY <1>4 DEF s, t

\* ToServerID reads each form the way it was made: none of them is taken for
\* the other kind of server.
LEMMA ReadsWhatWasMade ==
    ASSUME NEW pid, IsProviderID(pid), ToServerID(pid).ok
    PROVE  /\ ToServerID(pid).cloud \in BOOLEAN
           /\ ToServerID(pid).id = pid[Len(pid)]
           /\ KindOf(pid) = IF ToServerID(pid).cloud THEN "cloud" ELSE "robot"
<1>1. ASSUME NEW a, NEW x, NEW y PROVE IsPrefix(<<a>>, <<x, y>>) <=> a = x
  BY DEF IsPrefix
<1>2. ASSUME NEW a, NEW x, NEW y, NEW z PROVE IsPrefix(<<a>>, <<x, y, z>>) <=> a = x
  BY DEF IsPrefix
<1>3. ASSUME NEW a, NEW b, NEW x, NEW y PROVE IsPrefix(<<a, b>>, <<x, y>>) <=> a = x /\ b = y
  BY DEF IsPrefix
<1>4. ASSUME NEW a, NEW b, NEW x, NEW y, NEW z
      PROVE  IsPrefix(<<a, b>>, <<x, y, z>>) <=> a = x /\ b = y
  BY DEF IsPrefix
<1>5. CASE pid = NoProviderID
  <2>1. ~IsPrefix(prefixRobot, pid) /\ ~IsPrefix(prefixRobotLegacy, pid) /\ ~IsPrefix(prefixCloud, pid)
    BY <1>5 DEF IsPrefix, NoProviderID, prefixRobot, prefixRobotLegacy, prefixCloud
  <2>2. Len(SubSeq(pid, Len(pid) + 1, Len(pid))) # 1
    BY <1>5 DEF NoProviderID
  <2>q. QED
    BY <2>1, <2>2 DEF ToServerID
<1>6. CASE \E i : pid = FromCloudServerID(i)
  <2>1. PICK i : pid = <<"hcloud://", i>>
    BY <1>6, JoinTwo DEF FromCloudServerID, prefixCloud
  <2>2. ~IsPrefix(prefixRobot, pid) /\ IsPrefix(prefixCloud, pid)
        /\ (IsPrefix(prefixRobotLegacy, pid) <=> i = "bm-")
    BY <2>1, <1>1, <1>3 DEF prefixRobot, prefixCloud, prefixRobotLegacy
  <2>3. CASE i = "bm-"
    <3>1. Len(SubSeq(pid, Len(prefixRobotLegacy) + 1, Len(pid))) # 1
      BY <2>1 DEF prefixRobotLegacy
    <3>q. QED
      BY <3>1, <2>2, <2>3 DEF ToServerID
  <2>4. CASE i # "bm-"
    <3>1. /\ Len(SubSeq(pid, Len(prefixCloud) + 1, Len(pid))) = 1
          /\ SubSeq(pid, Len(prefixCloud) + 1, Len(pid))[1] = i
      BY <2>1 DEF prefixCloud
    <3>2. ToServerID(pid) = [ok |-> TRUE, cloud |-> TRUE, id |-> i]
      BY <3>1, <2>2, <2>4 DEF ToServerID
    <3>q. QED
      BY <3>2, <2>1 DEF KindOf
  <2>q. QED
    BY <2>3, <2>4
<1>7. CASE \E i : pid = FromRobotServerNumber(i)
  <2>1. PICK i : pid = <<"hrobot://", i>>
    BY <1>7, JoinTwo DEF FromRobotServerNumber, prefixRobot
  <2>2. IsPrefix(prefixRobot, pid) /\ ~IsPrefix(prefixCloud, pid) /\ ~IsPrefix(prefixRobotLegacy, pid)
    BY <2>1, <1>1, <1>3 DEF prefixRobot, prefixCloud, prefixRobotLegacy
  <2>3. /\ Len(SubSeq(pid, Len(prefixRobot) + 1, Len(pid))) = 1 /\ prefixRobot # prefixCloud
        /\ SubSeq(pid, Len(prefixRobot) + 1, Len(pid))[1] = i
    BY <2>1 DEF prefixRobot, prefixCloud
  <2>4. ToServerID(pid) = [ok |-> TRUE, cloud |-> FALSE, id |-> i]
    BY <2>2, <2>3 DEF ToServerID
  <2>q. QED
    BY <2>4, <2>1 DEF KindOf
<1>8. CASE \E i : pid = prefixRobotLegacy \o <<i>>
  <2>1. PICK i : pid = <<"hcloud://", "bm-", i>>
    BY <1>8, JoinThree DEF prefixRobotLegacy
  <2>2. ~IsPrefix(prefixRobot, pid) /\ IsPrefix(prefixRobotLegacy, pid)
    BY <2>1, <1>2, <1>4 DEF prefixRobot, prefixRobotLegacy
  <2>3. /\ Len(SubSeq(pid, Len(prefixRobotLegacy) + 1, Len(pid))) = 1 /\ prefixRobotLegacy # prefixCloud
        /\ SubSeq(pid, Len(prefixRobotLegacy) + 1, Len(pid))[1] = i
    BY <2>1 DEF prefixRobotLegacy, prefixCloud
  <2>4. ToServerID(pid) = [ok |-> TRUE, cloud |-> FALSE, id |-> i]
    BY <2>2, <2>3 DEF ToServerID
  <2>q. QED
    BY <2>4, <2>1 DEF KindOf
<1>q. QED
  BY <1>5, <1>6, <1>7, <1>8 DEF IsProviderID

-----------------------------------------------------------------------------
(* The inductive invariant *)

\* What the process has read is what it was deployed with, and valid.
StartInv ==
    /\ env \in Environments
    /\ stage \in {"down", "network", "attached", "location", "up"}
    /\ stage = "down" => cfg = Unset /\ robotClient = FALSE /\ networkID = FALSE
    /\ stage # "down" => cfg = Read(env) /\ Validate(Read(env))
    /\ stage = "network" => networkID = FALSE /\ Read(env).network = TRUE
    /\ stage = "attached" => networkID = TRUE /\ Read(env).network = TRUE
    /\ stage \in {"location", "up"} => networkID = Read(env).network
    /\ robotClient \in BOOLEAN
    /\ robotClient = TRUE => Read(env).robot = TRUE
    /\ restarts \in 0..MaxRestarts /\ fails \in 0..MaxFails /\ changes \in 0..MaxChanges

\* The lists hold servers of their API, and a Robot server that is steady is as
\* the list of the client says.
ServersInv ==
    /\ cloudSrv \in [CloudId -> {Absent} \cup CloudServer]
    /\ cloudView \in [CloudId -> {Absent} \cup CloudServer]
    /\ robotSrv \in [RobotId -> {Absent} \cup RobotServer]
    /\ RobotList \in [RobotId -> {Absent} \cup RobotServer]
    /\ steady \in [RobotId -> BOOLEAN]
    /\ \A i \in RobotId : steady[i] => RobotList[i] = robotSrv[i]

\* A node that has been initialized has a provider id.
NodesInv ==
    /\ nodes \in [NodeName -> {Absent} \cup Node]
    /\ \A n \in NodeName :
        nodes[n] # Absent /\ nodes[n].initialized = TRUE => nodes[n].providerID # NoProviderID

\* A job has a node that exists and a place that fits the provider id of its
\* copy of the node and the clients of the process; and nobody but the node
\* controller changes the InternalIPs of a node.
GoodJob(k) ==
    LET j == job[k]
    IN  /\ j \in [op: {"metadata", "exists", "shutdown"}, name: NodeName, node: Node,
                  at: {"cloudByID", "cloudByName", "robotByName", "robotByID", "found", "resetGet"},
                  found: {Nil} \cup Findable]
        /\ stage = "up" /\ nodes[j.name] # Absent
        /\ First(j.node) # "error"
        /\ j.at \in {"cloudByID", "robotByID"} => First(j.node) = j.at
        /\ j.at \in {"cloudByName", "robotByName"} => j.node.providerID = NoProviderID
        /\ j.at \in {"robotByName", "robotByID", "resetGet"} => robotClient = TRUE
        /\ j.found # Nil /\ j.found.kind = "robot" => robotClient = TRUE
        /\ j.op = "metadata" => k = "node" /\ j.node.internal = nodes[j.name].internal

JobsInv == DOMAIN job = Controller /\ \A k \in Controller : job[k] # Idle => GoodJob(k)

InstInv == StartInv /\ ServersInv /\ NodesInv /\ JobsInv

-----------------------------------------------------------------------------
(* The process *)

\* Steps that are not steps of the process leave it as it is.
LEMMA OnlyCloud ==
    ASSUME [Next]_vars
    PROVE  \/ NextCloud /\ UNCHANGED changes
           \/ /\ UNCHANGED localVars
              /\ fails' = fails \/ (fails < MaxFails /\ fails' = fails + 1)
              /\ changes' = changes \/ (changes < MaxChanges /\ changes' = changes + 1)
<1>1. CASE UNCHANGED vars
  BY <1>1 DEF vars, cloudVars, localVars
<1>2. CASE Refresh \/ ListRobots \/ Tick
  BY <1>2 DEF Refresh, ListRobots, Tick, cloudVars, localVars
<1>3. CASE \E i, v : ChangeCloud(i, v) \/ ChangeRobot(i, v)
  BY <1>3 DEF ChangeCloud, ChangeRobot, Change, cloudVars, localVars
<1>4. CASE \E n : Ready(n) \/ \E pid : Register(n, pid)
  BY <1>4 DEF Ready, Register, cloudVars, localVars
<1>5. CASE \E k \in Controller : Step(k) \/ \E n : Begin(k, Asks(k), n)
  BY <1>5 DEF Step, Begin, CloudByID, CloudByName, RobotByName, RobotByID, CallFails,
              InstanceExists, InstanceShutdown, ResetGet, InstanceMetadata
<1>q. QED
  BY <1>1, <1>2, <1>3, <1>4, <1>5 DEF Next, Process

LEMMA StartStays == StartInv /\ [Next]_vars => StartInv'
<1> SUFFICES ASSUME StartInv, [Next]_vars PROVE StartInv'
  OBVIOUS
<1>0. MaxRestarts \in Nat /\ MaxFails \in Nat /\ MaxChanges \in Nat
  BY CloudAssumption, InstancesAssumption
<1>e. \A e \in Environments : Read(e).network \in BOOLEAN /\ Read(e).robot \in BOOLEAN
                              /\ Read(e).user \in BOOLEAN /\ Read(e).password \in BOOLEAN
                              /\ Read(e).attachedCheck \in BOOLEAN
  BY CloudAssumption DEF Environment, Read, Env
<1>x. ASSUME Exit, env' \in Environments,
             restarts' \in 0..MaxRestarts /\ fails' \in 0..MaxFails /\ changes' \in 0..MaxChanges
      PROVE  StartInv'
  <2>1. /\ stage' = "down" /\ stage' \notin {"network", "attached", "location", "up"}
        /\ cfg' = Unset /\ robotClient' = FALSE /\ networkID' = FALSE
    BY <1>x DEF Exit
  <2>q. QED
    BY <2>1, <1>x, Zenon DEF StartInv
<1>1. CASE /\ UNCHANGED localVars
           /\ fails' = fails \/ (fails < MaxFails /\ fails' = fails + 1)
           /\ changes' = changes \/ (changes < MaxChanges /\ changes' = changes + 1)
  BY <1>0, <1>1 DEF StartInv, localVars
<1>2. CASE Boot /\ UNCHANGED changes
  BY <1>2, <1>e DEF Boot, StartInv
<1>3. CASE GetNetwork /\ UNCHANGED changes
  BY <1>3, <1>e DEF GetNetwork, StartInv
<1>4. CASE CheckAttached /\ UNCHANGED changes
  BY <1>4 DEF CheckAttached, StartInv
<1>5. CASE ListLocations /\ UNCHANGED changes
  BY <1>5 DEF ListLocations, StartInv
<1>6. CASE StartFails /\ UNCHANGED changes
  <2>1. restarts' \in 0..MaxRestarts /\ fails' \in 0..MaxFails /\ changes' \in 0..MaxChanges
    BY <1>0, <1>6 DEF StartFails, StartInv
  <2>2. env' \in Environments
    BY <1>6 DEF StartFails, StartInv
  <2>q. QED
    BY <2>1, <2>2, <1>6, <1>x DEF StartFails
<1>7. CASE (\E e \in Environments : Restart(e)) /\ UNCHANGED changes
  <2>1. restarts' \in 0..MaxRestarts /\ fails' \in 0..MaxFails /\ changes' \in 0..MaxChanges
    BY <1>0, <1>7 DEF Restart, StartInv
  <2>2. env' \in Environments /\ Exit
    BY <1>7 DEF Restart
  <2>q. QED
    BY <2>1, <2>2, <1>x
<1>q. QED
  BY <1>1, <1>2, <1>3, <1>4, <1>5, <1>6, <1>7, OnlyCloud DEF NextCloud, StartUp

\* The list of the Robot client after it was looked at, or has been dropped.
LEMMA ListStays ==
    ASSUME ServersInv, robotView' \in {robotView, Nil, RobotList},
           UNCHANGED <<cloudSrv, robotSrv, steady>>, cloudView' \in {cloudView, cloudSrv}
    PROVE  ServersInv'
<1>1. RobotList' \in {RobotList, robotSrv}
  BY DEF RobotList
<1>q. QED
  BY <1>1 DEF ServersInv

\* The steps of the controllers change no server.
LEMMA StepServers ==
    ASSUME NEW k \in Controller, Step(k) \/ \E n \in NodeName : Begin(k, Asks(k), n)
    PROVE  UNCHANGED serverVars /\ robotView' \in {robotView, RobotList}
<1>1. CASE \E n \in NodeName : Begin(k, Asks(k), n)
  BY <1>1 DEF Begin, apiVars
<1>2. CASE Step(k)
  BY <1>2 DEF Step, CloudByID, CloudByName, RobotByName, RobotByID, CallFails,
              InstanceExists, InstanceShutdown, ResetGet, InstanceMetadata, apiVars
<1>q. QED
  BY <1>1, <1>2

LEMMA ServersStay == ServersInv /\ [Next]_vars => ServersInv'
<1> SUFFICES ASSUME ServersInv, [Next]_vars PROVE ServersInv'
  OBVIOUS
<1>1. CASE UNCHANGED apiVars
  BY <1>1, ListStays DEF apiVars, serverVars
<1>2. CASE Refresh \/ ListRobots
  BY <1>2, ListStays DEF Refresh, ListRobots, serverVars
<1>3. CASE \E i \in CloudId, v \in {Absent} \cup CloudServer : ChangeCloud(i, v)
  BY <1>3 DEF ChangeCloud, ServersInv, RobotList
<1>4. ASSUME NEW i \in RobotId, NEW v \in {Absent} \cup RobotServer, ChangeRobot(i, v)
      PROVE  ServersInv'
  <2>1. /\ robotSrv' = [robotSrv EXCEPT ![i] = v] /\ steady' = [steady EXCEPT ![i] = FALSE]
        /\ UNCHANGED <<cloudSrv, cloudView, robotView>>
    BY <1>4 DEF ChangeRobot
  <2>2. RobotList' = RobotList \/ RobotList' = robotSrv'
    BY <2>1 DEF RobotList
  <2>3. /\ robotSrv' \in [RobotId -> {Absent} \cup RobotServer] /\ steady' \in [RobotId -> BOOLEAN]
        /\ RobotList' \in [RobotId -> {Absent} \cup RobotServer]
    BY <2>1, <2>2 DEF ServersInv
  <2>4. \A j \in RobotId : steady'[j] => RobotList'[j] = robotSrv'[j]
    BY <2>1, <2>2 DEF ServersInv
  <2>q. QED
    BY <2>1, <2>3, <2>4 DEF ServersInv
<1>5. CASE \E n \in NodeName : Ready(n) \/ \E pid \in ProviderIDs : Register(n, pid)
  BY <1>1, <1>5 DEF Ready, Register
<1>6. CASE \E k \in Controller : Step(k) \/ \E n \in NodeName : Begin(k, Asks(k), n)
  BY <1>6, StepServers, ListStays DEF serverVars
<1>7. CASE UNCHANGED vars
  BY <1>1, <1>7 DEF vars, apiVars, serverVars
<1>8. CASE Process
  BY <1>8, ListStays DEF Process
<1>9. CASE Tick
  <2>1. RobotList' = robotSrv' /\ steady' \in [RobotId -> BOOLEAN] /\ UNCHANGED <<cloudSrv, cloudView, robotSrv>>
    BY <1>9 DEF Tick, RobotList
  <2>q. QED
    BY <2>1 DEF ServersInv
<1>q. QED
  BY <1>1, <1>2, <1>3, <1>4, <1>5, <1>6, <1>7, <1>8, <1>9 DEF Next

-----------------------------------------------------------------------------
(* The answers of the clients *)

\* An answer of the server cache is a server of the Cloud, or nil: then there
\* is none that matches, or the cache cannot see.
LEMMA CloudAnswer ==
    ASSUME ServersInv, NEW current, NEW listed,
           \A i \in current : i \in CloudId /\ cloudSrv[i] # Absent,
           \A i \in listed : i \in CloudId /\ cloudView[i] # Absent,
           NEW f \in CloudAnswers(current, listed)
    PROVE  \/ f = Nil /\ (Blind \/ current = {})
           \/ f \in Findable /\ f # Nil /\ f.kind = "cloud"
<1>1. ASSUME NEW i \in CloudId, NEW v \in CloudServer
      PROVE  Found("cloud", i, v) \in Findable /\ Found("cloud", i, v).kind = "cloud"
  BY DEF Found, Findable
<1>2. CASE \E i \in current : f = Found("cloud", i, cloudSrv[i])
  <2>1. PICK i \in current : f = Found("cloud", i, cloudSrv[i])
    BY <1>2
  <2>2. cloudSrv[i] \in CloudServer
    BY DEF ServersInv
  <2>q. QED
    BY <2>1, <2>2, <1>1, InstancesAssumption
<1>3. CASE \E i \in listed : f = Found("cloud", i, cloudView[i])
  <2>1. PICK i \in listed : f = Found("cloud", i, cloudView[i])
    BY <1>3
  <2>2. cloudView[i] \in CloudServer
    BY DEF ServersInv
  <2>q. QED
    BY <2>1, <2>2, <1>1, InstancesAssumption
<1>4. CASE f = Nil /\ (Blind \/ current = {})
  BY <1>4
<1>q. QED
  BY <1>2, <1>3, <1>4 DEF CloudAnswers

\* An answer of the Robot client is a server of its list, or nil if none there
\* matches.
LEMMA RobotAnswer ==
    ASSUME ServersInv, NEW listed, \A i \in listed : i \in RobotId /\ RobotList[i] # Absent,
           NEW f \in RobotAnswers(listed)
    PROVE  \/ f = Nil /\ listed = {}
           \/ /\ f \in Findable /\ f # Nil /\ f.kind = "robot"
              /\ \E i \in listed : f.server = RobotList[i]
<1>1. CASE listed = {}
  BY <1>1 DEF RobotAnswers
<1>2. CASE listed # {}
  <2>1. PICK i \in listed : f = Found("robot", i, RobotList[i])
    BY <1>2 DEF RobotAnswers
  <2>2. RobotList[i] \in RobotServer
    BY DEF ServersInv
  <2>3. f \in Findable /\ f.kind = "robot" /\ f.server = RobotList[i]
    BY <2>1, <2>2 DEF Found, Findable
  <2>q. QED
    BY <2>3, InstancesAssumption
<1>q. QED
  BY <1>1, <1>2

-----------------------------------------------------------------------------
(* Nodes *)

\* The addresses of a server are addresses of a known family.
LEMMA AddressFamily ==
    ASSUME NEW a \in AnyAddress
    PROVE  a.family \in Families
BY InstancesAssumption DEF AnyAddress, Address

\* What InstanceMetadata answers fits into a node.
LEMMA MetadataOK ==
    ASSUME NEW f \in Findable, NEW node \in Node
    PROVE  /\ Metadata(f, node).providerID \in AnyProviderID \ {NoProviderID}
           /\ Metadata(f, node).addresses.external \in SUBSET AnyAddress
           /\ Metadata(f, node).addresses.internal \in SUBSET AnyAddress
<1>w. Wanted(cfg) \subseteq Families /\ "ipv4" \in Families
  BY DEF Wanted, Families
<1>a. ASSUME NEW kind \in {"cloud", "robot", "private"}, NEW i \in CloudId \cup RobotId,
             NEW y \in Families
      PROVE  Address(<<kind, i>>, y) \in AnyAddress
  BY DEF AnyAddress
<1>1. CASE f.kind = "cloud"
  <2>1. f.id \in CloudId
    BY <1>1 DEF Findable
  <2>2. FromCloudServerID(f.id) \in AnyProviderID \ {NoProviderID}
    <3>1. FromCloudServerID(f.id) = <<"hcloud://", f.id>>
      BY JoinTwo DEF FromCloudServerID, prefixCloud
    <3>2. FromCloudServerID(f.id) # NoProviderID
      BY <3>1 DEF NoProviderID
    <3>q. QED
      BY <3>2, <2>1 DEF AnyProviderID
  <2>3. /\ HcloudNodeAddresses(f, cfg).external \in SUBSET AnyAddress
        /\ HcloudNodeAddresses(f, cfg).internal \in SUBSET AnyAddress
    BY <2>1, <1>a, <1>w DEF HcloudNodeAddresses
  <2>q. QED
    BY <1>1, <2>2, <2>3 DEF Metadata
<1>2. CASE f.kind # "cloud"
  <2>1. f.id \in RobotId
    BY <1>2 DEF Findable
  <2>2. FromRobotServerNumber(f.id) \in AnyProviderID \ {NoProviderID}
    <3>1. FromRobotServerNumber(f.id) = <<"hrobot://", f.id>>
      BY JoinTwo DEF FromRobotServerNumber, prefixRobot
    <3>2. FromRobotServerNumber(f.id) # NoProviderID
      BY <3>1 DEF NoProviderID
    <3>q. QED
      BY <3>2, <2>1 DEF AnyProviderID
  <2>3. /\ RobotNodeAddresses(f, node, cfg).external \in SUBSET AnyAddress
        /\ RobotNodeAddresses(f, node, cfg).internal \in SUBSET AnyAddress
    BY <2>1, <1>a, <1>w DEF RobotNodeAddresses, Node
  <2>q. QED
    BY <1>2, <2>2, <2>3 DEF Metadata
<1>q. QED
  BY <1>1, <1>2

\* Updated: the node stays one, and has a provider id.
LEMMA UpdatedOK ==
    ASSUME NEW x \in Node, NEW f \in Findable, NEW node \in Node, NEW y,
           y = Updated(x, Metadata(f, node))
    PROVE  y \in Node /\ y.providerID # NoProviderID
<1> DEFINE md == Metadata(f, node)
<1>1. /\ md.providerID \in AnyProviderID \ {NoProviderID}
      /\ md.addresses.external \in SUBSET AnyAddress /\ md.addresses.internal \in SUBSET AnyAddress
  BY MetadataOK
<1> HIDE DEF md
<1>2. y = Updated(x, md)
  BY DEF md
<1>q. QED
  BY <1>1, <1>2 DEF Updated, Node

LEMMA TaintOK ==
    ASSUME NEW x \in Node, NEW b \in BOOLEAN, NEW y, y = [x EXCEPT !.shutdown = b]
    PROVE  y \in Node /\ y.initialized = x.initialized /\ y.providerID = x.providerID
           /\ y.internal = x.internal
BY DEF Node

\* How a step may change a node.
NodeChange(n) ==
    \/ nodes'[n] = nodes[n]
    \/ nodes[n] = Absent /\ nodes'[n] \in Node /\ nodes'[n].initialized = FALSE
    \/ /\ nodes[n] # Absent
       /\ \E b \in BOOLEAN : nodes'[n] = [nodes[n] EXCEPT !.shutdown = b]
    \/ nodes'[n] = Absent /\ \A k \in Controller : job'[k] # Idle => job'[k].name # n
    \/ /\ nodes[n] # Absent
       /\ \E k \in Controller :
            /\ job[k] # Idle /\ job[k].op = "metadata" /\ job[k].name = n /\ job[k].found \in Findable
            /\ job' = [job EXCEPT ![k] = Idle]
            /\ nodes'[n] = Updated(nodes[n], Metadata(job[k].found, job[k].node))

LEMMA NodeSteps ==
    ASSUME InstInv, [Next]_vars
    PROVE  /\ nodes' = [n \in NodeName |-> nodes'[n]]
           /\ \A n \in NodeName : NodeChange(n)
<1>0. /\ nodes \in [NodeName -> {Absent} \cup Node] /\ DOMAIN job = Controller
      /\ \A k \in Controller : job[k] # Idle =>
            job[k].name \in NodeName /\ nodes[job[k].name] # Absent
            /\ job[k].found \in {Nil} \cup Findable
  BY DEF InstInv, NodesInv, JobsInv, GoodJob
<1> DEFINE Goal == /\ nodes' = [n \in NodeName |-> nodes'[n]]
                   /\ \A n \in NodeName : NodeChange(n)
<1>1. ASSUME UNCHANGED nodes PROVE Goal
  BY <1>0, <1>1 DEF NodeChange
<1>2. ASSUME NEW m \in NodeName, NEW x, nodes' = [nodes EXCEPT ![m] = x], NodeChange(m) PROVE Goal
  <2>1. nodes' = [n \in NodeName |-> nodes'[n]] /\ \A n \in NodeName : n # m => nodes'[n] = nodes[n]
    BY <1>0, <1>2
  <2>2. \A n \in NodeName : NodeChange(n)
    BY <2>1, <1>2 DEF NodeChange
  <2>q. QED
    BY <2>1, <2>2
<1> HIDE DEF Goal
<1>3. ASSUME NEW k \in Controller, job[k] # Idle, Taint(job[k].name) PROVE Goal
  <2> DEFINE m == job[k].name
  <2>1. m \in NodeName /\ nodes' = [nodes EXCEPT ![m] = [nodes[m] EXCEPT !.shutdown = TRUE]]
    BY <1>0, <1>3 DEF Taint
  <2>2. NodeChange(m)
    BY <2>1, <1>0, <1>3 DEF NodeChange
  <2>q. QED
    BY <2>1, <2>2, <1>2
<1>4. ASSUME Process \/ UNCHANGED vars \/ Refresh \/ ListRobots \/ Tick
      PROVE  Goal
  <2>1. UNCHANGED nodes
    BY <1>4 DEF vars, Process, Refresh, ListRobots, Tick
  <2>q. QED
    BY <2>1, <1>1
<1>5. ASSUME \E i, v : ChangeCloud(i, v) \/ ChangeRobot(i, v) PROVE Goal
  <2>1. UNCHANGED nodes
    BY <1>5 DEF ChangeCloud, ChangeRobot
  <2>q. QED
    BY <2>1, <1>1
<1>6. ASSUME NEW n \in NodeName, Ready(n) PROVE Goal
  <2>1. nodes' = [nodes EXCEPT ![n] = [nodes[n] EXCEPT !.shutdown = FALSE]] /\ nodes[n] # Absent
    BY <1>6 DEF Ready
  <2>2. NodeChange(n)
    BY <2>1, <1>0 DEF NodeChange
  <2>q. QED
    BY <2>1, <2>2, <1>2
<1>7. ASSUME NEW n \in NodeName, NEW pid, Register(n, pid) PROVE Goal
  <2>1. nodes' = [nodes EXCEPT ![n] = NewNode(n, pid, KubeletIPs[n])] /\ nodes[n] = Absent
    BY <1>7 DEF Register
  <2>2. pid \in AnyProviderID
    <3>1. CASE \E i \in Named(cloudSrv, n) : pid \in {NoProviderID, FromCloudServerID(i)}
      <4>1. \A i \in Named(cloudSrv, n) : i \in CloudId
        BY DEF Named, InstInv, ServersInv
      <4>q. QED
        BY <3>1, <4>1 DEF AnyProviderID
    <3>2. CASE \E i \in Named(robotSrv, n) :
                 pid \in {NoProviderID, FromRobotServerNumber(i), prefixRobotLegacy \o <<i>>}
      <4>1. \A i \in Named(robotSrv, n) : i \in RobotId
        BY DEF Named, InstInv, ServersInv
      <4>q. QED
        BY <3>2, <4>1 DEF AnyProviderID
    <3>q. QED
      BY <3>1, <3>2, <1>7 DEF Register
  <2>3. KubeletIPs[n] \in SUBSET AnyAddress
    BY DEF AnyAddress
  <2>4. NewNode(n, pid, KubeletIPs[n]) \in Node /\ NewNode(n, pid, KubeletIPs[n]).initialized = FALSE
    BY <2>2, <2>3 DEF NewNode, Node
  <2>5. nodes'[n] = NewNode(n, pid, KubeletIPs[n])
    BY <2>1, <1>0
  <2>6. NodeChange(n)
    BY <2>1, <2>4, <2>5 DEF NodeChange
  <2>q. QED
    BY <2>1, <2>6, <1>2
<1>8. ASSUME NEW k \in Controller, Step(k) PROVE Goal
  <2>0. job[k] # Idle
    BY <1>8 DEF Step
  <2>1. CASE CloudByID(k) \/ CloudByName(k) \/ RobotByName(k) \/ RobotByID(k) \/ CallFails(k)
    BY <2>1, <1>1 DEF CloudByID, CloudByName, RobotByName, RobotByID, CallFails
  <2>2. CASE InstanceExists(k)
    <3>1. CASE UNCHANGED nodes
      BY <3>1, <1>1
    <3>2. CASE Delete(job[k].name)
      <4> DEFINE m == job[k].name
      <4>1. m \in NodeName /\ nodes' = [nodes EXCEPT ![m] = Absent] /\ nodes'[m] = Absent
        BY <3>2, <2>0, <1>0 DEF Delete
      <4>2. \A l \in Controller : job'[l] # Idle => job'[l].name # m
        BY <3>2 DEF Delete
      <4>3. NodeChange(m)
        BY <4>1, <4>2 DEF NodeChange
      <4>q. QED
        BY <4>1, <4>3, <1>2
    <3>q. QED
      BY <3>1, <3>2, <2>2 DEF InstanceExists
  <2>3. CASE InstanceShutdown(k)
    <3>1. UNCHANGED nodes \/ Taint(job[k].name)
      BY <2>3 DEF InstanceShutdown
    <3>q. QED
      BY <3>1, <2>0, <1>1, <1>3
  <2>4. CASE ResetGet(k)
    <3>1. UNCHANGED nodes \/ Taint(job[k].name)
      BY <2>4 DEF ResetGet
    <3>q. QED
      BY <3>1, <2>0, <1>1, <1>3
  <2>5. CASE InstanceMetadata(k)
    <3> DEFINE m == job[k].name
    <3>1. CASE job[k].found = Nil
      BY <3>1, <2>5, <1>1 DEF InstanceMetadata
    <3>2. CASE job[k].found # Nil
      <4>1. /\ job[k].op = "metadata" /\ job' = [job EXCEPT ![k] = Idle] /\ job[k].found \in Findable
            /\ m \in NodeName /\ nodes[m] # Absent
        BY <3>2, <2>5, <2>0, <1>0 DEF InstanceMetadata, Finish
      <4>u. nodes' = [nodes EXCEPT ![m] = Updated(nodes[m], Metadata(job[k].found, job[k].node))]
        BY <3>2, <2>5 DEF InstanceMetadata
      <4>2. nodes'[m] = Updated(nodes[m], Metadata(job[k].found, job[k].node))
        BY <4>1, <4>u, <1>0
      <4>3. NodeChange(m)
        BY <4>1, <4>2, <2>0 DEF NodeChange
      <4>q. QED
        BY <4>1, <4>u, <4>3, <1>2
    <3>q. QED
      BY <3>1, <3>2
  <2>q. QED
    BY <2>1, <2>2, <2>3, <2>4, <2>5, <1>8 DEF Step
<1>9. ASSUME \E k \in Controller : \E n \in NodeName : Begin(k, Asks(k), n) PROVE Goal
  <2>1. UNCHANGED nodes
    BY <1>9 DEF Begin
  <2>q. QED
    BY <2>1, <1>1
<1>10. Goal
  BY <1>4, <1>5, <1>6, <1>7, <1>8, <1>9 DEF Next
<1>q. QED
  BY <1>10 DEF Goal

LEMMA NodesStay == InstInv /\ [Next]_vars => NodesInv'
<1> SUFFICES ASSUME InstInv, [Next]_vars PROVE NodesInv'
  OBVIOUS
<1>1. ASSUME NEW n \in NodeName
      PROVE  /\ nodes'[n] \in {Absent} \cup Node
             /\ nodes'[n] # Absent /\ nodes'[n].initialized = TRUE
                  => nodes'[n].providerID # NoProviderID
  <2>0. nodes[n] \in {Absent} \cup Node
        /\ (nodes[n] # Absent /\ nodes[n].initialized = TRUE => nodes[n].providerID # NoProviderID)
    BY DEF InstInv, NodesInv
  <2>1. NodeChange(n)
    BY NodeSteps
  <2>2. CASE nodes'[n] = nodes[n]
    BY <2>0, <2>2
  <2>3. CASE nodes'[n] \in Node /\ nodes'[n].initialized = FALSE
    BY <2>3
  <2>4. CASE nodes[n] # Absent /\ \E b \in BOOLEAN : nodes'[n] = [nodes[n] EXCEPT !.shutdown = b]
    BY <2>0, <2>4, TaintOK
  <2>5. CASE nodes'[n] = Absent
    BY <2>5
  <2>6. CASE /\ nodes[n] # Absent
             /\ \E k \in Controller :
                 /\ job[k] # Idle /\ job[k].found \in Findable
                 /\ nodes'[n] = Updated(nodes[n], Metadata(job[k].found, job[k].node))
    <3>1. PICK k \in Controller :
                 /\ job[k] # Idle /\ job[k].found \in Findable
                 /\ nodes'[n] = Updated(nodes[n], Metadata(job[k].found, job[k].node))
      BY <2>6
    <3>2. job[k].node \in Node
      BY <3>1 DEF InstInv, JobsInv, GoodJob
    <3>3. nodes[n] \in Node
      BY <2>0, <2>6
    <3>q. QED
      BY <3>1, <3>2, <3>3, UpdatedOK
  <2>q. QED
    BY <2>1, <2>2, <2>3, <2>4, <2>5, <2>6 DEF NodeChange
<1>2. nodes' = [n \in NodeName |-> nodes'[n]]
  BY NodeSteps
<1>3. nodes' \in [NodeName -> {Absent} \cup Node]
  BY <1>1, <1>2
<1>q. QED
  BY <1>1, <1>3 DEF NodesInv

-----------------------------------------------------------------------------
(* Jobs *)

\* A job that a step leaves alone stays good, if the process runs on and its
\* node is still there with the InternalIPs it had.
LEMMA KeptJob ==
    ASSUME NEW k \in Controller, GoodJob(k), job'[k] = job[k], UNCHANGED <<stage, robotClient>>,
           nodes'[job[k].name] # Absent,
           job[k].op = "metadata" => nodes'[job[k].name].internal = nodes[job[k].name].internal
    PROVE  GoodJob(k)'
BY DEF GoodJob, First

\* The jobs of other controllers, when the nodes change in one of the known
\* ways.
LEMMA OtherJob ==
    ASSUME InstInv, [Next]_vars, UNCHANGED <<stage, robotClient>>,
           NEW k \in Controller, job[k] # Idle, job'[k] # Idle, job'[k] = job[k]
    PROVE  GoodJob(k)'
<1> DEFINE n == job[k].name
<1>0. GoodJob(k)
  BY DEF InstInv, JobsInv
<1>1. n \in NodeName /\ nodes[n] # Absent /\ nodes[n] \in Node
  BY <1>0 DEF GoodJob, InstInv, NodesInv
<1>2. NodeChange(n)
  BY <1>1, NodeSteps
<1>3. CASE nodes'[n] = nodes[n]
  BY <1>0, <1>1, <1>3, KeptJob
<1>4. CASE \E b \in BOOLEAN : nodes'[n] = [nodes[n] EXCEPT !.shutdown = b]
  <2>1. nodes'[n] \in Node /\ nodes'[n].internal = nodes[n].internal
    BY <1>1, <1>4, TaintOK
  <2>2. nodes'[n] # Absent
    BY <2>1, InstancesAssumption
  <2>q. QED
    BY <2>1, <2>2, <1>0, KeptJob
<1>5. CASE \E l \in Controller :
            /\ job[l] # Idle /\ job[l].op = "metadata" /\ job[l].found \in Findable
            /\ job' = [job EXCEPT ![l] = Idle]
            /\ nodes'[n] = Updated(nodes[n], Metadata(job[l].found, job[l].node))
  <2>1. PICK l \in Controller :
            /\ job[l] # Idle /\ job[l].op = "metadata" /\ job[l].found \in Findable
            /\ job' = [job EXCEPT ![l] = Idle]
            /\ nodes'[n] = Updated(nodes[n], Metadata(job[l].found, job[l].node))
    BY <1>5
  <2>2. GoodJob(l)
    BY <2>1 DEF InstInv, JobsInv
  <2>3. job[k].op # "metadata"
    <3>1. job'[l] = Idle
      BY <2>1 DEF InstInv, JobsInv
    <3>q. QED
      BY <3>1, <2>1, <2>2, <1>0 DEF GoodJob
  <2>4. job[l].node \in Node
    BY <2>2 DEF GoodJob
  <2>5. nodes'[n] \in Node
    BY <2>1, <2>4, <1>1, UpdatedOK
  <2>6. nodes'[n] # Absent
    BY <2>5, InstancesAssumption
  <2>q. QED
    BY <2>3, <2>6, <1>0, KeptJob
<1>q. QED
  BY <1>1, <1>2, <1>3, <1>4, <1>5 DEF NodeChange

\* Continue: the lookup goes on, with what was found so far.
LEMMA ContinuedJob ==
    ASSUME NEW k \in Controller, DOMAIN job = Controller, GoodJob(k),
           UNCHANGED <<stage, robotClient, nodes>>,
           NEW at \in {"found", "robotByName", "resetGet"}, NEW f \in {Nil} \cup Findable,
           Continue(k, at, f),
           at \in {"robotByName", "resetGet"} => robotClient = TRUE,
           at = "robotByName" => job[k].node.providerID = NoProviderID,
           f # Nil /\ f.kind = "robot" => robotClient = TRUE
    PROVE  GoodJob(k)'
<1> DEFINE j == job[k]
           i == job'[k]
<1>1. DOMAIN j = {"op", "name", "node", "at", "found"}
  BY DEF GoodJob
<1>2. i = [j EXCEPT !.at = at, !.found = f]
  BY DEF Continue
<1>3. i.op = j.op /\ i.name = j.name /\ i.node = j.node /\ i.at = at /\ i.found = f
  BY <1>1, <1>2
<1>4. i \in [op: {"metadata", "exists", "shutdown"}, name: NodeName, node: Node,
             at: {"cloudByID", "cloudByName", "robotByName", "robotByID", "found", "resetGet"},
             found: {Nil} \cup Findable]
  BY <1>2 DEF GoodJob
<1>q. QED
  BY <1>3, <1>4 DEF GoodJob, First

\* Job: a new lookup starts where the provider id says.
LEMMA StartedJob ==
    ASSUME NEW k \in Controller, NEW op \in {"metadata", "exists", "shutdown"}, NEW n \in NodeName,
           NEW node \in Node, First(node) # "error", stage = "up", nodes[n] # Absent,
           UNCHANGED <<stage, robotClient, nodes>>, job'[k] = Job(op, n, node),
           robotClient \in BOOLEAN,
           op = "metadata" => k = "node" /\ node.internal = nodes[n].internal
    PROVE  GoodJob(k)'
<1> DEFINE i == job'[k]
<1>1. /\ i = [op |-> op, name |-> n, node |-> node, at |-> First(node), found |-> Nil]
      /\ First(node)' = First(node)
  BY DEF Job, First
<1>2. First(node) \in {"cloudByName", "cloudByID", "robotByID"}
  BY DEF First
<1>3. /\ First(node) = "cloudByName" => node.providerID = NoProviderID
      /\ First(node) = "robotByID" => robotClient = TRUE
  BY DEF First
<1>4. i \in [op: {"metadata", "exists", "shutdown"}, name: NodeName, node: Node,
             at: {"cloudByID", "cloudByName", "robotByName", "robotByID", "found", "resetGet"},
             found: {Nil} \cup Findable]
  BY <1>1, <1>2
<1>5. i.op = op /\ i.name = n /\ i.node = node /\ i.at = First(node) /\ i.found = Nil
  BY <1>1
<1>6. First(job[k].node)' = First(node)
  BY <1>5 DEF First
<1>q. QED
  BY <1>2, <1>3, <1>4, <1>5, <1>6 DEF GoodJob

\* The ids that a lookup asks for are those of servers that exist.
LEMMA Asked ==
    ASSUME ServersInv
    PROVE  /\ \A x : \A i \in With(cloudSrv, x) : i = x /\ i \in CloudId /\ cloudSrv[i] # Absent
           /\ \A x : \A i \in With(cloudView, x) : i = x /\ i \in CloudId /\ cloudView[i] # Absent
           /\ \A x : \A i \in With(RobotList, x) : i = x /\ i \in RobotId /\ RobotList[i] # Absent
           /\ \A n : \A i \in Named(cloudSrv, n) : i \in CloudId /\ cloudSrv[i] # Absent
           /\ \A n : \A i \in Named(cloudView, n) : i \in CloudId /\ cloudView[i] # Absent
           /\ \A n : \A i \in Named(RobotList, n) : i \in RobotId /\ RobotList[i] # Absent
BY DEF ServersInv, With, Named

\* A step of controller k leaves it a good job, if any.
LEMMA OwnStep ==
    ASSUME InstInv, NEW k \in Controller, Step(k), job'[k] # Idle
    PROVE  GoodJob(k)'
<1> DEFINE j == job[k]
<1>0. /\ DOMAIN job = Controller /\ j # Idle /\ GoodJob(k) /\ ServersInv /\ robotClient \in BOOLEAN
      /\ j.found \in {Nil} \cup Findable /\ (j.found # Nil /\ j.found.kind = "robot" => robotClient = TRUE)
      /\ nodes[j.name] # Absent /\ j.name \in NodeName /\ j.node \in Node
  BY DEF InstInv, JobsInv, Step, GoodJob, StartInv
<1>1. UNCHANGED <<stage, robotClient>>
  BY DEF Step, CloudByID, CloudByName, RobotByName, RobotByID, CallFails, InstanceExists,
         InstanceShutdown, ResetGet, InstanceMetadata, localVars
<1>2. ASSUME Finish(k) PROVE FALSE
  BY <1>0, <1>2 DEF Finish
<1>3. CASE CloudByID(k)
  <2> DEFINE id == ToServerID(j.node.providerID).id
  <2>1. PICK f \in CloudAnswers(With(cloudSrv, id), With(cloudView, id)) : Continue(k, "found", f)
    BY <1>3 DEF CloudByID
  <2>2. f \in {Nil} \cup Findable /\ (f # Nil => f.kind = "cloud")
    BY <1>0, Asked, CloudAnswer
  <2>3. UNCHANGED nodes
    BY <1>3 DEF CloudByID
  <2>q. QED
    BY <2>1, <2>2, <2>3, <1>0, <1>1, ContinuedJob
<1>4. CASE CloudByName(k)
  <2> DEFINE at == IF robotClient THEN "robotByName" ELSE "found"
  <2>1. PICK f \in CloudAnswers(Named(cloudSrv, j.name), Named(cloudView, j.name)) : Continue(k, at, f)
    BY <1>4 DEF CloudByName
  <2>2. f \in {Nil} \cup Findable /\ (f # Nil => f.kind = "cloud")
    BY <1>0, Asked, CloudAnswer
  <2>3. UNCHANGED nodes /\ j.node.providerID = NoProviderID
    BY <1>0, <1>4 DEF CloudByName, GoodJob
  <2>4. at \in {"found", "robotByName"} /\ (at = "robotByName" => robotClient = TRUE)
    BY <1>0
  <2> HIDE DEF at
  <2>q. QED
    BY <2>1, <2>2, <2>3, <2>4, <1>0, <1>1, ContinuedJob
<1>5. CASE RobotByName(k)
  <2>1. PICK f \in RobotAnswers(Named(RobotList, j.name)) :
            \/ f = Nil /\ Continue(k, "found", j.found)
            \/ f # Nil /\ Continue(k, "found", f)
            \/ Finish(k)
    BY <1>5 DEF RobotByName
  <2>2. f = Nil \/ (f \in Findable /\ f.kind = "robot")
    BY <1>0, Asked, RobotAnswer
  <2>3. UNCHANGED nodes /\ robotClient = TRUE
    BY <1>0, <1>5 DEF RobotByName, GoodJob
  <2>4. \E g \in {Nil} \cup Findable : Continue(k, "found", g) /\ (g # Nil /\ g.kind = "robot" => robotClient = TRUE)
    BY <2>1, <2>2, <2>3, <1>0, <1>2
  <2>q. QED
    BY <2>3, <2>4, <1>0, <1>1, ContinuedJob
<1>6. CASE RobotByID(k)
  <2> DEFINE id == ToServerID(j.node.providerID).id
  <2>1. PICK f \in RobotAnswers(With(RobotList, id)) :
            Continue(k, "found", IF f # Nil /\ f.server.name = j.name THEN f ELSE Nil)
    BY <1>6 DEF RobotByID
  <2>2. f = Nil \/ (f \in Findable /\ f.kind = "robot")
    BY <1>0, Asked, RobotAnswer
  <2>3. UNCHANGED nodes /\ robotClient = TRUE
    BY <1>0, <1>6 DEF RobotByID, GoodJob
  <2> DEFINE g == IF f # Nil /\ f.server.name = j.name THEN f ELSE Nil
  <2>4. g \in {Nil} \cup Findable /\ Continue(k, "found", g)
    BY <2>1, <2>2
  <2> HIDE DEF g
  <2>q. QED
    BY <2>3, <2>4, <1>0, <1>1, ContinuedJob
<1>7. CASE CallFails(k) \/ ResetGet(k) \/ InstanceMetadata(k)
  BY <1>2, <1>7 DEF CallFails, ResetGet, InstanceMetadata
<1>8. CASE InstanceExists(k)
  <2>1. ~Delete(j.name)
    BY <1>0 DEF Delete
  <2>2. job'[k] = Job("shutdown", j.name, j.node) /\ UNCHANGED nodes
    BY <2>1, <1>0, <1>8 DEF InstanceExists
  <2>3. stage = "up" /\ First(j.node) # "error"
    BY <1>0 DEF GoodJob
  <2>q. QED
    BY <2>2, <2>3, <1>0, <1>1, StartedJob
<1>9. CASE InstanceShutdown(k)
  <2>1. /\ j.found # Nil /\ j.found.kind # "cloud"
        /\ Continue(k, "resetGet", j.found) /\ UNCHANGED nodes
    BY <1>2, <1>9 DEF InstanceShutdown
  <2>2. j.found.kind = "robot"
    BY <2>1, <1>0 DEF Findable
  <2>q. QED
    BY <2>1, <2>2, <1>0, <1>1, ContinuedJob
<1>q. QED
  BY <1>3, <1>4, <1>5, <1>6, <1>7, <1>8, <1>9 DEF Step

\* A step of controller k keeps, or ends, the jobs of the others.
LEMMA OthersKept ==
    ASSUME DOMAIN job = Controller, NEW k \in Controller,
           Step(k) \/ \E n \in NodeName : Begin(k, Asks(k), n), NEW l \in Controller, l # k
    PROVE  (job'[l] = job[l] \/ job'[l] = Idle) /\ UNCHANGED <<stage, robotClient>>
<1>1. CASE \E n \in NodeName : Begin(k, Asks(k), n)
  BY <1>1 DEF Begin, localVars
<1>2. CASE Step(k)
  <2>1. UNCHANGED <<stage, robotClient>>
    BY <1>2 DEF Step, CloudByID, CloudByName, RobotByName, RobotByID, CallFails, InstanceExists,
           InstanceShutdown, ResetGet, InstanceMetadata, localVars
  <2>2. CASE Finish(k)
    BY <2>1, <2>2 DEF Finish
  <2>3. CASE \E at, f : Continue(k, at, f)
    BY <2>1, <2>3 DEF Continue
  <2>4. CASE InstanceExists(k)
    BY <2>1, <2>4 DEF InstanceExists, Delete
  <2>q. QED
    BY <2>2, <2>3, <2>4, <1>2 DEF Step, CloudByID, CloudByName, RobotByName, RobotByID, CallFails,
           InstanceShutdown, ResetGet, InstanceMetadata
<1>q. QED
  BY <1>1, <1>2

LEMMA JobsStay == InstInv /\ [Next]_vars => JobsInv'
<1> SUFFICES ASSUME InstInv, [Next]_vars PROVE JobsInv'
  OBVIOUS
<1>0. DOMAIN job = Controller /\ StartInv
  BY DEF InstInv, JobsInv
<1>1. ASSUME UNCHANGED <<job, stage, robotClient>> PROVE JobsInv'
  <2>1. ASSUME NEW k \in Controller, job'[k] # Idle PROVE GoodJob(k)'
    BY <1>1, <2>1, OtherJob
  <2>q. QED
    BY <2>1, <1>0, <1>1 DEF JobsInv
<1>2. ASSUME Exit PROVE JobsInv'
  BY <1>2 DEF Exit, JobsInv
<1>3. CASE UNCHANGED vars \/ Refresh \/ ListRobots \/ Tick
  BY <1>1, <1>3 DEF vars, Refresh, ListRobots, Tick, cloudVars
<1>4. CASE \E i, v : ChangeCloud(i, v) \/ ChangeRobot(i, v)
  BY <1>1, <1>4 DEF ChangeCloud, ChangeRobot, cloudVars
<1>5. CASE \E n \in NodeName : Ready(n) \/ \E pid \in ProviderIDs : Register(n, pid)
  BY <1>1, <1>5 DEF Ready, Register, cloudVars
<1>6. CASE Process
  <2>1. CASE StartFails \/ \E e \in Environments : Restart(e)
    BY <2>1, <1>2 DEF StartFails, Restart
  <2>2. CASE StartUp
    <3>1. stage # "up" /\ UNCHANGED job
      BY <2>2 DEF StartUp, Boot, GetNetwork, CheckAttached, ListLocations
    <3>2. \A k \in Controller : job[k] = Idle
      BY <3>1 DEF InstInv, JobsInv, GoodJob
    <3>q. QED
      BY <3>1, <3>2, <1>0 DEF JobsInv
  <2>q. QED
    BY <2>1, <2>2, <1>6 DEF Process, NextCloud
<1>7. CASE \E k \in Controller : Step(k) \/ \E n \in NodeName : Begin(k, Asks(k), n)
  <2>1. PICK k \in Controller : Step(k) \/ \E n \in NodeName : Begin(k, Asks(k), n)
    BY <1>7
  <2>2. ASSUME NEW l \in Controller, l # k, job'[l] # Idle PROVE GoodJob(l)'
    <3>1. job'[l] = job[l] /\ UNCHANGED <<stage, robotClient>>
      BY <2>1, <2>2, <1>0, OthersKept
    <3>q. QED
      BY <3>1, <2>2, OtherJob
  <2>3. ASSUME job'[k] # Idle PROVE GoodJob(k)'
    <3>1. CASE Step(k)
      BY <3>1, <2>3, OwnStep
    <3>2. ASSUME NEW n \in NodeName, Begin(k, Asks(k), n) PROVE GoodJob(k)'
      <4>1. /\ stage = "up" /\ nodes[n] # Absent /\ First(nodes[n]) # "error"
            /\ UNCHANGED <<stage, robotClient, nodes>> /\ job'[k] = Job(Asks(k), n, nodes[n])
        BY <3>2, <1>0 DEF Begin, localVars
      <4>2. nodes[n] \in Node /\ robotClient \in BOOLEAN
        BY <4>1, <1>0 DEF InstInv, NodesInv, StartInv
      <4>3. Asks(k) \in {"metadata", "exists"} /\ (Asks(k) = "metadata" => k = "node")
        BY DEF Asks
      <4>q. QED
        BY <4>1, <4>2, <4>3, StartedJob
    <3>q. QED
      BY <3>1, <3>2, <2>1
  <2>4. DOMAIN job' = Controller
    <3>1. CASE \E n \in NodeName : Begin(k, Asks(k), n)
      BY <3>1, <1>0 DEF Begin
    <3>2. CASE Finish(k) \/ \E at, f : Continue(k, at, f)
      BY <3>2, <1>0 DEF Finish, Continue
    <3>3. CASE InstanceExists(k)
      BY <3>3, <1>0 DEF InstanceExists, Delete
    <3>q. QED
      BY <3>1, <3>2, <3>3, <2>1 DEF Step, CloudByID, CloudByName, RobotByName, RobotByID, CallFails,
           InstanceShutdown, ResetGet, InstanceMetadata
  <2>q. QED
    BY <2>2, <2>3, <2>4 DEF JobsInv
<1>q. QED
  BY <1>3, <1>4, <1>5, <1>6, <1>7 DEF Next

-----------------------------------------------------------------------------
(* The theorems *)

LEMMA InstInit == Init => InstInv
<1> SUFFICES ASSUME Init PROVE InstInv
  OBVIOUS
<1>1. StartInv
  <2>1. restarts \in 0..MaxRestarts /\ fails \in 0..MaxFails /\ changes \in 0..MaxChanges
    BY CloudAssumption, InstancesAssumption DEF Init, InitCloud
  <2>2. /\ env \in Environments /\ stage = "down" /\ stage \notin {"network", "attached", "location", "up"}
        /\ cfg = Unset /\ robotClient = FALSE /\ networkID = FALSE
    BY DEF Init, InitCloud
  <2>q. QED
    BY <2>1, <2>2, Zenon DEF StartInv
<1>2. ServersInv
  <2>1. cloudSrv \in [CloudId -> {Absent} \cup CloudServer] /\ robotSrv \in [RobotId -> {Absent} \cup RobotServer]
    BY InstancesAssumption DEF Init
  <2>2. RobotList = robotSrv /\ cloudView = cloudSrv /\ steady = [i \in RobotId |-> TRUE]
    BY DEF Init, RobotList
  <2>q. QED
    BY <2>1, <2>2 DEF ServersInv
<1>3. NodesInv /\ JobsInv
  BY DEF Init, InitCloud, NodesInv, JobsInv
<1>q. QED
  BY <1>1, <1>2, <1>3 DEF InstInv

LEMMA InstNext == InstInv /\ [Next]_vars => InstInv'
BY StartStays, ServersStay, NodesStay, JobsStay DEF InstInv

\* The types of the state; the Robot client is only used when there is one, the
\* network id is set exactly if a network is configured, and an initialized
\* node has a provider id.
THEOREM TypeCorrect == Spec => []TypeOK
<1>1. InstInv => TypeOK
  <2> SUFFICES ASSUME InstInv PROVE TypeOK
    OBVIOUS
  <2>1. StartInv /\ NodesInv /\ JobsInv
    BY DEF InstInv
  <2>2. env \in Environments /\ stage \in {"down", "network", "attached", "location", "up"}
    BY <2>1 DEF StartInv
  <2>3. cfg = Unset <=> stage = "down"
    BY <2>1, CloudAssumption DEF StartInv
  <2>4. stage = "up" => networkID = cfg.network
    BY <2>1 DEF StartInv
  <2>5. \A k \in Controller : job[k] # Idle =>
            /\ job[k].at \in {"cloudByID", "cloudByName", "robotByName", "robotByID", "found", "resetGet"}
            /\ job[k].at \in {"robotByName", "robotByID", "resetGet"} => robotClient
    BY <2>1 DEF JobsInv, GoodJob
  <2>6. ASSUME NEW n \in NodeName, nodes[n] # Absent
        PROVE  /\ nodes[n].initialized => nodes[n].providerID # NoProviderID
               /\ nodes[n].initialized \in BOOLEAN /\ nodes[n].shutdown \in BOOLEAN
               /\ \A a \in nodes[n].external \cup nodes[n].internal : a.family \in Families
    <3>1. /\ nodes[n] \in Node
          /\ nodes[n].initialized = TRUE => nodes[n].providerID # NoProviderID
      BY <2>1, <2>6 DEF NodesInv
    <3>2. /\ nodes[n].initialized \in BOOLEAN /\ nodes[n].shutdown \in BOOLEAN
          /\ nodes[n].external \cup nodes[n].internal \subseteq AnyAddress
      BY <3>1 DEF Node
    <3>q. QED
      BY <3>1, <3>2, AddressFamily
  <2>7. restarts \in 0..MaxRestarts /\ fails \in 0..MaxFails /\ changes \in 0..MaxChanges
    BY <2>1 DEF StartInv
  <2>q. QED
    BY <2>2, <2>3, <2>4, <2>5, <2>6, <2>7 DEF TypeOK
<1>q. QED
  BY <1>1, InstInit, InstNext, PTL DEF Spec

\* Only these steps end a lookup with an answer.
LEMMA AnswerSteps ==
    ASSUME InstInv, [Next]_vars, NEW k \in Controller, Answered(k)
    PROVE  CloudByID(k) \/ CloudByName(k) \/ RobotByName(k) \/ RobotByID(k)
<1>0. DOMAIN job = Controller /\ GoodJob(k)
  BY DEF InstInv, JobsInv, Answered
<1>1. job'[k] # job[k] /\ job'[k] # Idle /\ job[k] # Idle /\ job[k].at # "found"
  BY DEF Answered
<1>2. ~ \E l \in Controller : l # k /\ (Step(l) \/ \E n \in NodeName : Begin(l, Asks(l), n))
  BY <1>0, <1>1, OthersKept
<1>3. ~(UNCHANGED vars \/ Refresh \/ ListRobots \/ Tick \/ \E i, v : ChangeCloud(i, v) \/ ChangeRobot(i, v))
  BY <1>1 DEF vars, Refresh, ListRobots, Tick, ChangeCloud, ChangeRobot, cloudVars
<1>4. ~ \E n : Ready(n) \/ \E pid : Register(n, pid)
  BY <1>1 DEF Ready, Register, cloudVars
<1>5. ~NextCloud
  BY <1>1 DEF NextCloud, StartUp, Boot, GetNetwork, CheckAttached, ListLocations, StartFails,
              Restart, Exit
<1>6. Step(k)
  BY <1>1, <1>2, <1>3, <1>4, <1>5 DEF Next, Process, Begin
<1>7. ~Finish(k)
  BY <1>0, <1>1 DEF Finish
<1>8. ~InstanceExists(k) /\ ~InstanceShutdown(k)
  BY <1>1 DEF InstanceExists, InstanceShutdown
<1>q. QED
  BY <1>6, <1>7, <1>8 DEF Step, CallFails, ResetGet, InstanceMetadata

\* InstanceExists, lookupServer: the answer that makes the lifecycle controller
\* delete a node is true, of Cloud servers at that moment, and of Robot servers
\* unless they changed within the timeout of the client's list.  A max age that
\* is not positive, with which the server cache cannot answer, is left out.
THEOREM GoneCorrect ==
    ASSUME \A e \in Environments : e.maxAge = Unset \/ e.maxAge > 0
    PROVE  Spec => GoneIsTrue
<1> DEFINE Told(k) ==
        Answered(k) /\ job'[k].found = Nil /\ job[k].node.providerID # NoProviderID
            => GoneFor(job[k].name, job[k].node.providerID)
<1>1. ASSUME InstInv, [Next]_vars, NEW k \in Controller PROVE Told(k)
  <2> DEFINE j == job[k]
             pid == j.node.providerID
             id == ToServerID(pid).id
  <2> SUFFICES ASSUME Answered(k), job'[k].found = Nil, pid # NoProviderID
               PROVE  GoneFor(j.name, pid)
    OBVIOUS
  <2>0. /\ GoodJob(k) /\ ServersInv /\ StartInv /\ DOMAIN job = Controller
        /\ j \in [op: {"metadata", "exists", "shutdown"}, name: NodeName, node: Node,
                  at: {"cloudByID", "cloudByName", "robotByName", "robotByID", "found", "resetGet"},
                  found: {Nil} \cup Findable]
    BY <1>1 DEF InstInv, JobsInv, Answered, GoodJob
  <2>1. IsProviderID(pid)
    BY <2>0 DEF Node, AnyProviderID, IsProviderID
  <2>2. ~Blind
    <3>1. cfg = Read(env) /\ env \in Environments /\ Validate(Read(env))
      BY <2>0 DEF StartInv, GoodJob
    <3>2. Read(env).mode \in {"all", "one", "off"}
      BY <3>1 DEF Validate, ValidMode
    <3>3. ~(Read(env).maxAge <= 0)
      <4>1. env.maxAge \in Int \cup {Unset} /\ (env.maxAge = Unset \/ env.maxAge > 0)
        BY <3>1, CloudAssumption DEF Environment
      <4>2. Read(env).maxAge = IF env.maxAge = Unset THEN 1 ELSE env.maxAge
        BY DEF Read, Env, DefaultMaxAge
      <4>q. QED
        BY <4>1, <4>2
    <3>q. QED
      BY <3>1, <3>2, <3>3 DEF Blind
  <2>c. ASSUME NEW at, NEW f, Continue(k, at, f) PROVE f = Nil
    BY <2>0, <2>c DEF Continue
  <2>3. CASE CloudByID(k)
    <3>1. PICK f \in CloudAnswers(With(cloudSrv, id), With(cloudView, id)) : Continue(k, "found", f)
      BY <2>3 DEF CloudByID
    <3>2. f = Nil
      BY <3>1, <2>c
    <3>3. With(cloudSrv, id) = {}
      BY <3>2, <2>0, <2>2, Asked, CloudAnswer
    <3>4. First(j.node) = "cloudByID"
      BY <2>3, <2>0 DEF CloudByID, GoodJob
    <3>5. ToServerID(pid).ok /\ ToServerID(pid).cloud
      BY <3>4 DEF First
    <3>6. KindOf(pid) = "cloud" /\ id = pid[Len(pid)]
      BY <3>5, <2>1, ReadsWhatWasMade
    <3>q. QED
      BY <3>3, <3>6 DEF GoneFor, Missing
  <2>4. CASE RobotByID(k)
    <3>1. PICK f \in RobotAnswers(With(RobotList, id)) :
              Continue(k, "found", IF f # Nil /\ f.server.name = j.name THEN f ELSE Nil)
      BY <2>4 DEF RobotByID
    <3>2. f = Nil \/ f.server.name # j.name
      BY <3>1, <2>c
    <3>3. With(RobotList, id) = {} \/ RobotList[id].name # j.name
      BY <3>2, <2>0, Asked, RobotAnswer
    <3>4. First(j.node) = "robotByID"
      BY <2>4, <2>0 DEF RobotByID, GoodJob
    <3>5. ToServerID(pid).ok /\ ~ToServerID(pid).cloud
      BY <3>4 DEF First
    <3>6. KindOf(pid) = "robot" /\ id = pid[Len(pid)]
      BY <3>5, <2>1, ReadsWhatWasMade
    <3>7. ASSUME id \in RobotId, steady[id] PROVE Missing(robotSrv, "robot", id, j.name)
      <4>1. RobotList[id] = robotSrv[id] /\ DOMAIN RobotList = RobotId /\ DOMAIN robotSrv = RobotId
        BY <3>7, <2>0 DEF ServersInv
      <4>q. QED
        BY <3>3, <3>7, <4>1 DEF Missing, With
    <3>q. QED
      BY <3>6, <3>7 DEF GoneFor
  <2>5. CASE CloudByName(k) \/ RobotByName(k)
    BY <2>5, <2>0 DEF CloudByName, RobotByName, GoodJob
  <2>q. QED
    BY <2>3, <2>4, <2>5, <1>1, AnswerSteps
<1>2. InstInv /\ [Next]_vars => [\A k \in Controller : Told(k)]_vars
  BY <1>1
<1>q. QED
  BY <1>2, InstInit, InstNext, PTL DEF Spec, GoneIsTrue

\* robotNodeAddresses: no update of a Robot node loses an InternalIP that its
\* kubelet reported, though the update is made from a copy of the node.
THEOREM InternalIPCorrect == Spec => InternalIPKept
<1> DEFINE Kept(k) ==
        job[k] # Idle /\ job'[k] = Idle /\ Initialized(job[k].name) /\ job[k].found.kind = "robot"
          /\ env.forwardInternalIPs # FALSE =>
            \A a \in nodes[job[k].name].internal :
                Env(env.family, "ipv4") \in {a.family, "dualstack"}
                    => a \in nodes'[job[k].name].internal \cup nodes'[job[k].name].external
<1>1. ASSUME InstInv, [Next]_vars, NEW k \in Controller PROVE Kept(k)
  <2> DEFINE n == job[k].name
  <2> SUFFICES ASSUME job[k] # Idle, job'[k] = Idle, Initialized(n), job[k].found.kind = "robot",
                      env.forwardInternalIPs # FALSE, NEW a \in nodes[n].internal,
                      Env(env.family, "ipv4") \in {a.family, "dualstack"}
               PROVE  a \in nodes'[n].internal \cup nodes'[n].external
    OBVIOUS
  <2>0. /\ GoodJob(k) /\ StartInv /\ NodesInv /\ n \in NodeName /\ nodes[n] \in Node
        /\ nodes'[n] # nodes[n] /\ nodes'[n] # Absent /\ nodes[n] # Absent
        /\ nodes'[n].shutdown = nodes[n].shutdown
    BY <1>1 DEF InstInv, JobsInv, GoodJob, NodesInv, Initialized
  <2>1. PICK l \in Controller :
            /\ job[l] # Idle /\ job[l].op = "metadata" /\ job[l].name = n /\ job[l].found \in Findable
            /\ job' = [job EXCEPT ![l] = Idle]
            /\ nodes'[n] = Updated(nodes[n], Metadata(job[l].found, job[l].node))
    <3>1. NodeChange(n)
      BY <2>0, <1>1, NodeSteps
    <3>2. ASSUME NEW b \in BOOLEAN, nodes'[n] = [nodes[n] EXCEPT !.shutdown = b] PROVE FALSE
      BY <3>2, <2>0 DEF Node
    <3>q. QED
      BY <3>1, <3>2, <2>0 DEF NodeChange
  <2>2. l = k
    BY <2>1, <1>1 DEF InstInv, JobsInv
  <2> DEFINE f == job[k].found
             node == job[k].node
             ad == RobotNodeAddresses(f, node, cfg)
  <2>3. node.internal = nodes[n].internal /\ node \in Node
    BY <2>0, <2>1, <2>2 DEF GoodJob
  <2>4. nodes'[n].external = ad.external /\ nodes'[n].internal = ad.internal
    <3>1. Metadata(f, node).addresses = ad
      BY DEF Metadata
    <3>2. nodes'[n] = Updated(nodes[n], Metadata(f, node))
      BY <2>1, <2>2
    <3> HIDE DEF ad, f, node
    <3>q. QED
      BY <3>1, <3>2, <2>0 DEF Updated, Node
  <2>5. cfg = Read(env) /\ env \in Environments /\ Read(env).robot = TRUE
    BY <2>0, <2>1, <2>2, InstancesAssumption DEF StartInv, GoodJob
  <2>6. cfg.forwardInternalIPs = TRUE
    <3>1. env.forwardInternalIPs \in {Unset, TRUE, FALSE}
      BY <2>5, CloudAssumption DEF Environment
    <3>2. Env(env.robot, FALSE) = TRUE
      BY <2>5 DEF Read
    <3>3. Env(env.forwardInternalIPs, TRUE) = TRUE
      BY <3>1 DEF Env
    <3>q. QED
      BY <3>2, <3>3, <2>5 DEF Read
  <2>7. a.family \in Families
    <3>1. a \in AnyAddress
      BY <2>0 DEF Node
    <3>q. QED
      BY <3>1, AddressFamily
  <2>8. a.family \in Wanted(cfg)
    <3>1. cfg.family = Env(env.family, "ipv4")
      BY <2>5 DEF Read
    <3>q. QED
      BY <3>1, <2>7 DEF Wanted, IPv4, IPv6, Families
  <2>9. a \in ad.internal \cup ad.external
    BY <2>3, <2>6, <2>8 DEF RobotNodeAddresses
  <2>q. QED
    BY <2>4, <2>9
<1>2. InstInv /\ [Next]_vars => [\A k \in Controller : Kept(k)]_vars
  BY <1>1
<1>q. QED
  BY <1>2, InstInit, InstNext, PTL DEF Spec, InternalIPKept
=============================================================================
