-------------------------- MODULE LBTargetsProofs --------------------------
(***************************************************************************)
(* Theorems about LBTargets: the types, that a target which is wanted is   *)
(* never removed, that a node is turned away only by a full Load Balancer, *)
(* and that a reconcile which reports success has done its work.           *)
(***************************************************************************)
EXTENDS LBTargets, FiniteSetTheorems, TLAPS

-----------------------------------------------------------------------------
(* Addresses and maps *)

\* The address of a Robot server outside of the private network.
LEMMA ExternalType ==
    ASSUME NEW i \in RobotId
    PROVE  ExternalIP(i) \in IP
  BY DEF ExternalIP, IP

\* getNodeInternalIP returns an address, or none if the node has none.
LEMMA InternalType ==
    ASSUME NEW x \in Node, x.kind \in {"cloud", "robot"}
    PROVE  /\ x.internal => InternalIP(x) \in IP /\ InternalIP(x) # NoIP
           /\ ~x.internal => InternalIP(x) = NoIP
           /\ InternalIP(x) \in IP \cup {NoIP}
<1>1. x.id \in CloudId \cup RobotId /\ x.internal \in BOOLEAN
  BY DEF Node
<1>2. [net |-> "int", kind |-> x.kind, id |-> x.id] \in IP
  BY <1>1 DEF IP
<1>q. QED
  BY <1>1, <1>2, TargetsAssumption DEF InternalIP

\* A node k8sNodes may hold under an id.
Picks(pick) ==
    /\ DOMAIN pick = IdsOf(cluster, "cloud") \cup IdsOf(cluster, "robot")
    /\ \A i \in DOMAIN pick : pick[i] \in K8sNode(cluster, i)

\* What k8sNodes holds has an id, and thus an address as above.
LEMMA PickType ==
    ASSUME cluster \subseteq Node, NEW pick, Picks(pick), NEW i \in DOMAIN pick
    PROVE  /\ pick[i] \in Node /\ pick[i] \in cluster /\ pick[i].id = i
           /\ pick[i].kind \in {"cloud", "robot"}
           /\ InternalIP(pick[i]) \in IP \cup {NoIP}
<1>1. pick[i] \in cluster /\ pick[i].id = i /\ pick[i].kind \in {"cloud", "robot"}
  BY DEF Picks, K8sNode
<1>q. QED
  BY <1>1, InternalType

LEMMA IdsType ==
    ASSUME cluster \subseteq Node
    PROVE  IdsOf(cluster, "cloud") \subseteq CloudId /\ IdsOf(cluster, "robot") \subseteq RobotId
  BY DEF IdsOf, NodesOf, Node

\* The maps made from the listed Robot servers.
LEMMA FromAPIType ==
    ASSUME cluster \subseteq Node, NEW pick, Picks(pick), NEW list \in SUBSET RobotId,
           NEW private \in BOOLEAN
    PROVE  /\ FromAPI(list, private, pick).ids \in SUBSET (IP \X RobotId)
           /\ FromAPI(list, private, pick).addrs \in SUBSET (RobotId \X IP)
<1> DEFINE internal(i) == IF private /\ i \in DOMAIN pick THEN InternalIP(pick[i]) ELSE NoIP
<1>1. \A i : internal(i) \in IP \cup {NoIP}
  BY PickType
<1>2. \A i \in list : ExternalIP(i) \in IP
  BY ExternalType
<1> HIDE DEF internal
<1>3. {<<ExternalIP(i), i>> : i \in list} \in SUBSET (IP \X RobotId)
  BY <1>2
<1>4. {<<internal(i), i>> : i \in {j \in list : internal(j) # NoIP}} \in SUBSET (IP \X RobotId)
  BY <1>1
<1>5. {<<i, IF internal(i) = NoIP THEN ExternalIP(i) ELSE internal(i)>> : i \in list}
        \in SUBSET (RobotId \X IP)
  BY <1>1, <1>2
<1>q. QED
  BY <1>3, <1>4, <1>5 DEF FromAPI, internal

\* The maps made from the nodes.
LEMMA FromNodesType ==
    ASSUME cluster \subseteq Node, NEW pick, Picks(pick)
    PROVE  /\ FromNodes(IdsOf(cluster, "robot"), pick).ids \in SUBSET (IP \X RobotId)
           /\ FromNodes(IdsOf(cluster, "robot"), pick).addrs \in SUBSET (RobotId \X IP)
<1> DEFINE have == {i \in IdsOf(cluster, "robot") : InternalIP(pick[i]) # NoIP}
<1>1. have \subseteq RobotId
  BY IdsType
<1>2. \A i \in have : InternalIP(pick[i]) \in IP
  BY PickType DEF Picks
<1> HIDE DEF have
<1>3. {<<InternalIP(pick[i]), i>> : i \in have} \in SUBSET (IP \X RobotId)
  BY <1>1, <1>2
<1>4. {<<i, InternalIP(pick[i])>> : i \in have} \in SUBSET (RobotId \X IP)
  BY <1>1, <1>2
<1>q. QED
  BY <1>3, <1>4 DEF FromNodes, have

LEMMA MapsType ==
    ASSUME cluster \subseteq Node, NEW pick, Picks(pick), NEW list \in SUBSET RobotId,
           NEW private \in BOOLEAN
    PROVE  /\ Maps(list, private, pick).ids \in SUBSET (IP \X RobotId)
           /\ Maps(list, private, pick).addrs \in SUBSET (RobotId \X IP)
<1>1. NoMaps.ids \in SUBSET (IP \X RobotId) /\ NoMaps.addrs \in SUBSET (RobotId \X IP)
  BY DEF NoMaps
<1>q. QED
  BY <1>1, FromAPIType, FromNodesType DEF Maps

\* What Begin does, with the nodes and the list it worked on.
Began(pick, list) ==
    /\ Picks(pick) /\ list \in {robot, {}}
    /\ list = {} => robot = {} \/ "nil" \in setup.answers
    /\ job' = [private |-> setting = "private",
               cloud |-> IdsOf(cluster, "cloud"), robot |-> IdsOf(cluster, "robot"),
               ids |-> Maps(list, setting = "private", pick).ids,
               addrs |-> Maps(list, setting = "private", pick).addrs]

LEMMA BeginMaps ==
    ASSUME Begin
    PROVE  \E pick, list : Began(pick, list)
<1>1. PICK pick \in [IdsOf(cluster, "cloud") \cup IdsOf(cluster, "robot") -> cluster],
           list \in {robot : a \in setup.answers \cap {"list"}}
                      \cup {{} : a \in setup.answers \cap {"nil"}} :
        /\ \A i \in DOMAIN pick : pick[i] \in K8sNode(cluster, i)
        /\ job' = [private |-> setting = "private",
                   cloud |-> IdsOf(cluster, "cloud"), robot |-> IdsOf(cluster, "robot"),
                   ids |-> Maps(list, setting = "private", pick).ids,
                   addrs |-> Maps(list, setting = "private", pick).addrs]
  BY DEF Begin
<1>2. Picks(pick)
  BY <1>1 DEF Picks
<1>3. list \in {robot, {}} /\ (list = {} => robot = {} \/ "nil" \in setup.answers)
  BY <1>1
<1>q. QED
  BY <1>1, <1>2, <1>3 DEF Began

-----------------------------------------------------------------------------
(* Types *)

TypeInv == TypeOK /\ IsFiniteSet(targets)

LEMMA ServerTargetType ==
    ASSUME NEW i \in CloudId, NEW private \in BOOLEAN, NEW f
    PROVE  /\ ServerTarget(i, private) \in Target(f)
           /\ ServerTarget(i, private).type = "server"
           /\ ServerTarget(i, private).id = i
           /\ ServerTarget(i, private).private = private
  BY DEF ServerTarget, Target

LEMMA IPTargetType ==
    ASSUME NEW a \in IP, NEW f
    PROVE  IPTarget(a) \in Target(f) /\ IPTarget(a).type = "ip" /\ IPTarget(a).ip = a
  BY DEF IPTarget, Target

\* A target is a label selector, a server or an address.
LEMMA TargetShape ==
    ASSUME NEW f, NEW t \in Target(f)
    PROVE  \/ t.type = "label"
           \/ /\ t.type = "server" /\ t.id \in CloudId /\ t.private \in BOOLEAN
              /\ t = ServerTarget(t.id, t.private) /\ t \in Target({})
           \/ t.type = "ip" /\ t.ip \in IP /\ t = IPTarget(t.ip) /\ t \in Target({})
<1>1. CASE t \in [type: {"label"}, id: f]
  BY <1>1
<1>2. CASE t \in [type: {"server"}, id: CloudId, private: BOOLEAN]
  BY <1>2 DEF ServerTarget, Target
<1>3. CASE t \in [type: {"ip"}, ip: IP]
  BY <1>3 DEF IPTarget, Target
<1>q. QED
  BY <1>1, <1>2, <1>3 DEF Target

LEMMA NoJobType == NoJob \in Job
  BY DEF NoJob, Job

LEMMA AddressOfType ==
    ASSUME job \in Job, NEW i
    PROVE  AddressOf(i) \subseteq IP
<1>1. job.addrs \subseteq RobotId \X IP
  BY DEF Job
<1>q. QED
  BY <1>1 DEF AddressOf

\* What the loops call the API for is a target the controller manages.
LEMMA CalledType ==
    ASSUME TypeOK, pc # "idle", NEW t \in Called
    PROVE  t \in Target(setup.foreign)
<1>1. CASE pc = "remove"
  BY <1>1 DEF Called, TypeOK
<1>2. CASE pc = "servers"
  <2>1. PICK i \in work : t = ServerTarget(i, job.private)
    BY <1>2 DEF Called
  <2>2. i \in CloudId /\ job.private \in BOOLEAN
    BY <1>2 DEF TypeOK, Job
  <2>q. QED
    BY <2>1, <2>2, ServerTargetType
<1>3. CASE pc = "ips"
  <2>1. PICK i \in work : \E a \in AddressOf(i) : t = IPTarget(a)
    BY <1>3 DEF Called
  <2>q. QED
    BY <2>1, AddressOfType, IPTargetType DEF TypeOK
<1>q. QED
  BY <1>1, <1>2, <1>3 DEF TypeOK

LEMMA TypeInit == Init => TypeInv
<1> SUFFICES ASSUME Init PROVE TypeInv
  OBVIOUS
<1>1. setup \in Setup /\ setup.foreign \subseteq {"selector"}
  BY TargetsAssumption DEF Init, Setup
<1>2. targets \subseteq Target(setup.foreign)
  BY DEF Init, Target
<1>3. IsFiniteSet(targets)
  <2>1. targets \subseteq {[type |-> "label", id |-> "selector"]}
    BY <1>1 DEF Init
  <2>2. IsFiniteSet({[type |-> "label", id |-> "selector"]})
    BY FS_Singleton, Zenon
  <2>q. QED
    BY <2>1, <2>2, FS_Subset
<1>q. QED
  BY <1>2, <1>3, NoJobType, TargetsAssumption DEF Init, TypeInv, TypeOK

LEMMA TypeEnvironment == TypeInv /\ Environment => TypeInv'
<1> SUFFICES ASSUME TypeInv, Environment PROVE TypeInv'
  OBVIOUS
<1>1. ASSUME Change, Seen \/ Unseen, targets' \subseteq targets,
             cluster' \subseteq Node, robot' \subseteq RobotId, setting' \in setup.settings
      PROVE  TypeInv'
  <2>1. IsFiniteSet(targets')
    BY <1>1, FS_Subset DEF TypeInv
  <2>2. changes' \in 0..MaxChanges
    BY <1>1, TargetsAssumption DEF TypeInv, TypeOK, Change
  <2>q. QED
    BY <1>1, <2>1, <2>2 DEF TypeInv, TypeOK, Change, Seen, Unseen
<1>2. ASSUME NEW x \in Node, NodeChanges(x) PROVE TypeInv'
  BY <1>1, <1>2 DEF NodeChanges, TypeInv, TypeOK
<1>3. ASSUME NEW i \in RobotId, RobotChanges(i) PROVE TypeInv'
  BY <1>1, <1>3 DEF RobotChanges, TypeInv, TypeOK
<1>4. ASSUME NEW s \in setup.settings, SettingChanges(s) PROVE TypeInv'
  BY <1>1, <1>4 DEF SettingChanges, TypeInv, TypeOK
<1>5. ASSUME NEW i \in CloudId, ServerDeleted(i) PROVE TypeInv'
  BY <1>1, <1>5 DEF ServerDeleted, TypeInv, TypeOK
<1>6. CASE OtherChange
  BY <1>1, <1>6 DEF OtherChange, TypeInv, TypeOK
<1>q. QED
  BY <1>2, <1>3, <1>4, <1>5, <1>6 DEF Environment

LEMMA TypeBegin == TypeInv /\ Begin => TypeInv'
<1> SUFFICES ASSUME TypeInv, Begin PROVE TypeInv'
  OBVIOUS
<1>1. PICK pick, list : Began(pick, list)
  BY BeginMaps
<1>2. job' \in Job
  <2>1. cluster \subseteq Node /\ list \in SUBSET RobotId
    BY <1>1 DEF TypeInv, TypeOK, Began
  <2>2. /\ Maps(list, setting = "private", pick).ids \in SUBSET (IP \X RobotId)
        /\ Maps(list, setting = "private", pick).addrs \in SUBSET (RobotId \X IP)
    BY <1>1, <2>1, MapsType DEF Began
  <2>q. QED
    BY <1>1, <2>1, <2>2, IdsType DEF Began, Job
<1>3. n' \in Int
  BY FS_CardinalityType DEF Begin, TypeInv
<1>q. QED
  BY <1>2, <1>3 DEF Begin, TypeInv, TypeOK, envVars

\* A reconcile ends with targets of the three types.
LEMMA TypeEnd ==
    ASSUME TypeInv, NEW r \in {"none", "ok", "error"}, End(r), UNCHANGED envVars, UNCHANGED calm,
           targets' \subseteq Target(setup.foreign), IsFiniteSet(targets'), fails' \in 0..MaxFails
    PROVE  TypeInv'
  BY NoJobType DEF TypeInv, TypeOK, End, envVars

\* Adding a target, or none, and going on.
LEMMA TypeAdd ==
    ASSUME TypeInv, pc \in {"servers", "ips"}, NEW i, NEW t \in Target(setup.foreign), Add(i, t)
    PROVE  TypeInv'
<1>1. targets' \subseteq Target(setup.foreign) /\ IsFiniteSet(targets')
  BY FS_AddElement DEF Add, TypeInv, TypeOK
<1>q. QED
  BY <1>1 DEF Add, TypeInv, TypeOK, envVars

LEMMA TypeStep == TypeInv /\ Step => TypeInv'
<1> SUFFICES ASSUME TypeInv, Step PROVE TypeInv'
  OBVIOUS
<1> USE DEF envVars
<1>1. ASSUME NEW t \in work, KeepTarget(t) PROVE TypeInv'
  <2>1. t.type = "label" \/ t \in Target({})
    BY <1>1, TargetShape DEF KeepTarget, TypeInv, TypeOK
  <2>q. QED
    BY <1>1, <2>1 DEF KeepTarget, TypeInv, TypeOK
<1>2. ASSUME NEW t \in work, RemoveTarget(t) PROVE TypeInv'
  <2>1. IsFiniteSet(targets')
    BY <1>2, FS_Subset DEF RemoveTarget, TypeInv
  <2>q. QED
    BY <1>2, <2>1 DEF RemoveTarget, TypeInv, TypeOK
<1>3. CASE EndOfRemove
  BY <1>3 DEF EndOfRemove, TypeInv, TypeOK, MissingServers
<1>4. ASSUME NEW i \in work, AddServerTarget(i) PROVE TypeInv'
  <2>1. i \in CloudId /\ job.private \in BOOLEAN
    BY <1>4 DEF AddServerTarget, TypeInv, TypeOK, Job
  <2>2. CASE Add(i, ServerTarget(i, job.private))
    BY <1>4, <2>1, <2>2, ServerTargetType, TypeAdd DEF AddServerTarget
  <2>3. CASE Refuse(i)
    BY <1>4, <2>3 DEF AddServerTarget, Refuse, TypeInv, TypeOK
  <2>q. QED
    BY <1>4, <2>2, <2>3 DEF AddServerTarget
<1>5. ASSUME NEW i \in work, AddIPTarget(i) PROVE TypeInv'
  <2>1. ASSUME NEW a \in AddressOf(i), Add(i, IPTarget(a)) PROVE TypeInv'
    <3>1. IPTarget(a) \in Target(setup.foreign)
      BY AddressOfType, IPTargetType DEF TypeInv, TypeOK
    <3>q. QED
      BY <1>5, <2>1, <3>1, TypeAdd DEF AddIPTarget
  <2>2. CASE Refuse(i)
    BY <1>5, <2>2 DEF AddIPTarget, Refuse, TypeInv, TypeOK
  <2>3. CASE /\ work' = work \ {i} /\ res' = "none"
             /\ UNCHANGED <<envVars, targets, due, fails, pc, job, kept, n, calm>>
    BY <1>5, <2>3 DEF AddIPTarget, TypeInv, TypeOK
  <2>q. QED
    BY <1>5, <2>1, <2>2, <2>3 DEF AddIPTarget
<1>6. CASE EndOfServers
  BY <1>6 DEF EndOfServers, TypeInv, TypeOK, MissingIPs
<1>7. CASE Finish
  BY <1>7, TypeEnd DEF Finish, TypeInv, TypeOK
<1>8. CASE CallRejected
  BY <1>8, TypeEnd DEF CallRejected, TypeInv, TypeOK
<1>q. QED
  BY <1>1, <1>2, <1>3, <1>4, <1>5, <1>6, <1>7, <1>8 DEF Step

LEMMA TypeCallFails == TypeInv /\ CallFails => TypeInv'
<1> SUFFICES ASSUME TypeInv, CallFails PROVE TypeInv'
  OBVIOUS
<1>1. PICK t \in Called : targets' = targets \/ targets' = targets \ {t} \/ targets' = targets \cup {t}
  BY DEF CallFails
<1>2. t \in Target(setup.foreign)
  BY CalledType DEF CallFails, TypeInv
<1>3. targets' \subseteq Target(setup.foreign)
  BY <1>1, <1>2 DEF TypeInv, TypeOK
<1>4. IsFiniteSet(targets')
  BY <1>1, FS_Subset, FS_AddElement DEF TypeInv
<1>5. fails' \in 0..MaxFails
  BY TargetsAssumption DEF CallFails, TypeInv, TypeOK
<1>q. QED
  BY <1>3, <1>4, <1>5, TypeEnd DEF CallFails

LEMMA TypeNext == TypeInv /\ [Next]_vars => TypeInv'
<1> SUFFICES ASSUME TypeInv, [Next]_vars PROVE TypeInv'
  OBVIOUS
<1>1. CASE BeginRejected
  BY <1>1 DEF BeginRejected, TypeInv, TypeOK, envVars
<1>2. CASE BeginFails
  BY <1>2, TargetsAssumption DEF BeginFails, TypeInv, TypeOK, envVars
<1>3. CASE UNCHANGED vars
  BY <1>3 DEF vars, TypeInv, TypeOK
<1>q. QED
  BY <1>1, <1>2, <1>3, TypeEnvironment, TypeBegin, TypeStep, TypeCallFails DEF Next

\* Whatever the setups, ids and limits are, and whatever fails or changes
\* between two calls, the API gets targets of the types it knows, and an IP
\* target has an address.
THEOREM TypeCorrect == Spec => []TypeOK
<1>1. TypeInv => TypeOK
  BY DEF TypeInv
<1>q. QED
  BY <1>1, TypeInit, TypeNext, PTL DEF Spec

-----------------------------------------------------------------------------
(* The count *)

\* While nothing else changes the Load Balancer, numberOfTargets is the number
\* of targets the API holds.
CountInv == calm /\ pc # "idle" => n = Cardinality(targets)

\* The steps of a reconcile that is under way and goes on.
Working == pc # "idle" /\ pc' # "idle" /\ UNCHANGED <<envVars, job, calm>>

\* A step of the loops works on, or the reconcile ends.
LEMMA StepWorks ==
    ASSUME Step
    PROVE  Working \/ (pc' = "idle" /\ UNCHANGED <<envVars, targets, calm>>)
<1>1. ASSUME NEW i \in work, AddServerTarget(i) PROVE Working
  BY <1>1 DEF AddServerTarget, Add, Refuse, Working
<1>2. ASSUME NEW i \in work, AddIPTarget(i) PROVE Working
  <2>1. /\ pc = "ips"
        /\ \/ \E a \in AddressOf(i) : Add(i, IPTarget(a)) \/ Refuse(i)
           \/ UNCHANGED <<envVars, targets, due, fails, pc, job, kept, n, calm>>
    BY <1>2 DEF AddIPTarget
  <2>q. QED
    BY <2>1 DEF Add, Refuse, Working
<1>3. ASSUME NEW t \in work, KeepTarget(t) \/ RemoveTarget(t) PROVE Working
  BY <1>3 DEF KeepTarget, RemoveTarget, Working
<1>4. CASE EndOfRemove \/ EndOfServers
  BY <1>4 DEF EndOfRemove, EndOfServers, Working
<1>5. CASE Finish \/ CallRejected
  BY <1>5 DEF Finish, CallRejected, End
<1>q. QED
  BY <1>1, <1>2, <1>3, <1>4, <1>5 DEF Step

\* Adding a target counts it.
LEMMA CountAdd ==
    ASSUME TypeInv, CountInv, pc # "idle", NEW i, NEW t, Add(i, t)
    PROVE  CountInv'
<1>1. targets' = targets \cup {t} /\ t \notin targets /\ IsFiniteSet(targets)
  BY DEF Add, Accepts, TypeInv
<1>2. Cardinality(targets') = Cardinality(targets) + 1
  BY <1>1, FS_AddElement
<1>q. QED
  BY <1>2 DEF Add, CountInv

LEMMA CountStep == TypeInv /\ CountInv /\ Step => CountInv'
<1> SUFFICES ASSUME TypeInv, CountInv, Step PROVE CountInv'
  OBVIOUS
<1>1. ASSUME pc # "idle", UNCHANGED <<targets, n, calm>> PROVE CountInv'
  BY <1>1 DEF CountInv
<1>2. ASSUME NEW t \in work, KeepTarget(t) PROVE CountInv'
  BY <1>1, <1>2 DEF KeepTarget
<1>3. ASSUME NEW t \in work, RemoveTarget(t) PROVE CountInv'
  <2>1. targets' = targets \ {t} /\ t \in targets /\ IsFiniteSet(targets)
    BY <1>3 DEF RemoveTarget, TypeInv
  <2>2. Cardinality(targets') = Cardinality(targets) - 1
    BY <2>1, FS_RemoveElement
  <2>q. QED
    BY <1>3, <2>2 DEF RemoveTarget, CountInv
<1>4. CASE EndOfRemove \/ EndOfServers
  BY <1>1, <1>4 DEF EndOfRemove, EndOfServers
<1>5. ASSUME NEW i \in work, AddServerTarget(i) PROVE CountInv'
  <2>1. CASE Add(i, ServerTarget(i, job.private))
    BY <1>5, <2>1, CountAdd DEF AddServerTarget
  <2>2. CASE Refuse(i)
    BY <1>1, <1>5, <2>2 DEF AddServerTarget, Refuse
  <2>q. QED
    BY <1>5, <2>1, <2>2 DEF AddServerTarget
<1>6. ASSUME NEW i \in work, AddIPTarget(i) PROVE CountInv'
  <2>1. ASSUME NEW a \in AddressOf(i), Add(i, IPTarget(a)) PROVE CountInv'
    BY <1>6, <2>1, CountAdd DEF AddIPTarget
  <2>2. CASE Refuse(i)
    BY <1>1, <1>6, <2>2 DEF AddIPTarget, Refuse
  <2>3. CASE UNCHANGED <<targets, n, calm>>
    BY <1>1, <1>6, <2>3 DEF AddIPTarget
  <2>q. QED
    BY <1>6, <2>1, <2>2, <2>3 DEF AddIPTarget
<1>7. CASE Finish \/ CallRejected
  BY <1>7 DEF Finish, CallRejected, End, CountInv
<1>q. QED
  BY <1>2, <1>3, <1>4, <1>5, <1>6, <1>7 DEF Step

\* What the environment changes it changes outside of a reconcile's sight.
LEMMA EnvironmentChanges ==
    ASSUME Environment
    PROVE  calm' = FALSE /\ UNCHANGED <<setup, pc, job, work, kept, n>>
  BY DEF Environment, NodeChanges, RobotChanges, SettingChanges, ServerDeleted, OtherChange, Change

LEMMA CountNext == TypeInv /\ CountInv /\ [Next]_vars => CountInv'
<1> SUFFICES ASSUME TypeInv, CountInv, [Next]_vars PROVE CountInv'
  OBVIOUS
<1>1. CASE Environment
  BY <1>1, EnvironmentChanges DEF CountInv
<1>2. CASE Begin
  BY <1>2 DEF Begin, CountInv
<1>3. CASE BeginRejected \/ BeginFails
  BY <1>3 DEF BeginRejected, BeginFails, CountInv
<1>4. CASE CallFails
  BY <1>4 DEF CallFails, End, CountInv
<1>5. CASE UNCHANGED vars
  BY <1>5 DEF vars, CountInv
<1>q. QED
  BY <1>1, <1>2, <1>3, <1>4, <1>5, CountStep DEF Next

\* A step of the second or the third loop that leaves a node out and adds
\* nothing.
TurnedAway(i) ==
    /\ pc \in {"servers", "ips"} /\ pc' = pc /\ targets' = targets
    /\ i \in work /\ i \notin work'
    /\ pc = "servers" \/ AddressOf(i) # {}

LEMMA TurnedAwayRefused ==
    ASSUME Next, NEW i, TurnedAway(i)
    PROVE  Refuse(i)
<1> USE DEF TurnedAway
<1>1. ASSUME NEW j \in work, NEW t, Add(j, t) PROVE FALSE
  BY <1>1 DEF Add, Accepts
<1>2. ~Environment /\ ~Begin /\ ~BeginRejected /\ ~BeginFails /\ ~CallFails
  BY EnvironmentChanges DEF Begin, BeginRejected, BeginFails, CallFails, End
<1>3. ASSUME NEW t \in work, KeepTarget(t) \/ RemoveTarget(t) PROVE FALSE
  BY <1>3 DEF KeepTarget, RemoveTarget
<1>4. ~EndOfRemove /\ ~EndOfServers /\ ~Finish /\ ~CallRejected
  BY DEF EndOfRemove, EndOfServers, Finish, CallRejected, End
<1>5. PICK j \in work : AddServerTarget(j) \/ AddIPTarget(j)
  BY <1>2, <1>3, <1>4 DEF Next, Step
<1>6. CASE AddServerTarget(j)
  <2>1. Refuse(j)
    BY <1>1, <1>6 DEF AddServerTarget
  <2>q. QED
    BY <2>1 DEF Refuse
<1>7. CASE AddIPTarget(j)
  <2>1. CASE Refuse(j)
    BY <2>1 DEF Refuse
  <2>2. CASE AddressOf(j) = {} /\ work' = work \ {j}
    BY <1>7, <2>2 DEF AddIPTarget
  <2>q. QED
    BY <1>1, <1>7, <2>1, <2>2 DEF AddIPTarget
<1>q. QED
  BY <1>5, <1>6, <1>7

\* Whatever the setups and limits are: if nothing else changes the Load
\* Balancer while the loops run, a node is turned away only when the API holds
\* as many targets as the type allows.  Targets the first loop removes give
\* their place back.
THEOREM NoNeedlessRefusalCorrect == Spec => NoNeedlessRefusal
<1>1. Init => TypeInv /\ CountInv
  BY TypeInit DEF Init, CountInv
<1>2. TypeInv /\ CountInv /\ [Next]_vars => (TypeInv /\ CountInv)'
  BY TypeNext, CountNext
<1>3. TypeInv /\ CountInv /\ [Next]_vars =>
        [/\ calm /\ pc \in {"servers", "ips"} /\ pc' = pc /\ work' # work /\ targets' = targets
         /\ \E i \in work \ work' : pc = "servers" \/ AddressOf(i) # {}
         => Cardinality(targets) >= MaxTargets]_vars
  <2> SUFFICES ASSUME TypeInv, CountInv, Next, calm, pc \in {"servers", "ips"}, pc' = pc,
                      targets' = targets, NEW i \in work \ work',
                      pc = "servers" \/ AddressOf(i) # {}
               PROVE  Cardinality(targets) >= MaxTargets
    OBVIOUS
  <2>1. Refuse(i)
    BY TurnedAwayRefused DEF TurnedAway
  <2>2. n = Cardinality(targets)
    BY DEF CountInv
  <2>q. QED
    BY <2>1, <2>2 DEF Refuse
<1>q. QED
  BY <1>1, <1>2, <1>3, PTL DEF Spec, NoNeedlessRefusal

-----------------------------------------------------------------------------
(* What a reconcile works on *)

\* Server ids and server numbers are different, so that k8sNodes has a place
\* for every node.
OwnIds == CloudId \cap RobotId = {}

\* The Robot API answers with a list or with an error.
Answered == \A s \in Setups : "nil" \notin s.answers

\* A server has one node.
Distinct == \A x, y \in cluster : x.kind = y.kind /\ x.id = y.id => x = y

\* The addresses of Robot servers that should be targets.
WantedIPs ==
    IF RobotEnabled
      THEN {Address(x, setting = "private", robot) : x \in NodesOf(cluster, "robot")} \ {NoIP}
      ELSE {}

\* What a reconcile computed is about the nodes there are, and knows every
\* address that is wanted.
Current(j) ==
    /\ j.private = (setting = "private")
    /\ j.cloud = IdsOf(cluster, "cloud") /\ j.robot = IdsOf(cluster, "robot")
    /\ \A a \in WantedIPs : \E i \in j.robot : <<a, i>> \in j.ids

LEMMA WantedIs ==
    Wanted = {ServerTarget(i, setting = "private") : i \in IdsOf(cluster, "cloud")}
               \cup {IPTarget(a) : a \in WantedIPs}
  BY DEF Wanted, WantedIPs

\* k8sNodes holds every Robot node under its server number.
LEMMA RobotPick ==
    ASSUME OwnIds, cluster \subseteq Node, Distinct, NEW pick, Picks(pick),
           NEW x \in NodesOf(cluster, "robot")
    PROVE  x.id \in DOMAIN pick /\ pick[x.id] = x /\ x.id \in RobotId
<1>1. x \in cluster /\ x.kind = "robot" /\ x.id \in RobotId /\ x.id \in IdsOf(cluster, "robot")
  BY IdsType DEF NodesOf, IdsOf
<1>2. x.id \in DOMAIN pick
  BY <1>1 DEF Picks
<1>3. /\ pick[x.id] \in Node /\ pick[x.id] \in cluster /\ pick[x.id].id = x.id
      /\ pick[x.id].kind \in {"cloud", "robot"}
  BY <1>2, PickType
<1>4. pick[x.id].kind # "cloud"
  BY <1>1, <1>3 DEF OwnIds, Node
<1>q. QED
  BY <1>1, <1>2, <1>3, <1>4 DEF Distinct

\* A wanted address is in robotIPsToIDs.
LEMMA WantedKnown ==
    ASSUME OwnIds, cluster \subseteq Node, Distinct, NEW pick, Picks(pick), NEW a \in WantedIPs
    PROVE  \E i \in IdsOf(cluster, "robot") : <<a, i>> \in Maps(robot, setting = "private", pick).ids
<1> DEFINE private == setting = "private"
<1>1. PICK x \in NodesOf(cluster, "robot") : a = Address(x, private, robot)
  BY DEF WantedIPs
<1>2. RobotEnabled /\ a # NoIP
  BY DEF WantedIPs
<1>3. x.id \in DOMAIN pick /\ pick[x.id] = x /\ x.id \in IdsOf(cluster, "robot")
  BY RobotPick DEF IdsOf
<1>4. /\ x.internal => InternalIP(x) # NoIP
      /\ ~x.internal => InternalIP(x) = NoIP
  <2>1. x \in Node /\ x.kind = "robot"
    BY DEF NodesOf
  <2>q. QED
    BY <2>1, InternalType
<1>5. CASE RobotCreds
  <2>1. x.id \in robot
    BY <1>1, <1>2, <1>5 DEF Address
  <2>2. CASE private /\ x.internal
    <3>1. a = InternalIP(x) /\ a # NoIP
      BY <1>1, <1>2, <1>5, <2>1, <2>2 DEF Address
    <3>2. <<a, x.id>> \in FromAPI(robot, private, pick).ids
      BY <1>3, <2>1, <2>2, <3>1 DEF FromAPI
    <3>q. QED
      BY <1>2, <1>3, <1>5, <3>2 DEF Maps
  <2>3. CASE ~(private /\ x.internal)
    <3>1. a = ExternalIP(x.id)
      BY <1>1, <1>5, <2>1, <2>3 DEF Address
    <3>2. <<a, x.id>> \in FromAPI(robot, private, pick).ids
      BY <2>1, <3>1 DEF FromAPI
    <3>q. QED
      BY <1>2, <1>3, <1>5, <3>2 DEF Maps
  <2>q. QED
    BY <2>2, <2>3
<1>6. CASE ~RobotCreds
  <2>1. private /\ a = InternalIP(x)
    BY <1>1, <1>2, <1>6 DEF Address
  <2>2. <<a, x.id>> \in FromNodes(IdsOf(cluster, "robot"), pick).ids
    BY <1>2, <1>3, <2>1 DEF FromNodes
  <2>q. QED
    BY <1>2, <1>3, <1>6, <2>1, <2>2 DEF Maps
<1>q. QED
  BY <1>5, <1>6

LEMMA BeginList ==
    ASSUME Answered, TypeInv, NEW pick, NEW list, Began(pick, list)
    PROVE  list = robot
  BY DEF Answered, TypeInv, TypeOK, Began

LEMMA BeginCurrent ==
    ASSUME OwnIds, Answered, TypeInv, Distinct, Begin
    PROVE  Current(job')
<1>1. PICK pick, list : Began(pick, list)
  BY BeginMaps
<1>2. list = robot /\ Picks(pick) /\ cluster \subseteq Node
  BY <1>1, BeginList DEF Began, TypeInv, TypeOK
<1>3. \A a \in WantedIPs :
        \E i \in IdsOf(cluster, "robot") : <<a, i>> \in Maps(list, setting = "private", pick).ids
  BY <1>2, WantedKnown
<1>q. QED
  BY <1>1, <1>3 DEF Began, Current

LEMMA DistinctNext == Distinct /\ [Next]_vars => Distinct'
<1> SUFFICES ASSUME Distinct, [Next]_vars PROVE Distinct'
  OBVIOUS
<1>1. CASE cluster' \subseteq cluster
  BY <1>1 DEF Distinct
<1>2. ASSUME NEW x \in Node, NodeChanges(x) PROVE Distinct'
  BY <1>1, <1>2 DEF NodeChanges, Distinct
<1>3. CASE Step
  BY <1>1, <1>3, StepWorks DEF Working, envVars
<1>4. CASE \E i \in CloudId : ServerDeleted(i)
  BY <1>1, <1>4 DEF ServerDeleted
<1>5. CASE (\E i \in RobotId : RobotChanges(i)) \/ (\E x \in setup.settings : SettingChanges(x)) \/ OtherChange
  BY <1>1, <1>5 DEF RobotChanges, SettingChanges, OtherChange
<1>6. CASE Begin \/ BeginRejected \/ BeginFails \/ CallFails \/ UNCHANGED vars
  BY <1>1, <1>6 DEF Begin, BeginRejected, BeginFails, CallFails, envVars, vars
<1>q. QED
  BY <1>2, <1>3, <1>4, <1>5, <1>6 DEF Next, Environment

-----------------------------------------------------------------------------
(* No target is removed that is wanted *)

CurrentInv == TypeInv /\ Distinct /\ (calm /\ pc # "idle" => Current(job))

\* How a step relates to the reconcile that is under way.
LEMMA StepKinds ==
    ASSUME [Next]_vars
    PROVE  \/ Environment /\ calm' = FALSE
           \/ Begin
           \/ Working /\ (Step \/ UNCHANGED vars)
           \/ pc' = "idle"
<1>1. CASE UNCHANGED vars
  BY <1>1 DEF vars, Working, envVars
<1>2. CASE BeginRejected \/ BeginFails \/ CallFails
  BY <1>2 DEF BeginRejected, BeginFails, CallFails, End
<1>q. QED
  BY <1>1, <1>2, EnvironmentChanges, StepWorks DEF Next

LEMMA CurrentStays ==
    ASSUME UNCHANGED <<envVars, job>>, Current(job)
    PROVE  Current(job)'
<1>1. WantedIPs' = WantedIPs
  BY DEF WantedIPs, envVars, RobotEnabled, NodesOf, Address, RobotCreds
<1>2. IdsOf(cluster, "cloud")' = IdsOf(cluster, "cloud") /\ IdsOf(cluster, "robot")' = IdsOf(cluster, "robot")
  BY DEF envVars
<1>q. QED
  BY <1>1, <1>2 DEF Current, envVars

LEMMA CurrentNext ==
    ASSUME OwnIds, Answered
    PROVE  CurrentInv /\ [Next]_vars => CurrentInv'
<1> SUFFICES ASSUME CurrentInv, [Next]_vars PROVE (calm /\ pc # "idle" => Current(job))'
  BY TypeNext, DistinctNext DEF CurrentInv
<1>1. CASE Begin
  <2>1. Current(job')
    BY <1>1, BeginCurrent DEF CurrentInv
  <2>2. Current(job') => Current(job)'
    <3>1. WantedIPs' = WantedIPs
      BY <1>1 DEF Begin, WantedIPs, envVars, RobotEnabled, NodesOf, Address, RobotCreds
    <3>q. QED
      BY <1>1, <3>1 DEF Begin, Current, envVars
  <2>q. QED
    BY <2>1, <2>2
<1>2. CASE Working
  BY <1>2, CurrentStays DEF Working, CurrentInv
<1>q. QED
  BY <1>1, <1>2, StepKinds

\* A target that the first loop does not keep is not wanted.
LEMMA NotKept ==
    ASSUME TypeInv, Current(job), NEW t \in Target(setup.foreign), ~Keep(t)
    PROVE  t \notin Wanted
<1> SUFFICES ASSUME t \in Wanted PROVE FALSE
  OBVIOUS
<1>1. CASE t \in {ServerTarget(i, setting = "private") : i \in IdsOf(cluster, "cloud")}
  BY <1>1 DEF ServerTarget, Keep, Current
<1>2. CASE t \in {IPTarget(a) : a \in WantedIPs}
  <2>1. PICK a \in WantedIPs : t = IPTarget(a)
    BY <1>2
  <2>2. PICK i \in job.robot : <<a, i>> \in job.ids
    BY DEF Current
  <2>3. t.type = "ip" /\ t.ip = a /\ <<a, i>>[1] = a /\ <<a, i>>[2] = i
    BY <2>1 DEF IPTarget
  <2>q. QED
    BY <2>2, <2>3 DEF Keep
<1>q. QED
  BY <1>1, <1>2, WantedIs

\* If server ids and server numbers differ and the Robot API answers, a
\* reconcile does not touch a target that is wanted, not even when a call
\* fails, as long as nothing changes while it runs.
THEOREM NoNeedlessRemovalCorrect ==
    ASSUME OwnIds, Answered
    PROVE  Spec => NoNeedlessRemoval
<1>1. Init => CurrentInv
  BY TypeInit DEF Init, CurrentInv, Distinct
<1>2. CurrentInv /\ [Next]_vars => CurrentInv'
  BY CurrentNext
<1>3. CurrentInv /\ [Next]_vars =>
        [calm /\ calm' => targets \ targets' \subseteq targets \ Wanted]_vars
  <2> SUFFICES ASSUME CurrentInv, Next, calm, calm', NEW t \in targets, t \notin targets'
               PROVE  t \notin Wanted
    OBVIOUS
  <2>1. ASSUME NEW u, pc = "remove", u \in work, ~Keep(u), targets' = targets \ {u}
        PROVE  t \notin Wanted
    BY <2>1, NotKept DEF CurrentInv, TypeInv, TypeOK
  <2>2. ASSUME NEW u, targets' = targets \cup {u} PROVE FALSE
    BY <2>2
  <2>3. ~Environment /\ ~Begin /\ ~BeginRejected /\ ~BeginFails /\ targets' # targets
    BY EnvironmentChanges DEF Begin, BeginRejected, BeginFails
  <2>4. CASE CallFails
    <3>1. PICK u \in Called : pc = "remove" /\ targets' = targets \ {u}
      BY <2>4, <2>2, <2>3 DEF CallFails
    <3>q. QED
      BY <2>1, <3>1 DEF Called
  <2>5. CASE Step
    <3>1. ASSUME NEW i \in work, AddServerTarget(i) \/ AddIPTarget(i) PROVE FALSE
      BY <3>1, <2>2, <2>3 DEF AddServerTarget, AddIPTarget, Add, Refuse
    <3>2. PICK u \in work : RemoveTarget(u)
      BY <2>3, <2>5, <3>1
         DEF Step, KeepTarget, EndOfRemove, EndOfServers, Finish, CallRejected
    <3>q. QED
      BY <2>1, <3>2 DEF RemoveTarget
  <2>q. QED
    BY <2>3, <2>4, <2>5 DEF Next
<1>q. QED
  BY <1>1, <1>2, <1>3, PTL DEF Spec, NoNeedlessRemoval

-----------------------------------------------------------------------------
(* A reconcile that succeeds has done its work *)

\* With the Robot API, private addresses are not used: robotIPsToIDs keeps the
\* external ones then, and their targets stay.
PublicRobots == \A s \in Setups : s.robot = "api" => "private" \notin s.settings

\* robotIPsToIDs and robotIDToIPv4 know the wanted addresses of the nodes, one
\* for each node at most, and no others.
Exact(j) ==
    \A i \in j.robot :
        /\ \A a : <<a, i>> \in j.ids => a \in WantedIPs
        /\ \A a : <<i, a>> \in j.addrs => a \in WantedIPs
        /\ \A a, b : <<i, a>> \in j.addrs /\ <<i, b>> \in j.addrs => a = b

\* Every wanted address is in robotIDToIPv4.
Complete(j) == \A a \in WantedIPs : \E i \in j.robot : <<i, a>> \in j.addrs

LEMMA BeginExact ==
    ASSUME OwnIds, Answered, PublicRobots, TypeInv, Distinct, Begin
    PROVE  Exact(job') /\ Complete(job')
<1>1. PICK pick, list : Began(pick, list)
  BY BeginMaps
<1>2. list = robot /\ Picks(pick) /\ cluster \subseteq Node
  BY <1>1, BeginList DEF Began, TypeInv, TypeOK
<1> DEFINE private == setting = "private"
<1> DEFINE M == Maps(robot, private, pick)
<1>3. job'.robot = IdsOf(cluster, "robot") /\ job'.ids = M.ids /\ job'.addrs = M.addrs
  BY <1>1, <1>2 DEF Began
<1>4. ASSUME NEW i \in IdsOf(cluster, "robot")
      PROVE  \E x \in NodesOf(cluster, "robot") : x.id = i /\ pick[i] = x
  BY <1>2, RobotPick DEF IdsOf
<1>5. \A x \in NodesOf(cluster, "robot") :
        x.id \in IdsOf(cluster, "robot") /\ x.id \in RobotId /\ pick[x.id] = x
  BY <1>2, RobotPick DEF IdsOf
<1>6. CASE RobotEnabled /\ RobotCreds
  <2>1. ~private
    BY <1>6 DEF PublicRobots, TypeInv, TypeOK, RobotCreds
  <2>2. M.ids = {<<ExternalIP(i), i>> : i \in robot} /\ M.addrs = {<<i, ExternalIP(i)>> : i \in robot}
    BY <1>6, <2>1 DEF Maps, FromAPI
  <2>3. WantedIPs = {ExternalIP(x.id) : x \in {y \in NodesOf(cluster, "robot") : y.id \in robot}}
    <3>1. \A x \in NodesOf(cluster, "robot") : x.id \in robot =>
            Address(x, private, robot) = ExternalIP(x.id) /\ ExternalIP(x.id) # NoIP
      BY <1>5, <1>6, <2>1, ExternalType, TargetsAssumption DEF Address
    <3>2. \A x \in NodesOf(cluster, "robot") : x.id \notin robot => Address(x, private, robot) = NoIP
      BY <1>6 DEF Address
    <3>q. QED
      BY <1>6, <3>1, <3>2 DEF WantedIPs
  <2>4. \A i \in IdsOf(cluster, "robot") : i \in robot => ExternalIP(i) \in WantedIPs
    BY <1>4, <2>3
  <2>q. QED
    BY <1>3, <1>5, <2>2, <2>3, <2>4 DEF Exact, Complete
<1>7. CASE RobotEnabled /\ ~RobotCreds /\ private
  <2> DEFINE have == {i \in IdsOf(cluster, "robot") : InternalIP(pick[i]) # NoIP}
  <2>1. M.ids = {<<InternalIP(pick[i]), i>> : i \in have} /\ M.addrs = {<<i, InternalIP(pick[i])>> : i \in have}
    BY <1>7 DEF Maps, FromNodes
  <2>2. WantedIPs = {InternalIP(x) : x \in NodesOf(cluster, "robot")} \ {NoIP}
    BY <1>7 DEF WantedIPs, Address
  <2>3. \A i \in have : InternalIP(pick[i]) \in WantedIPs
    BY <1>4, <2>2
  <2>4. \A a \in WantedIPs : \E i \in have : a = InternalIP(pick[i])
    BY <1>5, <2>2
  <2>5. have \subseteq IdsOf(cluster, "robot")
    OBVIOUS
  <2> HIDE DEF have
  <2>q. QED
    BY <1>3, <2>1, <2>3, <2>4, <2>5 DEF Exact, Complete
<1>8. CASE ~RobotEnabled \/ (~RobotCreds /\ ~private)
  <2>1. M.ids = {} /\ M.addrs = {}
    BY <1>8 DEF Maps, NoMaps
  <2>2. WantedIPs = {}
    BY <1>8 DEF WantedIPs, Address
  <2>q. QED
    BY <1>3, <2>1, <2>2 DEF Exact, Complete
<1>q. QED
  BY <1>6, <1>7, <1>8

Full == Cardinality(targets) >= MaxTargets

\* The targets of the cloud servers that were gone through are there.
ServersDone(left) ==
    \A i \in job.cloud : i \in left \/ ServerTarget(i, job.private) \in targets \/ Full

\* The targets of the Robot servers that were gone through are there.
IPsDone(left) ==
    \A i \in job.robot : i \in left \/ Full \/ \A a \in AddressOf(i) : IPTarget(a) \in targets

\* How far the loops are.
LoopInv ==
    /\ Exact(job) /\ Complete(job)
    /\ pc = "remove" => /\ work \subseteq targets /\ kept \subseteq targets \cap Wanted
                        /\ Managed(targets) \subseteq kept \cup work
    /\ pc = "servers" => /\ kept \subseteq targets /\ Managed(targets) \subseteq Wanted
                         /\ ServersDone(work)
    /\ pc = "ips" => /\ Managed(targets) \subseteq Wanted /\ ServersDone({})
                     /\ RobotEnabled => IPsDone(work)

ConvergeInv == CurrentInv /\ CountInv /\ (calm /\ pc # "idle" => LoopInv)

LEMMA AddressOfIs ==
    ASSUME job \in Job, NEW i
    PROVE  AddressOf(i) = {a \in IP : <<i, a>> \in job.addrs}
<1>1. job.addrs \subseteq RobotId \X IP
  BY DEF Job
<1>q. QED
  BY <1>1 DEF AddressOf

\* A target that the first loop keeps is wanted.
LEMMA KeptWanted ==
    ASSUME TypeInv, Current(job), Exact(job), NEW t \in Target(setup.foreign), Keep(t)
    PROVE  t \in Wanted
<1>1. CASE t.type = "server"
  <2>1. t = ServerTarget(t.id, t.private)
    BY <1>1, TargetShape
  <2>2. t.id \in IdsOf(cluster, "cloud") /\ t.private = (setting = "private")
    BY <1>1 DEF Keep, Current
  <2>q. QED
    BY <2>1, <2>2, WantedIs
<1>2. CASE t.type = "ip"
  <2>1. t = IPTarget(t.ip)
    BY <1>2, TargetShape
  <2>2. PICK p \in job.ids : p[1] = t.ip /\ p[2] \in job.robot
    BY <1>2 DEF Keep
  <2>3. p = <<t.ip, p[2]>>
    BY <2>2 DEF TypeInv, TypeOK, Job
  <2>4. t.ip \in WantedIPs
    BY <2>2, <2>3 DEF Exact
  <2>q. QED
    BY <2>1, <2>4, WantedIs
<1>q. QED
  BY <1>1, <1>2 DEF Keep

\* What the second and the third loop add is wanted.
LEMMA AddedWanted ==
    ASSUME TypeInv, Current(job), Exact(job)
    PROVE  /\ \A i \in job.cloud : ServerTarget(i, job.private) \in Wanted
           /\ \A i \in job.robot : \A a \in AddressOf(i) : IPTarget(a) \in Wanted
<1>1. \A i \in job.robot : \A a \in AddressOf(i) : a \in WantedIPs
  BY AddressOfIs DEF Exact, TypeInv, TypeOK
<1>q. QED
  BY <1>1, WantedIs DEF Current

\* The predicates read what a working reconcile leaves alone.
LEMMA SameWanted ==
    ASSUME UNCHANGED <<envVars, job>>
    PROVE  /\ Wanted' = Wanted /\ RobotEnabled' = RobotEnabled
           /\ Exact(job) => Exact(job)'
           /\ Complete(job) => Complete(job)'
           /\ \A i : AddressOf(i)' = AddressOf(i)
<1>1. WantedIPs' = WantedIPs
  BY DEF WantedIPs, envVars, RobotEnabled, NodesOf, Address, RobotCreds
<1>2. IdsOf(cluster, "cloud")' = IdsOf(cluster, "cloud")
  BY DEF envVars
<1>3. Wanted' = Wanted
  <2>1. Wanted' = {ServerTarget(i, setting' = "private") : i \in IdsOf(cluster, "cloud")'}
                    \cup {IPTarget(a) : a \in WantedIPs'}
    BY DEF Wanted, WantedIPs
  <2>q. QED
    BY <1>1, <1>2, <2>1, WantedIs DEF envVars
<1>4. RobotEnabled' = RobotEnabled
  BY DEF RobotEnabled, envVars
<1>5. \A i : AddressOf(i)' = AddressOf(i)
  BY DEF AddressOf
<1>6. Exact(job) => Exact(job)'
  BY <1>1 DEF Exact
<1>7. Complete(job) => Complete(job)'
  BY <1>1 DEF Complete
<1>q. QED
  BY <1>3, <1>4, <1>5, <1>6, <1>7

\* The first loop keeps a target.
LEMMA LoopKeep ==
    ASSUME TypeInv, Current(job), LoopInv, NEW t \in work, KeepTarget(t)
    PROVE  LoopInv'
<1>1. pc = "remove" /\ pc' = pc /\ work' = work \ {t} /\ targets' = targets /\ UNCHANGED <<envVars, job>>
  BY DEF KeepTarget
<1>2. t \in Target(setup.foreign) /\ t \in targets
  BY <1>1 DEF TypeInv, TypeOK, LoopInv
<1>3. t.type # "label" => t \in Wanted
  BY <1>2, KeptWanted DEF KeepTarget, LoopInv
<1>4. kept' \subseteq targets' \cap Wanted
  BY <1>1, <1>2, <1>3 DEF KeepTarget, LoopInv
<1>5. Managed(targets') \subseteq kept' \cup work'
  BY <1>1 DEF KeepTarget, LoopInv, Managed
<1>q. QED
  BY <1>1, <1>4, <1>5, SameWanted DEF LoopInv

\* The first loop removes a target.
LEMMA LoopRemove ==
    ASSUME TypeInv, Current(job), LoopInv, NEW t \in work, RemoveTarget(t)
    PROVE  LoopInv'
<1>1. /\ pc = "remove" /\ pc' = pc /\ work' = work \ {t} /\ targets' = targets \ {t} /\ kept' = kept
      /\ UNCHANGED <<envVars, job>>
  BY DEF RemoveTarget
<1>2. t \in Target(setup.foreign) /\ ~Keep(t)
  BY <1>1 DEF TypeInv, TypeOK, RemoveTarget
<1>3. t \notin kept
  BY <1>1, <1>2, NotKept DEF LoopInv
<1>q. QED
  BY <1>1, <1>3, SameWanted DEF LoopInv, Managed

\* After the first loop only wanted targets are left.
LEMMA LoopEndOfRemove ==
    ASSUME TypeInv, Current(job), LoopInv, EndOfRemove
    PROVE  LoopInv'
<1>1. /\ pc = "remove" /\ pc' = "servers" /\ work = {} /\ work' = MissingServers
      /\ UNCHANGED <<envVars, job, targets, kept>>
  BY DEF EndOfRemove
<1>2. kept \subseteq targets /\ Managed(targets) \subseteq Wanted
  BY <1>1 DEF LoopInv
<1>3. ServersDone(work)'
  BY <1>1, <1>2 DEF ServersDone, MissingServers
<1>q. QED
  BY <1>1, <1>2, <1>3, SameWanted DEF LoopInv

\* The second loop adds a server, or finds the Load Balancer full.
LEMMA LoopServer ==
    ASSUME TypeInv, CountInv, calm, Current(job), LoopInv, NEW i \in work, AddServerTarget(i)
    PROVE  LoopInv'
<1>1. /\ pc = "servers" /\ pc' = pc /\ work' = work \ {i} /\ kept' = kept
      /\ UNCHANGED <<envVars, job>>
  BY DEF AddServerTarget, Add, Refuse
<1>2. i \in job.cloud
  BY <1>1 DEF TypeInv, TypeOK
<1>3. /\ targets \subseteq targets' /\ Managed(targets') \subseteq Wanted
      /\ ServerTarget(i, job.private) \in targets' \/ Full'
      /\ Full => Full'
  <2>1. CASE Add(i, ServerTarget(i, job.private))
    <3>1. targets' = targets \cup {ServerTarget(i, job.private)} /\ ~Full
      <4>1. targets' = targets \cup {ServerTarget(i, job.private)} /\ Cardinality(targets) < MaxTargets
        BY <2>1 DEF Add, Accepts
      <4>2. Cardinality(targets) \in Nat
        BY FS_CardinalityType DEF TypeInv
      <4>q. QED
        BY <4>1, <4>2, TargetsAssumption DEF Full
    <3>2. ServerTarget(i, job.private) \in Wanted
      BY <1>2, AddedWanted DEF LoopInv
    <3>q. QED
      BY <1>1, <3>1, <3>2 DEF LoopInv, Managed
  <2>2. CASE Refuse(i)
    <3>1. targets' = targets /\ Full'
      BY <1>1, <2>2 DEF Refuse, Full, CountInv
    <3>q. QED
      BY <1>1, <3>1 DEF LoopInv
  <2>q. QED
    BY <2>1, <2>2 DEF AddServerTarget
<1>4. ServersDone(work)'
  BY <1>1, <1>3 DEF LoopInv, ServersDone
<1>q. QED
  BY <1>1, <1>3, <1>4, SameWanted DEF LoopInv

\* The third loop starts with what the first did not keep.
LEMMA LoopEndOfServers ==
    ASSUME TypeInv, Current(job), LoopInv, EndOfServers
    PROVE  LoopInv'
<1>1. /\ pc = "servers" /\ pc' = "ips" /\ work = {}
      /\ work' = IF RobotEnabled THEN MissingIPs ELSE {}
      /\ UNCHANGED <<envVars, job, targets, kept>>
  BY DEF EndOfServers
<1>2. kept \subseteq targets /\ Managed(targets) \subseteq Wanted /\ ServersDone({})
  BY <1>1 DEF LoopInv
<1>3. ServersDone({})'
  BY <1>1, <1>2 DEF ServersDone, Full
<1>4. ASSUME RobotEnabled PROVE IPsDone(work)'
  <2>1. ASSUME NEW i \in job.robot, i \notin MissingIPs, NEW a \in AddressOf(i)
        PROVE  IPTarget(a) \in targets
    <3>1. PICK b \in AddressOf(i) : IPTarget(b) \in kept
      BY <2>1 DEF MissingIPs
    <3>2. a = b
      <4>1. AddressOf(i) = {c \in IP : <<i, c>> \in job.addrs}
        BY AddressOfIs DEF TypeInv, TypeOK
      <4>2. \A c, d : <<i, c>> \in job.addrs /\ <<i, d>> \in job.addrs => c = d
        BY DEF LoopInv, Exact
      <4>q. QED
        BY <4>1, <4>2
    <3>q. QED
      BY <1>2, <3>1, <3>2
  <2>q. QED
    BY <1>1, <1>4, <2>1, SameWanted DEF IPsDone
<1>q. QED
  BY <1>1, <1>2, <1>3, <1>4, SameWanted DEF LoopInv

\* The third loop adds an address, finds the Load Balancer full, or there is
\* no address to add.
LEMMA LoopIP ==
    ASSUME TypeInv, CountInv, calm, Current(job), LoopInv, NEW i \in work, AddIPTarget(i)
    PROVE  LoopInv'
<1>1. /\ pc = "ips" /\ pc' = pc /\ work' = work \ {i} /\ UNCHANGED <<envVars, job>>
  BY DEF AddIPTarget, Add, Refuse
<1>2. i \in job.robot
  BY <1>1 DEF TypeInv, TypeOK
<1>3. /\ targets \subseteq targets' /\ Managed(targets') \subseteq Wanted
      /\ Full' \/ \A a \in AddressOf(i) : IPTarget(a) \in targets'
      /\ Full => Full'
  <2>1. ASSUME NEW a \in AddressOf(i), Add(i, IPTarget(a)) PROVE <1>3!:
    <3>1. targets' = targets \cup {IPTarget(a)} /\ ~Full
      <4>1. targets' = targets \cup {IPTarget(a)} /\ Cardinality(targets) < MaxTargets
        BY <2>1 DEF Add, Accepts
      <4>2. Cardinality(targets) \in Nat
        BY FS_CardinalityType DEF TypeInv
      <4>q. QED
        BY <4>1, <4>2, TargetsAssumption DEF Full
    <3>2. IPTarget(a) \in Wanted
      BY <1>2, AddedWanted DEF LoopInv
    <3>3. \A b \in AddressOf(i) : b = a
      <4>1. AddressOf(i) = {b \in IP : <<i, b>> \in job.addrs}
        BY AddressOfIs DEF TypeInv, TypeOK
      <4>2. \A b, c : <<i, b>> \in job.addrs /\ <<i, c>> \in job.addrs => b = c
        BY <1>2 DEF LoopInv, Exact
      <4>q. QED
        BY <4>1, <4>2
    <3>q. QED
      BY <1>1, <3>1, <3>2, <3>3 DEF LoopInv, Managed
  <2>2. CASE Refuse(i)
    <3>1. targets' = targets /\ Full'
      BY <1>1, <2>2 DEF Refuse, Full, CountInv
    <3>q. QED
      BY <1>1, <3>1 DEF LoopInv
  <2>3. CASE AddressOf(i) = {} /\ targets' = targets
    BY <1>1, <2>3 DEF LoopInv, Full
  <2>q. QED
    BY <2>1, <2>2, <2>3 DEF AddIPTarget
<1>4. ServersDone({})'
  BY <1>1, <1>3 DEF LoopInv, ServersDone
<1>5. RobotEnabled => IPsDone(work)'
  BY <1>1, <1>3, SameWanted DEF LoopInv, IPsDone
<1>q. QED
  BY <1>1, <1>3, <1>4, <1>5, SameWanted DEF LoopInv

LEMMA ConvergeNext ==
    ASSUME OwnIds, Answered, PublicRobots
    PROVE  ConvergeInv /\ [Next]_vars => ConvergeInv'
<1> SUFFICES ASSUME ConvergeInv, [Next]_vars PROVE (calm /\ pc # "idle" => LoopInv)'
  BY CurrentNext, CountNext DEF ConvergeInv, CurrentInv
<1>1. CASE Begin
  <2>1. Exact(job') /\ Complete(job')
    BY <1>1, BeginExact DEF ConvergeInv, CurrentInv
  <2>2. Exact(job)' /\ Complete(job)'
    <3>1. WantedIPs' = WantedIPs
      BY <1>1 DEF Begin, WantedIPs, envVars, RobotEnabled, NodesOf, Address, RobotCreds
    <3>q. QED
      BY <2>1, <3>1 DEF Exact, Complete
  <2>q. QED
    BY <1>1, <2>2 DEF Begin, LoopInv, Managed
<1>2. CASE Working /\ UNCHANGED vars
  <2>1. calm' /\ pc' # "idle" => LoopInv
    BY <1>2 DEF vars, ConvergeInv
  <2>2. LoopInv => LoopInv'
    BY <1>2, SameWanted DEF vars, envVars, LoopInv, ServersDone, IPsDone, Full
  <2>q. QED
    BY <2>1, <2>2
<1>3. CASE Working /\ Step
  <2> SUFFICES ASSUME calm' PROVE LoopInv'
    OBVIOUS
  <2>1. TypeInv /\ CountInv /\ calm /\ Current(job) /\ LoopInv
    BY <1>3 DEF Working, ConvergeInv, CurrentInv
  <2>2. ~Finish /\ ~CallRejected
    BY <1>3 DEF Working, Finish, CallRejected, End
  <2>q. QED
    BY <1>3, <2>1, <2>2, LoopKeep, LoopRemove, LoopEndOfRemove, LoopServer, LoopIP, LoopEndOfServers
       DEF Step
<1>q. QED
  BY <1>1, <1>2, <1>3, StepKinds

\* If server ids and server numbers differ, the Robot API answers and private
\* addresses are not combined with it, a reconcile that reports success, with
\* nothing changing while it ran, leaves exactly the wanted targets, or some
\* of them on a Load Balancer that is full.
THEOREM ConvergedCorrect ==
    ASSUME OwnIds, Answered, PublicRobots
    PROVE  Spec => Converged
<1>1. Init => ConvergeInv
  BY TypeInit DEF Init, ConvergeInv, CurrentInv, CountInv, Distinct
<1>2. ConvergeInv /\ [Next]_vars => ConvergeInv'
  BY ConvergeNext
<1>3. ConvergeInv /\ [Next]_vars =>
        [Ended("ok") /\ calm =>
            /\ Managed(targets) \subseteq Wanted
            /\ Managed(targets) = Wanted \/ Cardinality(targets) >= MaxTargets]_vars
  <2> SUFFICES ASSUME ConvergeInv, Next, Ended("ok"), calm
               PROVE  /\ Managed(targets) \subseteq Wanted
                      /\ Managed(targets) = Wanted \/ Full
    BY DEF Full
  <2>1. Finish
    <3>1. ~Environment /\ ~Begin /\ ~BeginRejected /\ ~BeginFails /\ ~CallFails /\ ~CallRejected
      BY EnvironmentChanges
         DEF Ended, Begin, BeginRejected, BeginFails, CallFails, CallRejected, End
    <3>2. ASSUME NEW i \in work, AddServerTarget(i) \/ AddIPTarget(i) PROVE FALSE
      BY <3>2 DEF AddServerTarget, AddIPTarget, Add, Refuse, Ended
    <3>3. ASSUME NEW t \in work, KeepTarget(t) \/ RemoveTarget(t) PROVE FALSE
      BY <3>3 DEF KeepTarget, RemoveTarget, Ended
    <3>4. ~EndOfRemove /\ ~EndOfServers
      BY DEF EndOfRemove, EndOfServers, Ended
    <3>q. QED
      BY <3>1, <3>2, <3>3, <3>4 DEF Next, Step
  <2>2. pc = "ips" /\ work = {} /\ TypeInv /\ Current(job) /\ LoopInv
    BY <2>1 DEF Finish, ConvergeInv, CurrentInv
  <2>3. Managed(targets) \subseteq Wanted
    BY <2>2 DEF LoopInv
  <2>4. ASSUME ~Full, NEW t \in Wanted PROVE t \in Managed(targets)
    <3>1. CASE t \in {ServerTarget(i, setting = "private") : i \in IdsOf(cluster, "cloud")}
      <4>1. PICK i \in job.cloud : t = ServerTarget(i, job.private)
        BY <2>2, <3>1 DEF Current
      <4>2. t \in targets
        BY <2>2, <2>4, <4>1 DEF LoopInv, ServersDone
      <4>q. QED
        BY <4>1, <4>2 DEF Managed, ServerTarget
    <3>2. CASE t \in {IPTarget(a) : a \in WantedIPs}
      <4>1. PICK a \in WantedIPs : t = IPTarget(a)
        BY <3>2
      <4>2. RobotEnabled
        BY DEF WantedIPs
      <4>3. PICK i \in job.robot : <<i, a>> \in job.addrs
        BY <2>2 DEF LoopInv, Complete
      <4>4. a \in AddressOf(i)
        BY <2>2, <4>3, AddressOfIs DEF TypeInv, TypeOK, Job
      <4>5. t \in targets
        BY <2>2, <2>4, <4>1, <4>2, <4>4 DEF LoopInv, IPsDone
      <4>q. QED
        BY <4>1, <4>5 DEF Managed, IPTarget
    <3>q. QED
      BY <3>1, <3>2, WantedIs
  <2>q. QED
    BY <2>3, <2>4
<1>q. QED
  BY <1>1, <1>2, <1>3, PTL DEF Spec, Converged
=============================================================================
