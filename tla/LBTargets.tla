----------------------------- MODULE LBTargets -----------------------------
(***************************************************************************)
(* ReconcileHCLBTargets (internal/hcops/load_balancer.go): the targets of  *)
(* a Load Balancer are made to match the nodes of the cluster, one API     *)
(* call at a time.  Cloud servers are server targets, Robot servers are IP *)
(* targets.  Between two calls nodes come and go, servers are deleted and  *)
(* the annotation changes; every call may fail, and the next reconcile     *)
(* starts over from what the API then holds.                               *)
(***************************************************************************)
EXTENDS Integers, FiniteSets

CONSTANTS
    CloudId, RobotId, \* server ids and server numbers; they may overlap
    NoIP,             \* no address of this type, the empty string
    Setups,           \* the configurations the controller may run with
    MaxTargets,       \* MaxTargets of the Load Balancer's type
    MaxChanges,       \* bound on the changes of the environment
    MaxFails          \* bound on failing calls

\* network: NetworkID is set.  robot: Robot support is off, with the Robot
\* API, or from the nodes alone (no RobotClient).  settings: the values of
\* use-private-ip.  answers: what ServerGetList may return, "nil" for nil and
\* nil.  foreign: label selector targets the Load Balancer has.
Setup == [network: BOOLEAN, robot: {"off", "api", "nodes"},
          settings: SUBSET {"public", "private", "invalid"},
          answers: SUBSET {"list", "error", "nil"}, foreign: SUBSET {"selector"}]

\* The addresses of servers, in and outside of the private network.
IP == [net: {"ext", "int"}, kind: {"cloud", "robot"}, id: CloudId \cup RobotId]

ASSUME TargetsAssumption ==
    /\ Setups \subseteq Setup /\ NoIP \notin IP
    /\ MaxTargets \in Nat /\ MaxChanges \in Nat /\ MaxFails \in Nat

VARIABLES
    setup,    \* the configuration, which is read at the start
    cluster,  \* the nodes of the cluster
    robot,    \* the servers of the Robot API, as the client's cache has them
    setting,  \* use-private-ip of the service, by annotation or default
    targets,  \* the Load Balancer's targets at the API
    due,      \* the service controller's queue: "queued" if the service is in it,
              \* "unseen" if something changed since that does not put it there
    changes, fails,
    pc,       \* the loop the reconcile is in, "idle" if there is none
    job,      \* what it computed from its arguments
    work,     \* what the loop has left to go through
    kept,     \* the targets that stay: hclbTargetIDs, hclbTargetIPs
    n,        \* numberOfTargets
    calm,     \* history: nothing changed since the reconcile began
    res       \* what the reconcile that ended in the last step returned

vars == <<setup, cluster, robot, setting, targets, due, changes, fails, pc, job, work, kept, n, calm, res>>
envVars == <<setup, cluster, robot, setting, changes>>

-----------------------------------------------------------------------------
(* Data *)

HasNetwork == setup.network

\* Cfg.Robot.Enabled, and a RobotClient that is not nil.
RobotEnabled == setup.robot # "off"

RobotCreds == setup.robot = "api"

\* A node: what its provider id says (ToServerID), and whether it has an
\* address of type InternalIP.  "unknown" is a provider id without a known
\* prefix, "malformed" one without a number.
Node == [kind: {"cloud", "unknown", "malformed"}, id: CloudId, internal: BOOLEAN]
          \cup [kind: {"robot"}, id: RobotId, internal: BOOLEAN]

ExternalIP(id) == [net |-> "ext", kind |-> "robot", id |-> id]

\* getNodeInternalIP.
InternalIP(node) ==
    IF node.internal THEN [net |-> "int", kind |-> node.kind, id |-> node.id] ELSE NoIP

ServerTarget(id, private) == [type |-> "server", id |-> id, private |-> private]

IPTarget(ip) == [type |-> "ip", ip |-> ip]

\* The targets the API may hold, with these label selectors.
Target(foreign) ==
    [type: {"label"}, id: foreign] \cup [type: {"server"}, id: CloudId, private: BOOLEAN]
      \cup [type: {"ip"}, ip: IP]

\* The targets the controller manages, all but label selectors.
Managed(S) == {t \in S : t.type # "label"}

NodesOf(S, kind) == {x \in S : x.kind = kind}

IdsOf(S, kind) == {x.id : x \in NodesOf(S, kind)}

\* What a reconcile computes: usePrivateIP, k8sNodeIDsHCloud and
\* k8sNodeIDsRobot, robotIPsToIDs and robotIDToIPv4.
Job == [private: BOOLEAN, cloud: SUBSET CloudId, robot: SUBSET RobotId,
        ids: SUBSET (IP \X RobotId), addrs: SUBSET (RobotId \X IP)]

NoJob == [private |-> FALSE, cloud |-> {}, robot |-> {}, ids |-> {}, addrs |-> {}]

-----------------------------------------------------------------------------
(* What the Load Balancer should look like *)

\* The address a Robot node is reached at, NoIP if there is none.
Address(x, private, servers) ==
    IF RobotCreds
      THEN IF x.id \notin servers THEN NoIP
           ELSE IF private /\ x.internal THEN InternalIP(x) ELSE ExternalIP(x.id)
      ELSE IF private THEN InternalIP(x) ELSE NoIP

Wanted ==
    LET private == setting = "private"
        addresses == {Address(x, private, robot) : x \in NodesOf(cluster, "robot")} \ {NoIP}
    IN  {ServerTarget(i, private) : i \in IdsOf(cluster, "cloud")}
          \cup IF RobotEnabled THEN {IPTarget(a) : a \in addresses} ELSE {}

-----------------------------------------------------------------------------
Init ==
    /\ setup \in Setups
    /\ cluster = {} /\ robot \in SUBSET RobotId
    /\ setting \in setup.settings
    /\ targets = {[type |-> "label", id |-> f] : f \in setup.foreign}
    /\ due = "queued" /\ changes = 0 /\ fails = 0
    /\ pc = "idle" /\ job = NoJob /\ work = {} /\ kept = {} /\ n = 0
    /\ calm = TRUE /\ res = "none"

-----------------------------------------------------------------------------
(* The environment *)

Change ==
    /\ changes < MaxChanges
    /\ changes' = changes + 1
    /\ calm' = FALSE /\ res' = "none"
    /\ UNCHANGED <<setup, fails, pc, job, work, kept, n>>

\* External: the service controller syncs a service when it or the set of
\* nodes changes, but not for anything else.
Seen == due' = "queued"

Unseen == due' = IF due = "queued" THEN due ELSE "unseen"

\* A node joins, leaves, or gets or loses its InternalIP, which is not seen.
\* A Node object that is created again has the same provider id.
NodeChanges(x) ==
    /\ Change
    /\ IF \E y \in cluster \ {x} : y.kind = x.kind /\ y.id = x.id THEN Unseen ELSE Seen
    /\ \/ x \in cluster /\ cluster' = cluster \ {x}
       \/ /\ x \notin cluster
          /\ cluster' = {y \in cluster : y.kind # x.kind \/ y.id # x.id} \cup {x}
    /\ UNCHANGED <<robot, setting, targets>>

\* A Robot server is ordered or cancelled.
RobotChanges(i) ==
    /\ Change /\ Unseen
    /\ robot' = IF i \in robot THEN robot \ {i} ELSE robot \cup {i}
    /\ UNCHANGED <<cluster, setting, targets>>

SettingChanges(s) ==
    /\ Change /\ Seen
    /\ s # setting /\ setting' = s
    /\ UNCHANGED <<cluster, robot, targets>>

\* A cloud server is deleted: its node leaves and the API drops its target.
ServerDeleted(i) ==
    /\ Change /\ Seen
    /\ i \in IdsOf(cluster, "cloud")
    /\ cluster' = {x \in cluster : ~(x.kind = "cloud" /\ x.id = i)}
    /\ targets' = {t \in targets : ~(t.type = "server" /\ t.id = i)}
    /\ UNCHANGED <<robot, setting>>

\* The service is synced for another reason: a change that does not concern
\* the targets, or a restart of the controller.
OtherChange ==
    /\ Change /\ Seen
    /\ UNCHANGED <<cluster, robot, setting, targets>>

-----------------------------------------------------------------------------
(* Setting up the reconcile *)

\* The node k8sNodes holds under an id: ids and server numbers share the map,
\* the node that comes last in the list wins.
K8sNode(ns, id) == {x \in ns : x.kind \in {"cloud", "robot"} /\ x.id = id}

\* robotIPsToIDs and robotIDToIPv4 for the listed servers, as pairs.  With
\* private IPs the internal address is added to the first map and replaces
\* the external one in the second.  pick is what k8sNodes holds.
FromAPI(list, private, pick) ==
    LET internal(i) == IF private /\ i \in DOMAIN pick THEN InternalIP(pick[i]) ELSE NoIP
    IN  [ids   |-> {<<ExternalIP(i), i>> : i \in list}
                     \cup {<<internal(i), i>> : i \in {j \in list : internal(j) # NoIP}},
         addrs |-> {<<i, IF internal(i) = NoIP THEN ExternalIP(i) ELSE internal(i)>> : i \in list}]

\* The same maps made from the nodes alone, without Robot credentials.
FromNodes(robots, pick) ==
    LET have == {i \in robots : InternalIP(pick[i]) # NoIP}
    IN  [ids   |-> {<<InternalIP(pick[i]), i>> : i \in have},
         addrs |-> {<<i, InternalIP(pick[i])>> : i \in have}]

NoMaps == [ids |-> {}, addrs |-> {}]

\* Without credentials and without private IPs no address is known.
Maps(list, private, pick) ==
    IF RobotEnabled /\ RobotCreds THEN FromAPI(list, private, pick)
    ELSE IF RobotEnabled /\ private THEN FromNodes(IdsOf(cluster, "robot"), pick)
    ELSE NoMaps

\* Whether the reconcile returns an error before its first call that changes
\* something.
Invalid ==
    \/ setting = "invalid"
    \/ setting = "private" /\ ~HasNetwork
    \/ NodesOf(cluster, "malformed") # {}

\* The annotation, the network or a provider id is invalid.
BeginRejected ==
    /\ pc = "idle" /\ due = "queued" /\ Invalid
    /\ res' = "error"
    /\ UNCHANGED <<envVars, targets, due, fails, pc, job, work, kept, n, calm>>

\* The Robot servers cannot be listed.
BeginFails ==
    /\ pc = "idle" /\ due = "queued" /\ ~Invalid
    /\ RobotEnabled /\ RobotCreds /\ "error" \in setup.answers
    /\ fails < MaxFails /\ fails' = fails + 1
    /\ res' = "error"
    /\ UNCHANGED <<envVars, targets, due, pc, job, work, kept, n, calm>>

\* The maps are built and the Load Balancer's targets read.
Begin ==
    /\ pc = "idle" /\ due = "queued" /\ ~Invalid
    /\ \E pick \in [IdsOf(cluster, "cloud") \cup IdsOf(cluster, "robot") -> cluster],
          list \in {robot : a \in setup.answers \cap {"list"}}
                     \cup {{} : a \in setup.answers \cap {"nil"}} :
        /\ \A i \in DOMAIN pick : pick[i] \in K8sNode(cluster, i)
        /\ LET private == setting = "private"
               maps == Maps(list, private, pick)
           IN  job' = [private |-> private,
                       cloud   |-> IdsOf(cluster, "cloud"),
                       robot   |-> IdsOf(cluster, "robot"),
                       ids     |-> maps.ids,
                       addrs   |-> maps.addrs]
    /\ due' = "no"
    /\ pc' = "remove"
    /\ work' = targets
    /\ kept' = {}
    /\ n' = Cardinality(targets)
    /\ calm' = TRUE /\ res' = "none"
    /\ UNCHANGED <<envVars, targets, fails>>

-----------------------------------------------------------------------------
(* The first loop: targets that are not needed are removed *)

\* Mutant of Keep: use_private_ip of a server target is not compared.
Keep_IgnoresPrivate(t) ==
    \/ t.type = "server" /\ t.id \in job.cloud
    \/ t.type = "ip" /\ \E p \in job.ids : p[1] = t.ip /\ p[2] \in job.robot

\* Mutant of Keep: IP targets are removed as if Robot support were disabled.
Keep_ServersOnly(t) ==
    t.type = "server" /\ t.id \in job.cloud /\ t.private = job.private

\* Mutant of Keep: the comparison with use_private_ip is inverted.
Keep_Inverted(t) ==
    \/ t.type = "server" /\ t.id \in job.cloud /\ t.private # job.private
    \/ t.type = "ip" /\ \E p \in job.ids : p[1] = t.ip /\ p[2] \in job.robot

\* The node, and for a server the setting, of the target are still current.
Keep(t) ==
    \/ t.type = "server" /\ t.id \in job.cloud /\ t.private = job.private
    \/ t.type = "ip" /\ \E p \in job.ids : p[1] = t.ip /\ p[2] \in job.robot

KeepTarget(t) ==
    /\ pc = "remove" /\ t \in work
    /\ t.type = "label" \/ Keep(t)
    /\ work' = work \ {t}
    /\ kept' = IF t.type = "label" THEN kept ELSE kept \cup {t}
    /\ res' = "none"
    /\ UNCHANGED <<envVars, targets, due, fails, pc, job, n, calm>>

\* Mutant of RemoveTarget: numberOfTargets is not decremented.
RemoveTarget_NoCount(t) ==
    /\ pc = "remove" /\ t \in work
    /\ t.type # "label" /\ ~Keep(t)
    /\ t \in targets
    /\ targets' = targets \ {t}
    /\ work' = work \ {t}
    /\ res' = "none"
    /\ UNCHANGED <<envVars, due, fails, pc, job, kept, n, calm>>

RemoveTarget(t) ==
    /\ pc = "remove" /\ t \in work
    /\ t.type # "label" /\ ~Keep(t)
    /\ t \in targets
    /\ targets' = targets \ {t}
    /\ work' = work \ {t}
    /\ n' = n - 1
    /\ res' = "none"
    /\ UNCHANGED <<envVars, due, fails, pc, job, kept, calm>>

\* hclbTargetIDs and hclbTargetIPs leave these to be added.
MissingServers == {i \in job.cloud : ServerTarget(i, job.private) \notin kept}

EndOfRemove ==
    /\ pc = "remove" /\ work = {}
    /\ pc' = "servers"
    /\ work' = MissingServers
    /\ res' = "none"
    /\ UNCHANGED <<envVars, targets, due, fails, job, kept, n, calm>>

-----------------------------------------------------------------------------
(* The second and the third loop: missing targets are added *)

\* External: the API accepts another target.
Accepts(t) ==
    /\ Cardinality(targets) < MaxTargets
    /\ t.type = "server" => ~ \E u \in targets : u.type = "server" /\ u.id = t.id
    /\ t \notin targets

Add(i, t) ==
    /\ n < MaxTargets
    /\ Accepts(t)
    /\ targets' = targets \cup {t}
    /\ work' = work \ {i}
    /\ n' = n + 1
    /\ res' = "none"
    /\ UNCHANGED <<envVars, due, fails, pc, job, kept, calm>>

\* The limit is reached, by the controller's count or the API's: an event is
\* emitted and the loop goes on.
Refuse(i) ==
    /\ n >= MaxTargets \/ Cardinality(targets) >= MaxTargets
    /\ work' = work \ {i}
    /\ res' = "none"
    /\ UNCHANGED <<envVars, targets, due, fails, pc, job, kept, n, calm>>

AddServerTarget(i) ==
    /\ pc = "servers" /\ i \in work
    /\ Add(i, ServerTarget(i, job.private)) \/ Refuse(i)

\* Mutant of AddressOf: the check for an empty address is missing.
AddressOf_Empty(i) ==
    LET A == {p[2] : p \in {q \in job.addrs : q[1] = i}}
    IN  IF A = {} THEN {NoIP} ELSE A

\* robotIDToIPv4[i], as a set that is empty for the empty string.
AddressOf(i) == {p[2] : p \in {q \in job.addrs : q[1] = i}}

\* Robot nodes whose target was kept are not gone through; nodes without an
\* address get an event.
AddIPTarget(i) ==
    /\ pc = "ips" /\ i \in work
    /\ \/ \E a \in AddressOf(i) : Add(i, IPTarget(a)) \/ Refuse(i)
       \/ /\ AddressOf(i) = {}
          /\ work' = work \ {i}
          /\ res' = "none"
          /\ UNCHANGED <<envVars, targets, due, fails, pc, job, kept, n, calm>>

MissingIPs == {i \in job.robot : \A a \in AddressOf(i) : IPTarget(a) \notin kept}

EndOfServers ==
    /\ pc = "servers" /\ work = {}
    /\ pc' = "ips"
    /\ work' = IF RobotEnabled THEN MissingIPs ELSE {}
    /\ res' = "none"
    /\ UNCHANGED <<envVars, targets, due, fails, job, kept, n, calm>>

\* The service controller puts the service back into its queue after an error.
End(r) ==
    /\ due' = IF r = "error" THEN "queued" ELSE due
    /\ pc' = "idle" /\ job' = NoJob /\ work' = {} /\ kept' = {} /\ n' = 0
    /\ res' = r

Finish ==
    /\ pc = "ips" /\ work = {}
    /\ End("ok")
    /\ UNCHANGED <<envVars, targets, fails, calm>>

\* The targets the loop may make its next call for.
Called ==
    IF pc = "remove" THEN {t \in work : t.type # "label" /\ ~Keep(t)}
    ELSE IF n >= MaxTargets THEN {}
    ELSE IF pc = "servers" THEN {ServerTarget(i, job.private) : i \in work}
    ELSE {IPTarget(a) : a \in UNION {AddressOf(i) : i \in work}}

\* A call or the wait for its action fails, and the reconcile returns the
\* error.  The call may have had its effect all the same.
CallFails ==
    /\ pc # "idle"
    /\ fails < MaxFails /\ fails' = fails + 1
    /\ \E t \in Called :
        \/ UNCHANGED targets
        \/ pc = "remove" /\ targets' = targets \ {t}
        \/ pc # "remove" /\ Accepts(t) /\ targets' = targets \cup {t}
    /\ End("error")
    /\ UNCHANGED <<envVars, calm>>

\* The API rejects the call because the targets are not those that were read.
CallRejected ==
    /\ pc # "idle"
    /\ \E t \in Called :
        IF pc = "remove" THEN t \notin targets
                         ELSE Cardinality(targets) < MaxTargets /\ ~Accepts(t)
    /\ End("error")
    /\ UNCHANGED <<envVars, targets, fails, calm>>

Step ==
    \/ \E t \in work : KeepTarget(t) \/ RemoveTarget(t)
    \/ EndOfRemove
    \/ \E i \in work : AddServerTarget(i) \/ AddIPTarget(i)
    \/ EndOfServers \/ Finish \/ CallRejected

Environment ==
    \/ \E x \in Node : NodeChanges(x)
    \/ \E i \in RobotId : RobotChanges(i)
    \/ \E s \in setup.settings : SettingChanges(s)
    \/ \E i \in CloudId : ServerDeleted(i)
    \/ OtherChange

Next == Environment \/ Begin \/ BeginRejected \/ BeginFails \/ Step \/ CallFails

Spec == Init /\ [][Next]_vars

\* A service in the queue is worked on, and a call that was begun goes on.  What
\* is not in the queue is left alone.
FairSpec == Spec /\ WF_vars(Begin) /\ WF_vars(Step)
-----------------------------------------------------------------------------
(* Properties *)

\* Types of the environment, the API and the reconcile; a target the API
\* holds is one of the three types.
TypeOK ==
    /\ cluster \subseteq Node /\ robot \subseteq RobotId /\ setup \in Setups /\ setting \in setup.settings
    /\ targets \subseteq Target(setup.foreign) /\ kept \subseteq Target({})
    /\ due \in {"no", "unseen", "queued"} /\ changes \in 0..MaxChanges /\ fails \in 0..MaxFails
    /\ pc \in {"idle", "remove", "servers", "ips"} /\ job \in Job
    /\ pc = "remove" => work \subseteq Target(setup.foreign)
    /\ pc = "servers" => work \subseteq job.cloud
    /\ pc = "ips" => work \subseteq job.robot
    /\ n \in Int /\ calm \in BOOLEAN /\ res \in {"none", "ok", "error"}

Ended(r) == pc # "idle" /\ pc' = "idle" /\ res' = r

\* A reconcile that reports success, with nothing changing meanwhile, leaves
\* the wanted targets and no others, unless the Load Balancer is full.
Converged ==
    [][Ended("ok") /\ calm =>
        /\ Managed(targets) \subseteq Wanted
        /\ Managed(targets) = Wanted \/ Cardinality(targets) >= MaxTargets]_vars

\* Traffic to a node is not interrupted: a target that is wanted, and was
\* there when the reconcile began, is never removed.
NoNeedlessRemoval == [][calm /\ calm' => targets \ targets' \subseteq targets \ Wanted]_vars

\* A node is turned away only when the Load Balancer is really full; a target
\* that is about to be re-created with another use_private_ip gives its place
\* back first.
NoNeedlessRefusal ==
    [][/\ calm /\ pc \in {"servers", "ips"} /\ pc' = pc /\ work' # work /\ targets' = targets
       /\ \E i \in work \ work' : pc = "servers" \/ AddressOf(i) # {}
       => Cardinality(targets) >= MaxTargets]_vars

\* Once the environment no longer changes, the reconcile ends and the Load
\* Balancer settles, though a reconcile that succeeded is not repeated: it has
\* the wanted targets or is full, and stays so.  Only a change the service
\* controller does not see, of Robot servers or of a node's InternalIP, has to
\* wait for another sync.
Settles ==
    <>[](/\ pc = "idle"
         /\ \/ due = "unseen"
            \/ Invalid
            \/ Managed(targets) = Wanted
            \/ Managed(targets) \subseteq Wanted /\ Cardinality(targets) >= MaxTargets)
=============================================================================
