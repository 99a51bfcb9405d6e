--------------------------- MODULE LoadBalancers ---------------------------
(***************************************************************************)
(* EnsureLoadBalancer, UpdateLoadBalancer and EnsureLoadBalancerDeleted    *)
(* (hcloud/load_balancers.go) over the operations they are made of         *)
(* (internal/hcops/load_balancer.go): a Load Balancer of the API is found  *)
(* by label or name, or created, and then changed stage by stage until it  *)
(* matches the Kubernetes service.                                         *)
(*                                                                         *)
(* A call works on a copy of the Load Balancer that it read at the start   *)
(* and reloads at few places.  Calls are made by the service controller of *)
(* Kubernetes: by its service workers when a service changed, and by its   *)
(* node worker when the nodes changed.  The loops of ReconcileHCLBTargets  *)
(* have a module of their own, LBTargets; here they are one step.          *)
(***************************************************************************)
EXTENDS Integers, Sequences, FiniteSets, Functions

CONSTANTS
    Svc,         \* the services; a service is also its UID and default name
    Config,      \* the specs and annotations services may have
    Imported,    \* the names of Load Balancers that exist without a label
    ServerId,    \* the servers that may be nodes of the cluster
    IP,          \* addresses of the private network NetworkID
    OtherIP,     \* an address of another private network
    HasNetwork,  \* NetworkID is set
    Attrs,       \* the scalar settings that are modelled, some of AllAttrs
    MaxServices, \* how many services the API lets a Load Balancer have
    Worker,      \* goroutines of the service controller
    Unset,       \* an annotation (and default) that is not there
    Empty,       \* an annotation that is the empty string
    NoLB, Absent, Idle,
    MaxLB,       \* bound on the Load Balancers ever created
    MaxChanges,  \* bound on the changes of services and nodes
    MaxFails     \* bound on calls of the API that fail

\* Ids of Load Balancers, given out in this order.
LB == 1..MaxLB

AllAttrs == {"rdns4", "rdns6", "algorithm", "type", "public"}

\* Mutant of NameOf: the default name does not depend on the service.
NameOf_Fixed(s, c) == IF c.name = Unset THEN Empty ELSE c.name

\* GetLoadBalancerName.
NameOf(s, c) == IF c.name = Unset THEN s ELSE c.name

\* The API: what a new Load Balancer has if nothing is asked for.
Default == 0

Server(n, private) == [server |-> n, private |-> private]

\* What services may ask for: names, values of settings, ports and targets.
Conf == UNION {Config[s] : s \in Svc}
Names(s) == {NameOf(s, c) : c \in Config[s]}
AnyName == Range(Imported) \cup UNION {Names(s) : s \in Svc}
AnyValue == {Default} \cup UNION {Range(c.attr) : c \in Conf}
AnyPort == UNION {c.ports : c \in Conf}
AnyTarget == {Server(n, p) : n \in ServerId, p \in BOOLEAN}

\* The Load Balancers that the API may hold.
LoadBalancer ==
    [label: Svc \cup {Unset}, name: AnyName, attr: [Attrs -> AnyValue], ips: SUBSET (IP \cup {OtherIP}),
     ports: SUBSET AnyPort, targets: SUBSET AnyTarget, protected: BOOLEAN]

ASSUME LoadBalancersAssumption ==
    /\ MaxLB \in Nat /\ Imported \in Seq(Range(Imported) \ Svc) /\ Len(Imported) <= MaxLB
    /\ HasNetwork \in BOOLEAN /\ Attrs \subseteq AllAttrs
    /\ MaxServices \in Nat /\ MaxChanges \in Nat /\ MaxFails \in Nat
    /\ NoLB \notin LB /\ Unset \notin Svc /\ Absent \notin LoadBalancer
    /\ IP \cap {Unset, Empty, OtherIP} = {}
    /\ \A s \in Svc : \A c \in Config[s] :
        /\ c.ip \in IP \cup {Unset, Empty} /\ c.private \in BOOLEAN
        /\ DOMAIN c.attr = Attrs /\ IsFiniteSet(c.ports) /\ c.select \subseteq ServerId

VARIABLES
    svc,      \* each service as the API server has it, Absent if it needs no LB
    nodes,    \* the nodes of the cluster
    lbs,      \* the API: each Load Balancer, Absent if there is none
    used,     \* how many ids were given out
    known,    \* the service controller's cache: the service as last synced
    dirty,    \* services to be synced
    stale,    \* services whose targets are to be synced
    job,      \* the call each worker is in, Idle if there is none
    changes, fails,
    res       \* what the call that ended in the last step returned

vars == <<svc, nodes, lbs, used, known, dirty, stale, job, changes, fails, res>>
envVars == <<svc, nodes, changes>>
ctlVars == <<known, dirty, stale>>

-----------------------------------------------------------------------------
(* Data *)

\* Settings of a service are records with its annotations, the cluster-wide
\* defaults already applied and Unset if there is neither: name, attr (the
\* scalar settings), ip, private (use-private-ip), select (the nodes that the
\* node-selector matches), ports (its TCP ports), and bad, the stages that
\* reject an annotation of the service (not parseable, no location).
Bad(c) == c.bad \cup IF c.private /\ ~HasNetwork THEN {"targets"} ELSE {}

NewLB(label, name, attr) ==
    [label |-> label, name |-> name, attr |-> attr, ips |-> {}, ports |-> {},
     targets |-> {}, protected |-> FALSE]

Live == {x \in LB : lbs[x] # Absent}

Named(name) == {x \in Live : lbs[x].name = name}

\* The Load Balancers that carry the UID of s as a label.
Owned(s) == {x \in Live : lbs[x].label = s}

NoResult == [op |-> "none"]

\* The order of the stages after the Load Balancer was found: ReconcileHCLB,
\* and then services and targets, with Ensure reloading in between.
ReconcileHCLB == <<"info", "rdns4", "rdns6", "algorithm", "type", "detach", "attach", "public">>

Services == <<"ports", "leftover">>

Stages(op) ==
    IF op = "Ensure" THEN ReconcileHCLB \o <<"reload">> \o Services \o <<"targets", "reload">>
                     ELSE ReconcileHCLB \o <<"targets">> \o Services

-----------------------------------------------------------------------------
Init ==
    /\ svc = [s \in Svc |-> Absent]
    /\ nodes = {}
    /\ \E ips \in {{}, {OtherIP}} :
        lbs = [x \in LB |->
                IF x \in DOMAIN Imported
                  THEN [NewLB(Unset, Imported[x], [a \in Attrs |-> Default]) EXCEPT !.ips = ips]
                  ELSE Absent]
    /\ used = Len(Imported)
    /\ known = [s \in Svc |-> Absent]
    /\ dirty = {} /\ stale = {}
    /\ job = [w \in Worker |-> Idle]
    /\ changes = 0 /\ fails = 0
    /\ res = NoResult

-----------------------------------------------------------------------------
(* The environment *)

\* Calls in flight are no longer alone: something they depend on changed.
Disturb(w) ==
    [v \in Worker |-> IF v = w \/ job[v] = Idle THEN job[v] ELSE [job[v] EXCEPT !.calm = FALSE]]

Change ==
    /\ changes < MaxChanges /\ changes' = changes + 1
    /\ job' = Disturb(Idle)
    /\ res' = NoResult
    /\ UNCHANGED <<lbs, used, known, fails>>

\* A service is created, edited, or no longer of type LoadBalancer.
ServiceChanges(s, c) ==
    /\ Change
    /\ svc[s] # c /\ svc' = [svc EXCEPT ![s] = c]
    /\ dirty' = dirty \cup {s}
    /\ UNCHANGED <<nodes, stale>>

\* A server joins or leaves the cluster: the targets of every service that is
\* known are synced.
NodesChange(n) ==
    /\ Change
    /\ nodes' = IF n \in nodes THEN nodes \ {n} ELSE nodes \cup {n}
    /\ stale' = stale \cup {s \in Svc : known[s] # Absent}
    /\ UNCHANGED <<svc, dirty>>

\* The owner of the project protects a Load Balancer from deletion.
Protect(x) ==
    /\ changes < MaxChanges /\ changes' = changes + 1
    /\ x \in Live /\ ~lbs[x].protected
    /\ lbs' = [lbs EXCEPT ![x].protected = TRUE]
    /\ job' = Disturb(Idle)
    /\ res' = NoResult
    /\ UNCHANGED <<svc, nodes, used, known, dirty, stale, fails>>

-----------------------------------------------------------------------------
(* External: the service controller.  A service has at most one sync, and at *)
(* most one sync of its targets, at a time.  A failed one is tried again.    *)

Active(s, ops) == \E w \in Worker : job[w] # Idle /\ job[w].svc = s /\ job[w].op \in ops

Begin(w, op, s, c) ==
    /\ job[w] = Idle
    /\ job' = [job EXCEPT ![w] =
            [op |-> op, svc |-> s, conf |-> c, nodes |-> nodes, stage |-> "byUID", todo |-> <<>>,
             lb |-> NoLB, copy |-> Absent, work |-> {}, changed |-> FALSE,
             retried |-> FALSE, calm |-> \A v \in Worker : job[v] = Idle]]
    /\ res' = NoResult
    /\ UNCHANGED <<envVars, lbs, used, fails>>

SyncService(w, s) ==
    /\ s \in dirty /\ ~Active(s, {"Ensure", "Delete"})
    /\ \/ /\ svc[s] # Absent
          /\ Begin(w, "Ensure", s, svc[s])
          /\ known' = [known EXCEPT ![s] = svc[s]]
       \/ /\ svc[s] = Absent
          /\ Begin(w, "Delete", s, known[s])
          /\ UNCHANGED known
    /\ dirty' = dirty \ {s}
    /\ UNCHANGED stale

SyncNodes(w, s) ==
    /\ s \in stale /\ known[s] # Absent /\ ~Active(s, {"Update"})
    /\ Begin(w, "Update", s, known[s])
    /\ stale' = stale \ {s}
    /\ UNCHANGED <<known, dirty>>

\* The call of w returns.
Return(w, ok, ingress) ==
    LET j == job[w]
    IN  /\ res' = [op |-> j.op, svc |-> j.svc, ok |-> ok, ingress |-> ingress]
        /\ dirty' = IF ~ok /\ j.op # "Update" THEN dirty \cup {j.svc} ELSE dirty
        /\ stale' = IF ~ok /\ j.op = "Update" THEN stale \cup {j.svc} ELSE stale
        /\ known' = IF ok /\ j.op = "Delete" THEN [known EXCEPT ![j.svc] = Absent] ELSE known
        /\ UNCHANGED envVars

Ended(w) == [Disturb(w) EXCEPT ![w] = Idle]

Failed(w) == Return(w, FALSE, {}) /\ job' = Ended(w) /\ UNCHANGED fails

-----------------------------------------------------------------------------
(* What the stages have to do *)

\* detachFromNetwork: the addresses of the copy that have to go.
Detached(j) == {a \in j.copy.ips : ~HasNetwork \/ a = OtherIP \/ j.conf.ip \notin {Unset, a}}

\* Mutant of LbAttached: the address is not compared.
LbAttached_AnyIP(j) == j.copy.ips \ {OtherIP} # {}

\* lbAttached: asked of the copy, even after a detach.
LbAttached(j) == \E a \in j.copy.ips \ {OtherIP} : j.conf.ip \in {Unset, Empty, a}

Wanted(j) == {Server(n, j.conf.private) : n \in j.nodes \cap j.conf.select}

\* changeHCLBInfo: the label is that of another service or none, or the name
\* is not the one of the annotation.
InfoDiffers(j) ==
    \/ j.copy.label # j.svc
    \/ j.conf.name # Unset /\ j.conf.name # j.copy.name

Once(cond, st) == IF cond THEN {st} ELSE {}

\* The five scalar settings are compared in the same way; a setting that is
\* not there, or no longer, is left as it is.
AttrDiffers(j, a) == a \in Attrs /\ j.conf.attr[a] \notin {Unset, j.copy.attr[a]}

\* The calls a stage has to make, given the copy.
WorkOf(st, j) ==
    IF st \in Bad(j.conf) THEN {st}
    ELSE IF st \in AllAttrs THEN Once(AttrDiffers(j, st), st)
    ELSE CASE st = "info"     -> Once(InfoDiffers(j), st)
           [] st = "detach"   -> Detached(j)
           [] st = "attach"   -> Once(HasNetwork /\ ~LbAttached(j), st)
           [] st = "ports"    -> j.conf.ports
           [] st = "leftover" -> j.copy.ports \ j.conf.ports
           [] st = "targets"  -> Once(j.copy.targets # Wanted(j), st)
           [] st = "reload"   -> Once(j.changed, st)

\* Stages without a call are passed over; the stage is "end" after the last.
Enter(j, todo) ==
    LET busy == {k \in DOMAIN todo : WorkOf(todo[k], j) # {}}
        k == CHOOSE m \in busy : \A o \in busy : m <= o
    IN  IF busy = {}
          THEN [j EXCEPT !.stage = "end", !.todo = <<>>, !.work = {}]
          ELSE [j EXCEPT !.stage = todo[k], !.todo = SubSeq(todo, k + 1, Len(todo)),
                         !.work = WorkOf(todo[k], j)]

\* The Load Balancer was found.
Got(j, x) ==
    LET got == [j EXCEPT !.lb = x, !.copy = lbs[x]]
    IN  IF j.op = "Delete" THEN [got EXCEPT !.stage = "delete"] ELSE Enter(got, Stages(j.op))

-----------------------------------------------------------------------------
(* Finding, creating and deleting the Load Balancer *)

\* The call returns without an error and without another call of the API.
Done(w, ingress) == Return(w, TRUE, ingress) /\ job' = Ended(w) /\ UNCHANGED <<lbs, used, fails>>

Continue(w, j) ==
    /\ job' = [Disturb(w) EXCEPT ![w] = j]
    /\ res' = NoResult
    /\ UNCHANGED <<envVars, ctlVars, fails>>

\* matchNodeSelector rejects the annotation.
SelectorInvalid(j) == j.op # "Delete" /\ "select" \in j.conf.bad

\* Mutant of ByUID: Load Balancers are looked up by name, as before the label
\* was introduced.
ByUID_NameOnly(w) ==
    LET j == job[w]
    IN  /\ j # Idle /\ j.stage = "byUID" /\ ~SelectorInvalid(j) /\ j.op # "Delete"
        /\ Continue(w, [j EXCEPT !.stage = "byName"])
        /\ UNCHANGED <<lbs, used>>

\* GetByK8SServiceUID: not found leads on to the name, or ends a deletion.
ByUID(w) ==
    LET j == job[w]  own == Owned(j.svc)
    IN  /\ j # Idle /\ j.stage = "byUID" /\ ~SelectorInvalid(j)
        /\ \/ /\ Cardinality(own) = 1
              /\ \E x \in own : Continue(w, Got(j, x))
              /\ UNCHANGED <<lbs, used>>
           \/ /\ own = {} /\ j.op # "Delete"
              /\ Continue(w, [j EXCEPT !.stage = "byName"])
              /\ UNCHANGED <<lbs, used>>
           \/ own = {} /\ j.op = "Delete" /\ Done(w, {})
           \/ Cardinality(own) > 1 /\ Failed(w) /\ UNCHANGED <<lbs, used>>

\* GetByName: Ensure goes on to create the Load Balancer, Update gives up.
ByName(w) ==
    LET j == job[w]  found == Named(NameOf(j.svc, j.conf))
    IN  /\ j # Idle /\ j.stage = "byName"
        /\ \/ \E x \in found : Continue(w, Got(j, x)) /\ UNCHANGED <<lbs, used>>
           \/ /\ found = {} /\ j.op = "Ensure"
              /\ Continue(w, [j EXCEPT !.stage = "create"])
              /\ UNCHANGED <<lbs, used>>
           \/ found = {} /\ j.op = "Update" /\ Done(w, {})

\* Mutant of Created: the label has no value.
Created_EmptyLabel(j) ==
    NewLB(Empty, NameOf(j.svc, j.conf), [a \in Attrs |-> Default])

\* Create asks for the algorithm, the type and the public interface.
Created(j) ==
    NewLB(j.svc, NameOf(j.svc, j.conf),
          [a \in Attrs |-> IF a \in {"rdns4", "rdns6"} \/ j.conf.attr[a] = Unset
                             THEN Default ELSE j.conf.attr[a]])

CanCreate(j) == "create" \notin j.conf.bad /\ Named(NameOf(j.svc, j.conf)) = {}

Create(w) ==
    LET j == job[w]
    IN  /\ j # Idle /\ j.stage = "create" /\ CanCreate(j)
        /\ used < MaxLB /\ used' = used + 1
        /\ lbs' = [lbs EXCEPT ![used + 1] = Created(j)]
        /\ LET got == [j EXCEPT !.lb = used + 1, !.copy = Created(j)]
           IN  Continue(w, Enter(got, Stages(j.op)))

\* External: the API deletes a Load Balancer unless it is protected; one that
\* is gone already is not an error for Delete.
CanDelete(j) == lbs[j.lb] # Absent => ~lbs[j.lb].protected

\* EnsureLoadBalancerDeleted leaves a protected Load Balancer alone.
Delete(w) ==
    LET j == job[w]
    IN  /\ j # Idle /\ j.stage = "delete"
        /\ \/ j.copy.protected /\ UNCHANGED lbs
           \/ ~j.copy.protected /\ CanDelete(j) /\ lbs' = [lbs EXCEPT ![j.lb] = Absent]
        /\ Return(w, TRUE, {})
        /\ job' = Ended(w)
        /\ UNCHANGED <<used, fails>>

-----------------------------------------------------------------------------
(* The calls of the stages *)

\* External: the addresses an attached Load Balancer may get.
FreeIPs(ip) ==
    {a \in IP : (ip # Unset => a = ip) /\ \A x \in Live : a \notin lbs[x].ips}

\* Each of the following gives what the API makes of the Load Balancer b when
\* the call is made, as a set that is empty if it rejects the call.

\* changeHCLBInfo; names are unique in a project.
ChangeInfo(j, b) ==
    IF j.conf.name = Unset THEN {[b EXCEPT !.label = j.svc]}
    ELSE {[b EXCEPT !.label = j.svc, !.name = j.conf.name] :
             x \in Once(Named(j.conf.name) \subseteq {j.lb}, j.lb)}

\* changeIPv4RDNS, changeIPv6RDNS, changeAlgorithm, changeType and
\* togglePublicInterface.
ChangeAttr(j, b) == {[b EXCEPT !.attr[j.stage] = j.conf.attr[j.stage]]}

\* detachFromNetwork: the targets reached over the private network are lost.
Detach(i, b) == {[b EXCEPT !.ips = @ \ {i}, !.targets = {t \in @ : ~t.private}] : x \in b.ips \cap {i}}

\* attachToNetwork, with the address asked for or any other.
Attach(j, b) ==
    {[b EXCEPT !.ips = @ \cup {a}] : a \in {x \in FreeIPs(j.conf.ip) : b.ips \subseteq {OtherIP}}}

\* A port of the service is added, or updated if the copy has it.
SetPort(j, i, b) ==
    IF i \in j.copy.ports THEN {b : x \in b.ports \cap {i}}
    ELSE {[b EXCEPT !.ports = @ \cup {i}] :
             x \in Once(i \notin b.ports /\ Cardinality(b.ports) < MaxServices, i)}

DropPort(i, b) == {[b EXCEPT !.ports = @ \ {i}] : x \in b.ports \cap {i}}

\* ReconcileHCLBTargets: targets of the copy that are not wanted are removed,
\* wanted ones that are not in the copy are added.
Retarget(j, b) ==
    LET remove == j.copy.targets \ Wanted(j)
        add == Wanted(j) \ j.copy.targets
    IN  {[b EXCEPT !.targets = (@ \ remove) \cup add] :
            x \in Once(remove \subseteq b.targets /\ add \cap b.targets = {}, j.lb)}

\* Call i of the stage.
Applied(j, i, b) ==
    LET st == j.stage
    IN  IF st \in Bad(j.conf) THEN {}
        ELSE IF st \in AllAttrs THEN ChangeAttr(j, b)
        ELSE CASE st = "info"     -> ChangeInfo(j, b)
               [] st = "detach"   -> Detach(i, b)
               [] st = "attach"   -> Attach(j, b)
               [] st = "ports"    -> SetPort(j, i, b)
               [] st = "leftover" -> DropPort(i, b)
               [] st = "targets"  -> Retarget(j, b)
               [] st = "reload"   -> {b}

Outcomes(j, i) == IF lbs[j.lb] = Absent THEN {} ELSE Applied(j, i, lbs[j.lb])

\* Mutant of Learned: the early reload is left out.
Learned_NoReload(j, b) ==
    IF j.stage = "info" THEN [j EXCEPT !.copy.label = b.label, !.copy.name = b.name, !.changed = TRUE]
    ELSE IF j.stage = "reload" THEN [j EXCEPT !.changed = FALSE]
    ELSE [j EXCEPT !.changed = TRUE]

\* What the call changes in the copy: Update returns name and labels, a
\* reload everything, the other calls nothing.
Learned(j, b) ==
    IF j.stage = "info" THEN [j EXCEPT !.copy.label = b.label, !.copy.name = b.name, !.changed = TRUE]
    ELSE IF j.stage = "reload" THEN [j EXCEPT !.copy = b, !.changed = FALSE]
    ELSE [j EXCEPT !.changed = TRUE]

InStage(w) == job[w] # Idle /\ job[w].work # {}

\* The next call of the stage; after the last one the next stage is entered.
Call(w) ==
    /\ InStage(w)
    /\ \E i \in job[w].work : \E b \in Outcomes(job[w], i) :
        /\ lbs' = [lbs EXCEPT ![job[w].lb] = b]
        /\ LET j == [Learned(job[w], b) EXCEPT !.work = @ \ {i}]
           IN  Continue(w, IF j.work = {} THEN Enter(j, j.todo) ELSE j)
    /\ UNCHANGED used

\* buildLoadBalancerStatusIngress: the addresses of the Load Balancer, or an
\* error for an annotation that cannot be parsed.
Ingress(b) == b.ips \cup Once("public" \in Attrs /\ b.attr["public"] # 1, "public")

StatusInvalid(j) == j.op = "Ensure" /\ "status" \in j.conf.bad

\* The API, or the check of an annotation before the call, rejects it.
CallRejected(w) ==
    LET j == job[w]
    IN  /\ j # Idle
        /\ \/ \E i \in j.work : Outcomes(j, i) = {}
           \/ j.stage = "byUID" /\ SelectorInvalid(j)
           \/ j.stage = "create" /\ ~CanCreate(j)
           \/ j.stage = "delete" /\ ~j.copy.protected /\ ~CanDelete(j)
           \/ j.stage = "end" /\ StatusInvalid(j)
        /\ Failed(w)
        /\ UNCHANGED <<lbs, used>>

\* attachToNetwork tries once more when the API is locked or has a conflict.
AttachLocked(w) ==
    /\ InStage(w) /\ job[w].stage = "attach" /\ ~job[w].retried
    /\ fails < MaxFails /\ fails' = fails + 1
    /\ job' = [job EXCEPT ![w].retried = TRUE]
    /\ res' = NoResult
    /\ UNCHANGED <<envVars, ctlVars, lbs, used>>

Finish(w) ==
    LET j == job[w]
    IN  /\ j # Idle /\ j.stage = "end" /\ ~StatusInvalid(j)
        /\ Done(w, IF j.op = "Ensure" THEN Ingress(j.copy) ELSE {})

\* A call of the API, or waiting for its action, fails; its effect may have
\* taken place or not.  A crash of the controller looks the same.
CallFails(w) ==
    /\ job[w] # Idle /\ job[w].stage # "end"
    /\ fails < MaxFails
    /\ \/ UNCHANGED <<lbs, used>>
       \/ /\ InStage(w) /\ UNCHANGED used
          /\ \E i \in job[w].work : \E b \in Outcomes(job[w], i) :
                b # lbs[job[w].lb] /\ lbs' = [lbs EXCEPT ![job[w].lb] = b]
       \/ /\ job[w].stage = "create" /\ CanCreate(job[w])
          /\ used < MaxLB /\ used' = used + 1
          /\ lbs' = [lbs EXCEPT ![used + 1] = Created(job[w])]
       \/ /\ job[w].stage = "delete" /\ ~job[w].copy.protected /\ CanDelete(job[w])
          /\ lbs' = [lbs EXCEPT ![job[w].lb] = Absent] /\ UNCHANGED used
    /\ Return(w, FALSE, {})
    /\ job' = Ended(w)
    /\ fails' = fails + 1

Step(w) ==
    \/ ByUID(w) \/ ByName(w) \/ Create(w) \/ Delete(w)
    \/ Call(w) \/ CallRejected(w) \/ Finish(w)

Environment ==
    \/ \E s \in Svc : \E c \in Config[s] \cup {Absent} : ServiceChanges(s, c)
    \/ \E n \in ServerId : NodesChange(n)
    \/ \E x \in LB : Protect(x)

Next ==
    \/ Environment
    \/ \E w \in Worker : \/ \E s \in Svc : SyncService(w, s) \/ SyncNodes(w, s)
                         \/ Step(w) \/ AttachLocked(w) \/ CallFails(w)

Spec == Init /\ [][Next]_vars

\* A call that was begun goes on, and the work queue of the service controller
\* is served in turn.
FairSpec ==
    /\ Spec
    /\ \A w \in Worker : WF_vars(Step(w))
    /\ \A s \in Svc : /\ SF_vars(\E w \in Worker : SyncService(w, s))
                      /\ SF_vars(\E w \in Worker : SyncNodes(w, s))
-----------------------------------------------------------------------------
(* Properties *)

\* Types of the API's Load Balancers and of the calls in flight.
TypeOK ==
    /\ \A s \in Svc : svc[s] \in Config[s] \cup {Absent} /\ known[s] \in Config[s] \cup {Absent}
    /\ nodes \subseteq ServerId /\ used \in 0..MaxLB /\ Live \subseteq 1..used
    /\ \A x \in Live : lbs[x] \in LoadBalancer /\ Cardinality(lbs[x].ports) <= MaxServices
    /\ dirty \subseteq Svc /\ stale \subseteq Svc
    /\ \A w \in Worker : job[w] # Idle =>
        /\ job[w].svc \in Svc /\ job[w].lb \in LB \cup {NoLB}
        /\ job[w].work # {} => job[w].lb \in 1..used
    /\ changes \in 0..MaxChanges /\ fails \in 0..MaxFails

\* The label identifies one Load Balancer: with two of them every lookup by
\* the service's UID fails, and the service can neither be synced nor deleted.
UniqueOwner == \A s \in Svc : Cardinality(Owned(s)) <= 1

\* A service that wants a Load Balancer keeps the one it has, and with it its
\* public addresses, through renames, failed calls and the syncs of others.
AddressStable ==
    [][\A s \in Svc : svc[s] # Absent /\ ~Active(s, {"Delete"}) => Owned(s) \subseteq Owned(s)']_vars

\* The Load Balancer b is what service s with settings c asks for.
Matches(s, c, ns, b) ==
    /\ b.label = s /\ c.name \in {Unset, b.name}
    /\ \A a \in Attrs : c.attr[a] \in {Unset, b.attr[a]}
    /\ IF HasNetwork THEN /\ Cardinality(b.ips) = 1 /\ b.ips \subseteq IP
                          /\ c.ip \in b.ips \cup {Unset, Empty}
                     ELSE b.ips = {}
    /\ b.ports = c.ports
    /\ b.targets = {Server(n, c.private) : n \in ns \cap c.select}

\* A call of op that found its Load Balancer returns without an error, and
\* nothing else happened since it began.
Succeeds(w, op) ==
    /\ job[w] # Idle /\ job[w].op = op /\ job[w].lb # NoLB /\ job[w].calm
    /\ job'[w] = Idle /\ res'.ok

\* EnsureLoadBalancer succeeds only if the Load Balancer is what the service
\* asks for, wherever earlier calls stopped, and returns its addresses.
EnsureSynced ==
    [][\A w \in Worker : Succeeds(w, "Ensure") =>
        /\ Matches(job[w].svc, job[w].conf, job[w].nodes, lbs[job[w].lb])
        /\ res'.ingress = Ingress(lbs[job[w].lb])]_vars

\* UpdateLoadBalancer, too, succeeds only if the Load Balancer is in sync.
UpdateSynced ==
    [][\A w \in Worker : Succeeds(w, "Update") =>
            Matches(job[w].svc, job[w].conf, job[w].nodes, lbs[job[w].lb])]_vars

\* The name the service asks for belongs to another Load Balancer.
Blocked(s) == \E x \in Named(svc[s].name) : lbs[x].label # s

\* Once services and nodes no longer change, every service that wants a Load
\* Balancer gets it as asked for, and the others keep none that may be deleted.
Settles ==
    <>[](\A s \in Svc :
            IF svc[s] = Absent THEN \A x \in Owned(s) : lbs[x].protected
            ELSE \/ svc[s].bad # {} \/ Blocked(s)
                 \/ \E x \in Owned(s) : Matches(s, svc[s], nodes, lbs[x]))
=============================================================================
