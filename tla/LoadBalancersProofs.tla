------------------------ MODULE LoadBalancersProofs ------------------------
(***************************************************************************)
(* Proofs about LoadBalancers.  Which Load Balancer belongs to a service   *)
(* is written in a label at the API, and decided by lookups that are old   *)
(* when the label is written or a Load Balancer created.  The invariants   *)
(* say what a call still knows then: the Load Balancer it works on carries *)
(* the label of its service or a name of it, and before it creates one     *)
(* there is none.                                                          *)
(***************************************************************************)
EXTENDS LoadBalancers, FiniteSetTheorems, WellFoundedInduction, TLAPS

-----------------------------------------------------------------------------
(* Types *)

GoodLB(b) == b \in LoadBalancer /\ IsFiniteSet(b.ports) /\ Cardinality(b.ports) <= MaxServices

StageNames == AllAttrs \cup {"info", "detach", "attach", "ports", "leftover", "targets", "reload"}

JobFields == {"op", "svc", "conf", "nodes", "stage", "todo", "lb", "copy", "work", "changed",
              "retried", "calm"}

\* A call looks for its Load Balancer, deletes it, or changes it.
Searching(j) ==
    /\ j.stage \in {"byUID", "byName", "create"} /\ j.lb = NoLB /\ j.work = {}
    /\ j.stage = "byName" => j.op # "Delete"
    /\ j.stage = "create" => j.op = "Ensure"

Deleting(j, u) == j.stage = "delete" /\ j.op = "Delete" /\ j.lb \in 1..u /\ j.work = {}

\* The work at stage st is what WorkOf gave, or a part of it.
Proper(st, c, work) ==
    /\ st = "end" => work = {}
    /\ st = "ports" /\ "ports" \notin Bad(c) => work \subseteq c.ports

Changing(j, u) ==
    /\ j.stage \in StageNames \cup {"end"} /\ j.op # "Delete" /\ j.lb \in 1..u
    /\ Proper(j.stage, j.conf, j.work)

IsJob(j) ==
    /\ DOMAIN j = JobFields
    /\ j.op \in {"Ensure", "Update", "Delete"} /\ j.svc \in Svc /\ j.nodes \subseteq ServerId
    /\ j.op # "Delete" => j.conf \in Config[j.svc]
    /\ j.todo \in Seq(StageNames)

\* A job, when u ids were given out.
GoodJob(j, u) == IsJob(j) /\ (Searching(j) \/ Deleting(j, u) \/ Changing(j, u))

ServicesInv ==
    /\ DOMAIN svc = Svc /\ DOMAIN known = Svc
    /\ \A s \in Svc : svc[s] \in Config[s] \cup {Absent} /\ known[s] \in Config[s] \cup {Absent}
    /\ nodes \subseteq ServerId /\ dirty \subseteq Svc /\ stale \subseteq Svc
    /\ changes \in 0..MaxChanges /\ fails \in 0..MaxFails

ApiInv ==
    /\ used \in 0..MaxLB /\ DOMAIN lbs = LB
    /\ \A x \in LB : lbs[x] # Absent => x \in 1..used /\ GoodLB(lbs[x])

JobsInv ==
    /\ DOMAIN job = Worker
    /\ \A w \in Worker : job[w] # Idle => GoodJob(job[w], used)

\* A service has one sync at a time: this is what serialises Ensure with
\* Delete and with itself, but not with Update.
OneSync ==
    \A v, w \in Worker :
        /\ job[v] # Idle /\ job[w] # Idle /\ job[v].svc = job[w].svc
        /\ job[v].op # "Update" /\ job[w].op # "Update"
        => v = w

TypeInv == ServicesInv /\ ApiInv /\ JobsInv /\ OneSync

-----------------------------------------------------------------------------
(* Lemmas about the operators of the model *)

LEMMA LeastExists ==
    ASSUME NEW S, S \subseteq Nat, S # {}
    PROVE  \E x \in S : \A y \in S : x <= y
<1> DEFINE R == {ss \in Nat \X Nat : ss[1] < ss[2]}
<1>1. IsWellFoundedOn(R, Nat)
  BY NatLessThanWellFounded, Zenon DEF OpToRel
<1>2. PICK x \in S : \A y \in S : <<y, x>> \notin R
  <2> HIDE DEF R
  <2>q. QED
    BY <1>1, WFMin
<1>3. ASSUME NEW y \in S PROVE x <= y
  <2>1. <<y, x>> \in Nat \X Nat /\ <<y, x>>[1] = y /\ <<y, x>>[2] = x
    OBVIOUS
  <2>2. ~ (y < x)
    BY <2>1, <1>2
  <2>q. QED
    BY <2>2
<1>q. QED
  BY <1>3

LEMMA StagesOf == ASSUME NEW op PROVE Stages(op) \in Seq(StageNames)
<1>1. ReconcileHCLB \in Seq(StageNames)
  BY DEF ReconcileHCLB, StageNames, AllAttrs
<1>2. Services \in Seq(StageNames)
  BY DEF Services, StageNames
<1>3. <<"reload">> \in Seq(StageNames) /\ <<"targets", "reload">> \in Seq(StageNames)
      /\ <<"targets">> \in Seq(StageNames)
  BY DEF StageNames
<1> HIDE DEF StageNames
<1>4. ReconcileHCLB \o <<"reload">> \o Services \o <<"targets", "reload">> \in Seq(StageNames)
  BY <1>1, <1>2, <1>3
<1>5. ReconcileHCLB \o <<"targets">> \o Services \in Seq(StageNames)
  BY <1>1, <1>2, <1>3
<1>q. QED
  BY <1>4, <1>5 DEF Stages

\* Entering a stage changes the place of the job and nothing else.
LEMMA EnterStays ==
    ASSUME NEW j, NEW todo \in Seq(StageNames), DOMAIN j = JobFields
    PROVE  /\ DOMAIN Enter(j, todo) = JobFields
           /\ \A f \in JobFields \ {"stage", "todo", "work"} : Enter(j, todo)[f] = j[f]
           /\ Enter(j, todo).todo \in Seq(StageNames)
           /\ Enter(j, todo).stage \in StageNames \cup {"end"}
           /\ Proper(Enter(j, todo).stage, j.conf, Enter(j, todo).work)
<1> DEFINE busy == {k \in DOMAIN todo : WorkOf(todo[k], j) # {}}
           k == CHOOSE m \in busy : \A o \in busy : m <= o
<1>1. CASE busy = {}
  <2>1. Enter(j, todo) = [j EXCEPT !.stage = "end", !.todo = <<>>, !.work = {}]
    BY <1>1 DEF Enter
  <2> HIDE DEF busy
  <2>2. <<>> \in Seq(StageNames)
    OBVIOUS
  <2> DEFINE none == <<>>
             e == [j EXCEPT !.stage = "end", !.todo = none, !.work = {}]
  <2> HIDE DEF none
  <2>3. DOMAIN e = JobFields /\ e.stage = "end" /\ e.todo = none /\ e.work = {}
        /\ \A f \in JobFields \ {"stage", "todo", "work"} : e[f] = j[f]
    BY DEF JobFields
  <2>4. Enter(j, todo) = e
    BY <2>1 DEF none
  <2> HIDE DEF e
  <2>q. QED
    BY <2>2, <2>3, <2>4 DEF none, Proper
<1>2. CASE busy # {}
  <2> DEFINE e == [j EXCEPT !.stage = todo[k], !.todo = SubSeq(todo, k + 1, Len(todo)),
                            !.work = WorkOf(todo[k], j)]
  <2>1. Enter(j, todo) = e
    BY <1>2 DEF Enter
  <2>2. \E m \in busy : \A o \in busy : m <= o
    <3>1. busy \subseteq Nat
      OBVIOUS
    <3> HIDE DEF busy
    <3>q. QED
      BY <1>2, <3>1, LeastExists
  <2>3. k \in busy
    BY <2>2
  <2>4. k \in 1..Len(todo)
    BY <2>3
  <2> HIDE DEF k, busy
  <2>5. todo[k] \in StageNames
    BY <2>4
  <2>6. SubSeq(todo, k + 1, Len(todo)) \in Seq(StageNames)
    BY <2>4
  <2>7. todo[k] # "end"
    BY <2>5 DEF StageNames, AllAttrs
  <2>8. DOMAIN e = JobFields /\ e.stage = todo[k] /\ e.todo = SubSeq(todo, k + 1, Len(todo))
        /\ e.work = WorkOf(todo[k], j)
        /\ \A f \in JobFields \ {"stage", "todo", "work"} : e[f] = j[f]
    BY DEF JobFields
  <2> HIDE DEF e
  <2>9. Proper(todo[k], j.conf, WorkOf(todo[k], j))
    BY <2>7 DEF Proper, WorkOf, AllAttrs
  <2>q. QED
    BY <2>1, <2>5, <2>6, <2>8, <2>9
<1>q. QED
  BY <1>1, <1>2

\* What the settings of a service may bring into a Load Balancer.
LEMMA ConfigOf ==
    ASSUME NEW s \in Svc, NEW c \in Config[s]
    PROVE  /\ c.private \in BOOLEAN /\ c.ports \subseteq AnyPort
           /\ NameOf(s, c) \in Names(s) /\ NameOf(s, c) \in AnyName
           /\ \A a \in Attrs : c.attr[a] \in AnyValue
<1>1. c \in Conf /\ NameOf(s, c) \in Names(s)
  BY DEF Conf, Names
<1>2. c.private \in BOOLEAN /\ DOMAIN c.attr = Attrs
  BY LoadBalancersAssumption DEF LoadBalancersAssumption
<1>3. c.ports \subseteq AnyPort
  BY <1>1 DEF AnyPort
<1>4. NameOf(s, c) \in AnyName
  BY <1>1 DEF AnyName
<1>5. \A a \in Attrs : c.attr[a] \in AnyValue
  BY <1>1, <1>2 DEF AnyValue, Range
<1>q. QED
  BY <1>1, <1>2, <1>3, <1>4, <1>5

\* What a call may do to label and name of the Load Balancer b.
Relabel(j, b, c) ==
    \/ c.label = b.label /\ c.name = b.name
    \/ c.label = j.svc /\ c.name \in {b.name} \cup Names(j.svc)

\* Whatever a stage does at the API, the Load Balancer stays well formed, and
\* only changeHCLBInfo writes the label and the name.
LEMMA AppliedGood ==
    ASSUME NEW j, IsJob(j), j.stage \in StageNames, j.op # "Delete", Proper(j.stage, j.conf, j.work),
           NEW b, GoodLB(b), NEW i \in j.work, NEW c \in Applied(j, i, b)
    PROVE  GoodLB(c) /\ Relabel(j, b, c)
<1>0. /\ j.svc \in Svc /\ j.conf \in Config[j.svc] /\ j.nodes \subseteq ServerId /\ b \in LoadBalancer
      /\ IsFiniteSet(b.ports) /\ Cardinality(b.ports) <= MaxServices /\ j.stage \notin Bad(j.conf)
  BY DEF IsJob, GoodLB, Applied
<1>c. /\ j.conf.private \in BOOLEAN /\ j.conf.ports \subseteq AnyPort
      /\ NameOf(j.svc, j.conf) \in Names(j.svc) /\ NameOf(j.svc, j.conf) \in AnyName
      /\ \A a \in Attrs : j.conf.attr[a] \in AnyValue
  BY <1>0, ConfigOf
\* A call that leaves label, name and ports alone.
<1>s. ASSUME c \in LoadBalancer, c.ports = b.ports, c.label = b.label, c.name = b.name
      PROVE  GoodLB(c) /\ Relabel(j, b, c)
  BY <1>0, <1>s DEF GoodLB, Relabel
<1>1. CASE j.stage \in AllAttrs
  <2>1. c = [b EXCEPT !.attr[j.stage] = j.conf.attr[j.stage]]
    BY <1>0, <1>1 DEF Applied, ChangeAttr
  <2> DEFINE f == [b.attr EXCEPT ![j.stage] = j.conf.attr[j.stage]]
  <2>2. c = [b EXCEPT !.attr = f]
    BY <2>1
  <2>3. f \in [Attrs -> AnyValue]
    BY <1>0, <1>c DEF LoadBalancer
  <2> HIDE DEF f
  <2>q. QED
    BY <2>2, <2>3, <1>0, <1>s DEF LoadBalancer
<1>2. CASE j.stage = "info"
  <2>1. c \in ChangeInfo(j, b)
    BY <1>0, <1>2 DEF Applied, AllAttrs
  <2>2. CASE j.conf.name = Unset
    <3>1. c = [b EXCEPT !.label = j.svc]
      BY <2>1, <2>2 DEF ChangeInfo
    <3>2. c \in LoadBalancer /\ c.label = j.svc /\ c.name = b.name /\ c.ports = b.ports
      BY <3>1, <1>0 DEF LoadBalancer
    <3>q. QED
      BY <3>2, <1>0 DEF GoodLB, Relabel
  <2>3. CASE j.conf.name # Unset
    <3>1. c = [b EXCEPT !.label = j.svc, !.name = j.conf.name]
      BY <2>1, <2>3 DEF ChangeInfo
    <3>2. j.conf.name \in Names(j.svc) /\ j.conf.name \in AnyName
      BY <2>3, <1>c DEF NameOf
    <3>3. c \in LoadBalancer /\ c.label = j.svc /\ c.name = j.conf.name /\ c.ports = b.ports
      BY <3>1, <3>2, <1>0 DEF LoadBalancer
    <3>q. QED
      BY <3>2, <3>3, <1>0 DEF GoodLB, Relabel
  <2>q. QED
    BY <2>2, <2>3
<1>3. CASE j.stage = "detach"
  <2> DEFINE T == {t \in b.targets : ~t.private}
  <2>1. c = [b EXCEPT !.ips = b.ips \ {i}, !.targets = T]
    BY <1>0, <1>3 DEF Applied, AllAttrs, Detach
  <2>2. T \subseteq AnyTarget /\ b.ips \ {i} \subseteq IP \cup {OtherIP}
    BY <1>0 DEF LoadBalancer
  <2> HIDE DEF T
  <2>q. QED
    BY <2>1, <2>2, <1>0, <1>s DEF LoadBalancer
<1>4. CASE j.stage = "attach"
  <2>1. PICK a \in IP : c = [b EXCEPT !.ips = @ \cup {a}]
    BY <1>0, <1>4 DEF Applied, AllAttrs, Attach, FreeIPs
  <2>q. QED
    BY <2>1, <1>0, <1>s DEF LoadBalancer
<1>5. CASE j.stage = "ports"
  <2>1. c \in SetPort(j, i, b) /\ i \in AnyPort
    BY <1>0, <1>5, <1>c DEF Applied, AllAttrs, Proper
  <2>2. CASE c = b
    BY <2>2, <1>0, <1>s
  <2>3. CASE c # b
    <3>1. c = [b EXCEPT !.ports = @ \cup {i}] /\ Cardinality(b.ports) < MaxServices
      BY <2>1, <2>3 DEF SetPort, Once
    <3>2. c.ports = b.ports \cup {i} /\ c \in LoadBalancer /\ c.label = b.label /\ c.name = b.name
      BY <3>1, <2>1, <1>0 DEF LoadBalancer
    <3>3. IsFiniteSet(b.ports \cup {i})
          /\ \/ Cardinality(b.ports \cup {i}) = Cardinality(b.ports)
             \/ Cardinality(b.ports \cup {i}) = Cardinality(b.ports) + 1
      BY <1>0, FS_AddElement
    <3>4. Cardinality(b.ports) \in Nat /\ MaxServices \in Nat
      BY <1>0, FS_CardinalityType, LoadBalancersAssumption DEF LoadBalancersAssumption
    <3>5. Cardinality(b.ports \cup {i}) <= MaxServices
      BY <3>1, <3>3, <3>4
    <3>q. QED
      BY <3>2, <3>3, <3>5 DEF GoodLB, Relabel
  <2>q. QED
    BY <2>2, <2>3
<1>6. CASE j.stage = "leftover"
  <2>1. c = [b EXCEPT !.ports = @ \ {i}]
    BY <1>0, <1>6 DEF Applied, AllAttrs, DropPort
  <2>2. c.ports = b.ports \ {i} /\ c \in LoadBalancer /\ c.label = b.label /\ c.name = b.name
    BY <2>1, <1>0 DEF LoadBalancer
  <2>3. IsFiniteSet(b.ports \ {i}) /\ Cardinality(b.ports \ {i}) <= Cardinality(b.ports)
    BY <1>0, FS_Subset
  <2>4. Cardinality(b.ports) \in Nat /\ Cardinality(b.ports \ {i}) \in Nat /\ MaxServices \in Nat
    BY <2>3, <1>0, FS_CardinalityType, LoadBalancersAssumption DEF LoadBalancersAssumption
  <2>5. Cardinality(b.ports \ {i}) <= MaxServices
    BY <2>3, <2>4, <1>0
  <2>q. QED
    BY <2>2, <2>3, <2>5 DEF GoodLB, Relabel
<1>7. CASE j.stage = "targets"
  <2> DEFINE remove == j.copy.targets \ Wanted(j)
             add == Wanted(j) \ j.copy.targets
  <2>1. c = [b EXCEPT !.targets = (@ \ remove) \cup add]
    BY <1>0, <1>7 DEF Applied, AllAttrs, Retarget
  <2>2. add \subseteq AnyTarget
    BY <1>0, <1>c DEF Wanted, AnyTarget
  <2> HIDE DEF add, remove
  <2>q. QED
    BY <2>1, <2>2, <1>0, <1>s DEF LoadBalancer
<1>8. CASE j.stage = "reload"
  BY <1>8, <1>0, <1>s DEF Applied, AllAttrs
<1>q. QED
  BY <1>1, <1>2, <1>3, <1>4, <1>5, <1>6, <1>7, <1>8 DEF StageNames

-----------------------------------------------------------------------------
(* What a step does *)

\* Another call goes on as it was, apart from the history of its calm.
Kept(j, k) == DOMAIN k = JobFields /\ \A f \in JobFields \ {"calm"} : k[f] = j[f]

LEMMA KeptGood ==
    ASSUME NEW u \in Nat, NEW v \in Nat, u <= v, NEW j, NEW k, GoodJob(j, u), Kept(j, k)
    PROVE  GoodJob(k, v)
<1>1. DOMAIN k = JobFields /\ k.op = j.op /\ k.svc = j.svc /\ k.nodes = j.nodes /\ k.conf = j.conf
      /\ k.todo = j.todo /\ k.stage = j.stage /\ k.lb = j.lb /\ k.work = j.work
  BY DEF Kept, JobFields
<1>2. IsJob(k)
  BY <1>1 DEF GoodJob, IsJob
<1>3. \A x \in 1..u : x \in 1..v
  OBVIOUS
<1>4. Searching(k) \/ Deleting(k, v) \/ Changing(k, v)
  BY <1>1, <1>3 DEF GoodJob, Searching, Deleting, Changing
<1>q. QED
  BY <1>2, <1>4 DEF GoodJob

\* The calls of the other workers.
Others(w) ==
    /\ DOMAIN job' = Worker
    /\ \A v \in Worker : v # w /\ job'[v] # Idle => job[v] # Idle /\ Kept(job[v], job'[v])

LEMMA DisturbKeeps ==
    ASSUME JobsInv, NEW w, NEW v \in Worker, Disturb(w)[v] # Idle
    PROVE  job[v] # Idle /\ Kept(job[v], Disturb(w)[v])
<1>1. job[v] # Idle
  BY DEF Disturb
<1>2. DOMAIN job[v] = JobFields
  BY <1>1 DEF JobsInv, GoodJob, IsJob
<1>3. Kept(job[v], job[v])
  BY <1>2 DEF Kept
<1>4. Kept(job[v], [job[v] EXCEPT !.calm = FALSE])
  BY <1>2 DEF Kept, JobFields
<1>5. Disturb(w)[v] = job[v] \/ Disturb(w)[v] = [job[v] EXCEPT !.calm = FALSE]
  BY <1>1 DEF Disturb
<1>q. QED
  BY <1>1, <1>3, <1>4, <1>5

LEMMA ContinueOthers ==
    ASSUME JobsInv, NEW w \in Worker, NEW j, job' = [Disturb(w) EXCEPT ![w] = j]
    PROVE  Others(w) /\ job'[w] = j
<1>1. DOMAIN Disturb(w) = Worker
  BY DEF Disturb
<1>2. DOMAIN job' = Worker /\ job'[w] = j /\ \A v \in Worker : v # w => job'[v] = Disturb(w)[v]
  BY <1>1
<1>q. QED
  BY <1>2, DisturbKeeps DEF Others

\* What the call of w does to the Load Balancers.
Turn(w) ==
    \/ UNCHANGED <<lbs, used>>
    \/ /\ Changing(job[w], used) /\ lbs[job[w].lb] # Absent
       /\ used' = used
       /\ \E b : /\ GoodLB(b) /\ Relabel(job[w], lbs[job[w].lb], b)
                 /\ lbs' = [lbs EXCEPT ![job[w].lb] = b]
    \/ /\ job[w].stage = "create"
       /\ used < MaxLB /\ used' = used + 1
       /\ lbs' = [lbs EXCEPT ![used + 1] = Created(job[w])]
    \/ /\ job[w].stage = "delete"
       /\ used' = used
       /\ lbs' = [lbs EXCEPT ![job[w].lb] = Absent]

\* What becomes of the call itself: it has ended, or searches on, or goes on
\* with the same Load Balancer, or has found or created one.
Goes(w) ==
    job'[w] # Idle =>
        /\ GoodJob(job'[w], used')
        /\ job'[w].op = job[w].op /\ job'[w].svc = job[w].svc
        /\ \/ /\ job'[w].stage \in {"byName", "create"} /\ UNCHANGED <<lbs, used>>
              /\ job[w].stage = "byName" \/ Owned(job[w].svc) = {}
           \/ /\ job[w].lb # NoLB /\ job'[w].lb = job[w].lb
              /\ job'[w].stage \notin {"byName", "create"}
           \/ /\ UNCHANGED <<lbs, used>>
              /\ job'[w].lb \in Live /\ job'[w].stage \notin {"byName", "create"}
              /\ \/ lbs[job'[w].lb].label = job[w].svc
                 \/ lbs[job'[w].lb].name \in Names(job[w].svc)
           \/ /\ job[w].stage = "create" /\ job'[w].lb = used + 1 /\ used' = used + 1
              /\ job'[w].stage \notin {"byName", "create"}

LEMMA GotGood ==
    ASSUME ApiInv, NEW j, GoodJob(j, used), Searching(j), NEW x \in Live
    PROVE  /\ GoodJob(Got(j, x), used) /\ Got(j, x).op = j.op /\ Got(j, x).svc = j.svc
           /\ Got(j, x).lb = x /\ Got(j, x).stage \notin {"byName", "create"}
<1> DEFINE got == [j EXCEPT !.lb = x, !.copy = lbs[x]]
<1>0. IsJob(j) /\ x \in 1..used
  BY DEF GoodJob, ApiInv, Live
<1>1. DOMAIN got = JobFields /\ got.lb = x
      /\ \A f \in JobFields \ {"lb", "copy"} : got[f] = j[f]
  BY <1>0 DEF IsJob, JobFields
<1> HIDE DEF got
<1>2. got.op = j.op /\ got.svc = j.svc /\ got.conf = j.conf /\ got.nodes = j.nodes
      /\ got.todo = j.todo /\ got.work = {}
  BY <1>1 DEF JobFields, Searching
<1>3. CASE j.op = "Delete"
  <2> DEFINE g == [got EXCEPT !.stage = "delete"]
  <2>1. Got(j, x) = g
    BY <1>3 DEF Got, got
  <2>2. DOMAIN g = JobFields /\ g.stage = "delete" /\ g.op = "Delete" /\ g.svc = j.svc /\ g.nodes = j.nodes
        /\ g.todo = j.todo /\ g.work = {} /\ g.lb = x
    BY <1>1, <1>2, <1>3 DEF JobFields
  <2> HIDE DEF g
  <2>3. GoodJob(g, used)
    BY <2>2, <1>0, <1>3 DEF GoodJob, Deleting, IsJob
  <2>q. QED
    BY <2>1, <2>2, <2>3, <1>3
<1>4. CASE j.op # "Delete"
  <2> DEFINE g == Enter(got, Stages(j.op))
  <2>1. Got(j, x) = g
    BY <1>4 DEF Got, got
  <2>2. /\ DOMAIN g = JobFields
        /\ \A f \in JobFields \ {"stage", "todo", "work"} : g[f] = got[f]
        /\ g.todo \in Seq(StageNames) /\ g.stage \in StageNames \cup {"end"}
        /\ Proper(g.stage, got.conf, g.work)
    BY <1>1, EnterStays, StagesOf
  <2> HIDE DEF g
  <2>3. /\ g.op = j.op /\ g.svc = j.svc /\ g.conf = j.conf /\ g.nodes = j.nodes /\ g.lb = x
        /\ Proper(g.stage, g.conf, g.work)
    BY <2>2, <1>1, <1>2 DEF JobFields
  <2>4. GoodJob(g, used)
    BY <2>2, <2>3, <1>0, <1>4 DEF GoodJob, Changing, IsJob
  <2>5. g.stage \notin {"byName", "create"}
    BY <2>2 DEF StageNames, AllAttrs
  <2>q. QED
    BY <2>1, <2>3, <2>4, <2>5
<1>q. QED
  BY <1>3, <1>4

LEMMA ByUIDStep ==
    ASSUME TypeInv, NEW w \in Worker, job[w] # Idle, ByUID(w)
    PROVE  Others(w) /\ Turn(w) /\ Goes(w)
<1> DEFINE j == job[w]
<1>0. GoodJob(j, used) /\ Searching(j) /\ JobsInv /\ ApiInv
  BY DEF TypeInv, JobsInv, GoodJob, ByUID, Searching, Deleting, Changing, StageNames, AllAttrs
<1>1. CASE UNCHANGED <<lbs, used>> /\ \E x \in Owned(j.svc) : Continue(w, Got(j, x))
  <2>1. PICK x \in Owned(j.svc) : Continue(w, Got(j, x))
    BY <1>1
  <2>2. x \in Live /\ lbs[x].label = j.svc
    BY DEF Owned
  <2>3. Others(w) /\ job'[w] = Got(j, x)
    BY <2>1, <1>0, ContinueOthers DEF Continue
  <2>4. /\ GoodJob(Got(j, x), used) /\ Got(j, x).op = j.op /\ Got(j, x).svc = j.svc
        /\ Got(j, x).lb = x /\ Got(j, x).stage \notin {"byName", "create"}
    BY <2>2, <1>0, GotGood
  <2>5. Goes(w)
    BY <2>2, <2>3, <2>4, <1>1 DEF Goes
  <2>q. QED
    BY <2>3, <2>5, <1>1 DEF Turn
<1>2. CASE /\ Owned(j.svc) = {} /\ j.op # "Delete" /\ UNCHANGED <<lbs, used>>
           /\ Continue(w, [j EXCEPT !.stage = "byName"])
  <2> DEFINE k == [j EXCEPT !.stage = "byName"]
  <2>1. Others(w) /\ job'[w] = k
    BY <1>2, <1>0, ContinueOthers DEF Continue
  <2>2. DOMAIN k = JobFields /\ k.stage = "byName" /\ k.op = j.op /\ k.svc = j.svc /\ k.conf = j.conf
        /\ k.nodes = j.nodes /\ k.todo = j.todo /\ k.lb = j.lb /\ k.work = j.work
    BY <1>0 DEF GoodJob, IsJob, JobFields
  <2> HIDE DEF k
  <2>3. GoodJob(k, used)
    BY <2>2, <1>0, <1>2 DEF GoodJob, IsJob, Searching
  <2>4. Goes(w)
    BY <2>1, <2>2, <2>3, <1>2 DEF Goes
  <2>q. QED
    BY <2>1, <2>4, <1>2 DEF Turn
<1>3. CASE job' = Ended(w) /\ UNCHANGED <<lbs, used>>
  BY <1>3, <1>0, ContinueOthers DEF Ended, Turn, Goes
<1>q. QED
  BY <1>1, <1>2, <1>3 DEF ByUID, Done, Failed

LEMMA ByNameStep ==
    ASSUME TypeInv, NEW w \in Worker, job[w] # Idle, ByName(w)
    PROVE  Others(w) /\ Turn(w) /\ Goes(w)
<1> DEFINE j == job[w]
<1>0. GoodJob(j, used) /\ Searching(j) /\ JobsInv /\ ApiInv /\ j.stage = "byName" /\ j.op # "Delete"
  BY DEF TypeInv, JobsInv, GoodJob, ByName, Searching, Deleting, Changing, StageNames, AllAttrs
<1>n. NameOf(j.svc, j.conf) \in Names(j.svc)
  BY <1>0 DEF Names, GoodJob, IsJob
<1>1. CASE UNCHANGED <<lbs, used>> /\ \E x \in Named(NameOf(j.svc, j.conf)) : Continue(w, Got(j, x))
  <2>1. PICK x \in Named(NameOf(j.svc, j.conf)) : Continue(w, Got(j, x))
    BY <1>1
  <2>2. x \in Live /\ lbs[x].name \in Names(j.svc)
    BY <1>n DEF Named
  <2>3. Others(w) /\ job'[w] = Got(j, x)
    BY <2>1, <1>0, ContinueOthers DEF Continue
  <2>4. /\ GoodJob(Got(j, x), used) /\ Got(j, x).op = j.op /\ Got(j, x).svc = j.svc
        /\ Got(j, x).lb = x /\ Got(j, x).stage \notin {"byName", "create"}
    BY <2>2, <1>0, GotGood
  <2>5. Goes(w)
    BY <2>2, <2>3, <2>4, <1>1 DEF Goes
  <2>q. QED
    BY <2>3, <2>5, <1>1 DEF Turn
<1>2. CASE /\ j.op = "Ensure" /\ UNCHANGED <<lbs, used>>
           /\ Continue(w, [j EXCEPT !.stage = "create"])
  <2> DEFINE k == [j EXCEPT !.stage = "create"]
  <2>1. Others(w) /\ job'[w] = k
    BY <1>2, <1>0, ContinueOthers DEF Continue
  <2>2. DOMAIN k = JobFields /\ k.stage = "create" /\ k.op = j.op /\ k.svc = j.svc /\ k.conf = j.conf
        /\ k.nodes = j.nodes /\ k.todo = j.todo /\ k.lb = j.lb /\ k.work = j.work
    BY <1>0 DEF GoodJob, IsJob, JobFields
  <2> HIDE DEF k
  <2>3. GoodJob(k, used)
    BY <2>2, <1>0, <1>2 DEF GoodJob, IsJob, Searching
  <2>4. Goes(w)
    BY <2>1, <2>2, <2>3, <1>0, <1>2 DEF Goes
  <2>q. QED
    BY <2>1, <2>4, <1>2 DEF Turn
<1>3. CASE job' = Ended(w) /\ UNCHANGED <<lbs, used>>
  BY <1>3, <1>0, ContinueOthers DEF Ended, Turn, Goes
<1>q. QED
  BY <1>1, <1>2, <1>3 DEF ByName, Done

LEMMA CreatedGood ==
    ASSUME NEW j, j.svc \in Svc, j.conf \in Config[j.svc]
    PROVE  /\ GoodLB(Created(j)) /\ Created(j).label = j.svc
           /\ Created(j).name \in Names(j.svc)
<1> DEFINE f == [a \in Attrs |-> IF a \in {"rdns4", "rdns6"} \/ j.conf.attr[a] = Unset
                                   THEN Default ELSE j.conf.attr[a]]
<1>1. IsFiniteSet({}) /\ Cardinality({}) = 0 /\ MaxServices \in Nat
  BY FS_EmptySet, LoadBalancersAssumption DEF LoadBalancersAssumption
<1>2. NameOf(j.svc, j.conf) \in Names(j.svc) /\ NameOf(j.svc, j.conf) \in AnyName
      /\ \A a \in Attrs : j.conf.attr[a] \in AnyValue
  BY ConfigOf
<1>3. f \in [Attrs -> AnyValue]
  <2>1. Default \in AnyValue
    BY DEF AnyValue
  <2>q. QED
    BY <2>1, <1>2
<1>4. Created(j) = NewLB(j.svc, NameOf(j.svc, j.conf), f)
  BY DEF Created
<1> HIDE DEF f
<1>5. Created(j) \in LoadBalancer /\ Created(j).ports = {} /\ Created(j).label = j.svc
      /\ Created(j).name = NameOf(j.svc, j.conf)
  BY <1>2, <1>3, <1>4 DEF NewLB, LoadBalancer
<1>q. QED
  BY <1>1, <1>2, <1>5 DEF GoodLB

LEMMA CreatingJob ==
    ASSUME NEW j, NEW u, GoodJob(j, u), j.stage = "create"
    PROVE  j.op = "Ensure" /\ j.svc \in Svc /\ j.conf \in Config[j.svc] /\ j.lb = NoLB
BY DEF GoodJob, IsJob, Searching, Deleting, Changing, StageNames, AllAttrs

LEMMA CreateStep ==
    ASSUME TypeInv, NEW w \in Worker, job[w] # Idle, Create(w)
    PROVE  Others(w) /\ Turn(w) /\ Goes(w)
<1> DEFINE j == job[w]
           got == [j EXCEPT !.lb = used + 1, !.copy = Created(j)]
           k == Enter(got, Stages(j.op))
<1>0. /\ GoodJob(j, used) /\ Searching(j) /\ JobsInv /\ used \in Nat
      /\ j.stage = "create" /\ j.op = "Ensure"
  BY LoadBalancersAssumption
  DEF LoadBalancersAssumption, TypeInv, ApiInv, JobsInv, GoodJob, Create, Searching, Deleting, Changing,
      StageNames, AllAttrs
<1>1. /\ used < MaxLB /\ used' = used + 1 /\ lbs' = [lbs EXCEPT ![used + 1] = Created(j)]
      /\ Continue(w, k)
  BY DEF Create
<1>2. DOMAIN got = JobFields /\ got.lb = used + 1 /\ got.op = j.op /\ got.svc = j.svc /\ got.conf = j.conf
      /\ got.nodes = j.nodes
  BY <1>0 DEF GoodJob, IsJob, JobFields
<1>3. Others(w) /\ job'[w] = k
  BY <1>1, <1>0, ContinueOthers DEF Continue
<1> HIDE DEF got
<1>4. /\ DOMAIN k = JobFields
      /\ \A f \in JobFields \ {"stage", "todo", "work"} : k[f] = got[f]
      /\ k.todo \in Seq(StageNames) /\ k.stage \in StageNames \cup {"end"}
      /\ Proper(k.stage, got.conf, k.work)
  BY <1>2, EnterStays, StagesOf
<1> HIDE DEF k
<1>5. /\ k.op = j.op /\ k.svc = j.svc /\ k.conf = j.conf /\ k.nodes = j.nodes /\ k.lb = used + 1
      /\ Proper(k.stage, k.conf, k.work)
  BY <1>2, <1>4 DEF JobFields
<1>6. used + 1 \in 1..used'
  BY <1>0, <1>1
<1>7. GoodJob(k, used')
  BY <1>0, <1>4, <1>5, <1>6 DEF GoodJob, IsJob, Changing
<1>8. k.stage \notin {"byName", "create"}
  BY <1>4 DEF StageNames, AllAttrs
<1>9. Goes(w)
  BY <1>0, <1>1, <1>3, <1>5, <1>7, <1>8 DEF Goes
<1>q. QED
  BY <1>0, <1>1, <1>3, <1>9 DEF Turn

LEMMA DeleteStep ==
    ASSUME TypeInv, NEW w \in Worker, job[w] # Idle, Delete(w)
    PROVE  Others(w) /\ Turn(w) /\ Goes(w)
<1>1. job' = Ended(w) /\ job[w].stage = "delete" /\ used' = used
      /\ (lbs' = lbs \/ lbs' = [lbs EXCEPT ![job[w].lb] = Absent])
  BY DEF Delete
<1>2. Others(w) /\ job'[w] = Idle
  BY <1>1, ContinueOthers DEF Ended, TypeInv
<1>q. QED
  BY <1>1, <1>2 DEF Turn, Goes

\* A call that has work left changes a Load Balancer that it has found.
LEMMA WorkingJob ==
    ASSUME NEW j, NEW u, GoodJob(j, u), j.work # {}
    PROVE  IsJob(j) /\ Changing(j, u) /\ j.stage \in StageNames /\ j.op # "Delete" /\ j.lb \in 1..u
BY DEF GoodJob, Searching, Deleting, Changing, Proper

\* The effect of call i of the stage, if the API accepts it.
LEMMA OutcomeGood ==
    ASSUME TypeInv, NEW w \in Worker, job[w] # Idle, NEW i \in job[w].work, NEW b \in Outcomes(job[w], i)
    PROVE  /\ Changing(job[w], used) /\ lbs[job[w].lb] # Absent
           /\ GoodLB(b) /\ Relabel(job[w], lbs[job[w].lb], b)
<1>1. GoodJob(job[w], used) /\ job[w].work # {}
  BY DEF TypeInv, JobsInv
<1>2. /\ IsJob(job[w]) /\ Changing(job[w], used) /\ job[w].stage \in StageNames
      /\ job[w].op # "Delete" /\ job[w].lb \in 1..used
  BY <1>1, WorkingJob
<1>p. Proper(job[w].stage, job[w].conf, job[w].work)
  BY <1>2 DEF Changing
<1>3. lbs[job[w].lb] # Absent /\ b \in Applied(job[w], i, lbs[job[w].lb])
  BY DEF Outcomes
<1>4. job[w].lb \in LB
  BY <1>2, LoadBalancersAssumption DEF LoadBalancersAssumption, LB, TypeInv, ApiInv
<1>5. GoodLB(lbs[job[w].lb])
  BY <1>3, <1>4 DEF TypeInv, ApiInv
<1>q. QED
  BY <1>2, <1>p, <1>3, <1>5, AppliedGood

LEMMA LearnedKeeps ==
    ASSUME NEW j, NEW b, DOMAIN j = JobFields
    PROVE  /\ DOMAIN Learned(j, b) = JobFields
           /\ \A f \in JobFields \ {"copy", "changed"} : Learned(j, b)[f] = j[f]
<1>1. CASE j.stage = "info"
  <2>1. Learned(j, b) = [j EXCEPT !.copy.label = b.label, !.copy.name = b.name, !.changed = TRUE]
    BY <1>1 DEF Learned
  <2>q. QED
    BY <2>1 DEF JobFields
<1>2. CASE j.stage = "reload"
  <2>1. Learned(j, b) = [j EXCEPT !.copy = b, !.changed = FALSE]
    BY <1>2 DEF Learned
  <2>q. QED
    BY <2>1 DEF JobFields
<1>3. CASE j.stage # "info" /\ j.stage # "reload"
  <2>1. Learned(j, b) = [j EXCEPT !.changed = TRUE]
    BY <1>3 DEF Learned
  <2>q. QED
    BY <2>1 DEF JobFields
<1>q. QED
  BY <1>1, <1>2, <1>3

LEMMA CallStep ==
    ASSUME TypeInv, NEW w \in Worker, job[w] # Idle, Call(w)
    PROVE  Others(w) /\ Turn(w) /\ Goes(w)
<1> DEFINE j == job[w]
<1>0. PICK i \in j.work : \E b \in Outcomes(j, i) :
        /\ lbs' = [lbs EXCEPT ![j.lb] = b]
        /\ LET k == [Learned(j, b) EXCEPT !.work = @ \ {i}]
           IN  Continue(w, IF k.work = {} THEN Enter(k, k.todo) ELSE k)
  BY DEF Call
<1>1. PICK b \in Outcomes(j, i) :
        /\ lbs' = [lbs EXCEPT ![j.lb] = b]
        /\ LET k == [Learned(j, b) EXCEPT !.work = @ \ {i}]
           IN  Continue(w, IF k.work = {} THEN Enter(k, k.todo) ELSE k)
  BY <1>0
<1>2. used' = used /\ JobsInv
  BY DEF Call, TypeInv
<1>3. /\ Changing(j, used) /\ lbs[j.lb] # Absent
      /\ GoodLB(b) /\ Relabel(j, lbs[j.lb], b)
  BY OutcomeGood
<1>4. Turn(w)
  BY <1>1, <1>2, <1>3 DEF Turn
<1>5. GoodJob(j, used) /\ j.work # {} /\ DOMAIN j = JobFields
  BY <1>2 DEF JobsInv, GoodJob, IsJob
<1>6. IsJob(j) /\ j.stage \in StageNames /\ j.op # "Delete" /\ j.lb \in 1..used /\ j.todo \in Seq(StageNames)
  BY <1>5, WorkingJob DEF IsJob
<1>7. j.lb # NoLB
  BY <1>6, LoadBalancersAssumption DEF LoadBalancersAssumption, LB, TypeInv, ApiInv
<1> DEFINE l == Learned(j, b)
           k == [l EXCEPT !.work = @ \ {i}]
           g == IF k.work = {} THEN Enter(k, k.todo) ELSE k
<1>8. Others(w) /\ job'[w] = g
  <2>1. Continue(w, g)
    BY <1>1
  <2> HIDE DEF g
  <2>q. QED
    BY <2>1, <1>2, ContinueOthers DEF Continue
<1>9. DOMAIN l = JobFields /\ \A f \in JobFields \ {"copy", "changed"} : l[f] = j[f]
  BY <1>5, LearnedKeeps
<1> HIDE DEF l
<1>10. DOMAIN k = JobFields /\ k.stage = j.stage /\ k.todo = j.todo /\ k.op = j.op /\ k.svc = j.svc
       /\ k.conf = j.conf /\ k.nodes = j.nodes /\ k.lb = j.lb /\ k.work = j.work \ {i}
  BY <1>9 DEF JobFields
<1> HIDE DEF k
<1>11. /\ DOMAIN g = JobFields /\ g.op = j.op /\ g.svc = j.svc /\ g.conf = j.conf
       /\ g.nodes = j.nodes /\ g.lb = j.lb
       /\ g.todo \in Seq(StageNames) /\ g.stage \in StageNames \cup {"end"}
       /\ Proper(g.stage, g.conf, g.work)
  <2>1. CASE k.work = {}
    <3> DEFINE e == Enter(k, k.todo)
    <3>1. /\ DOMAIN e = JobFields
          /\ \A f \in JobFields \ {"stage", "todo", "work"} : e[f] = k[f]
          /\ e.todo \in Seq(StageNames) /\ e.stage \in StageNames \cup {"end"}
          /\ Proper(e.stage, k.conf, e.work)
      BY <1>6, <1>10, EnterStays
    <3>2. g = e
      BY <2>1
    <3> HIDE DEF e, g
    <3>q. QED
      BY <3>1, <3>2, <1>10 DEF JobFields
  <2>2. CASE k.work # {}
    <3>1. g = k
      BY <2>2
    <3>2. j.stage # "end"
      BY <1>6 DEF StageNames, AllAttrs
    <3> HIDE DEF g
    <3>3. Proper(k.stage, k.conf, k.work)
      BY <3>2, <1>3, <1>10 DEF Changing, Proper
    <3>q. QED
      BY <3>1, <3>2, <3>3, <1>6, <1>10
  <2>q. QED
    BY <2>1, <2>2
<1> HIDE DEF g
<1>12. GoodJob(g, used)
  BY <1>6, <1>11 DEF GoodJob, IsJob, Changing
<1>13. g.stage \notin {"byName", "create"}
  BY <1>11 DEF StageNames, AllAttrs
<1>14. Goes(w)
  BY <1>2, <1>7, <1>8, <1>11, <1>12, <1>13 DEF Goes
<1>q. QED
  BY <1>4, <1>8, <1>14

LEMMA AttachLockedStep ==
    ASSUME TypeInv, NEW w \in Worker, job[w] # Idle, AttachLocked(w)
    PROVE  Others(w) /\ Turn(w) /\ Goes(w)
<1> DEFINE j == job[w]
           k == [j EXCEPT !.retried = TRUE]
<1>1. job' = [job EXCEPT ![w] = k] /\ UNCHANGED <<lbs, used>> /\ j.stage = "attach" /\ j.work # {}
  BY DEF AttachLocked, InStage
<1>2. DOMAIN job = Worker /\ GoodJob(j, used) /\ used \in 0..MaxLB
      /\ \A v \in Worker : job[v] # Idle => DOMAIN job[v] = JobFields
  BY DEF TypeInv, JobsInv, ApiInv, GoodJob, IsJob
<1>3. IsJob(j) /\ Changing(j, used) /\ j.lb \in 1..used
  BY <1>1, <1>2, WorkingJob
<1>4. DOMAIN job' = Worker /\ job'[w] = k /\ \A v \in Worker : v # w => job'[v] = job[v]
  BY <1>1, <1>2
<1>5. Others(w)
  BY <1>2, <1>4 DEF Others, Kept
<1>6. DOMAIN k = JobFields /\ \A f \in JobFields \ {"retried"} : k[f] = j[f]
  BY <1>3 DEF IsJob, JobFields
<1> HIDE DEF k
<1>7. k.stage = j.stage /\ k.todo = j.todo /\ k.op = j.op /\ k.svc = j.svc
      /\ k.conf = j.conf /\ k.nodes = j.nodes /\ k.lb = j.lb /\ k.work = j.work
  BY <1>6 DEF JobFields
<1>8. GoodJob(k, used)
  BY <1>3, <1>6, <1>7 DEF GoodJob, IsJob, Changing
<1>9. j.lb # NoLB
  BY <1>2, <1>3, LoadBalancersAssumption DEF LoadBalancersAssumption, LB
<1>10. Goes(w)
  BY <1>1, <1>4, <1>7, <1>8, <1>9 DEF Goes
<1>q. QED
  BY <1>1, <1>5, <1>10 DEF Turn

LEMMA EndStep ==
    ASSUME TypeInv, NEW w \in Worker, job[w] # Idle, CallRejected(w) \/ Finish(w) \/ CallFails(w)
    PROVE  Others(w) /\ Turn(w) /\ Goes(w)
<1>1. job' = Ended(w)
  BY DEF CallRejected, Finish, CallFails, Done, Failed
<1>2. Others(w) /\ job'[w] = Idle
  BY <1>1, ContinueOthers DEF Ended, TypeInv
<1>3. Goes(w)
  BY <1>2 DEF Goes
<1>4. ASSUME CallRejected(w) \/ Finish(w) PROVE Turn(w)
  BY <1>4 DEF CallRejected, Finish, Done, Turn
<1>5. ASSUME CallFails(w) PROVE Turn(w)
  <2>1. CASE UNCHANGED <<lbs, used>>
    BY <2>1 DEF Turn
  <2>2. CASE /\ used' = used
             /\ \E i \in job[w].work : \E b \in Outcomes(job[w], i) : lbs' = [lbs EXCEPT ![job[w].lb] = b]
    <3>0. PICK i \in job[w].work : \E b \in Outcomes(job[w], i) : lbs' = [lbs EXCEPT ![job[w].lb] = b]
      BY <2>2
    <3>1. PICK b \in Outcomes(job[w], i) : lbs' = [lbs EXCEPT ![job[w].lb] = b]
      BY <3>0
    <3>2. /\ Changing(job[w], used) /\ lbs[job[w].lb] # Absent
          /\ GoodLB(b) /\ Relabel(job[w], lbs[job[w].lb], b)
      BY OutcomeGood
    <3>q. QED
      BY <2>2, <3>1, <3>2 DEF Turn
  <2>3. CASE /\ job[w].stage = "create" /\ used < MaxLB /\ used' = used + 1
             /\ lbs' = [lbs EXCEPT ![used + 1] = Created(job[w])]
    BY <2>3 DEF Turn
  <2>4. CASE /\ job[w].stage = "delete" /\ used' = used
             /\ lbs' = [lbs EXCEPT ![job[w].lb] = Absent]
    BY <2>4 DEF Turn
  <2>q. QED
    BY <1>5, <2>1, <2>2, <2>3, <2>4 DEF CallFails
<1>q. QED
  BY <1>2, <1>3, <1>4, <1>5

\* Every step of a call, in one form.
LEMMA CallSteps ==
    ASSUME TypeInv, NEW w \in Worker, Step(w) \/ AttachLocked(w) \/ CallFails(w)
    PROVE  job[w] # Idle /\ Others(w) /\ Turn(w) /\ Goes(w)
<1>1. job[w] # Idle
  BY DEF Step, AttachLocked, CallFails, ByUID, ByName, Create, Delete, Call, InStage, CallRejected, Finish
<1>q. QED
  BY <1>1, ByUIDStep, ByNameStep, CreateStep, DeleteStep, CallStep, AttachLockedStep, EndStep DEF Step

\* The service controller gives worker w a call, which begins to search.  A
\* sync of the service is begun when there is no other.
Begins(w) ==
    /\ job[w] = Idle /\ UNCHANGED <<lbs, used>>
    /\ DOMAIN job' = Worker /\ \A v \in Worker : v # w => job'[v] = job[v]
    /\ GoodJob(job'[w], used) /\ job'[w].stage = "byUID"
    /\ job'[w].op # "Update" => ~Active(job'[w].svc, {"Ensure", "Delete"})

LEMMA BeginStep ==
    ASSUME TypeInv, NEW w \in Worker, NEW s \in Svc, SyncService(w, s) \/ SyncNodes(w, s)
    PROVE  Begins(w)
<1>0. DOMAIN job = Worker /\ nodes \subseteq ServerId
      /\ svc[s] \in Config[s] \cup {Absent} /\ known[s] \in Config[s] \cup {Absent}
  BY DEF TypeInv, JobsInv, ServicesInv
<1>1. ASSUME NEW op \in {"Ensure", "Update", "Delete"}, NEW c, op # "Delete" => c \in Config[s],
             Begin(w, op, s, c), op # "Update" => ~Active(s, {"Ensure", "Delete"})
      PROVE  Begins(w)
  <2> DEFINE none == <<>>
             k == [op |-> op, svc |-> s, conf |-> c, nodes |-> nodes, stage |-> "byUID", todo |-> none,
                   lb |-> NoLB, copy |-> Absent, work |-> {}, changed |-> FALSE,
                   retried |-> FALSE, calm |-> \A v \in Worker : job[v] = Idle]
  <2>1. job' = [job EXCEPT ![w] = k] /\ job[w] = Idle /\ UNCHANGED <<lbs, used>>
    BY <1>1 DEF Begin
  <2>2. none \in Seq(StageNames)
    OBVIOUS
  <2> HIDE DEF none
  <2>3. DOMAIN k = JobFields /\ k.op = op /\ k.svc = s /\ k.conf = c /\ k.nodes = nodes
        /\ k.stage = "byUID" /\ k.todo = none /\ k.lb = NoLB /\ k.work = {}
    BY DEF JobFields
  <2> HIDE DEF k
  <2>4. GoodJob(k, used)
    BY <2>2, <2>3, <1>0, <1>1 DEF GoodJob, IsJob, Searching
  <2>5. DOMAIN job' = Worker /\ job'[w] = k /\ \A v \in Worker : v # w => job'[v] = job[v]
    BY <2>1, <1>0
  <2>q. QED
    BY <2>1, <2>3, <2>4, <2>5, <1>1 DEF Begins
<1>2. CASE SyncService(w, s)
  BY <1>0, <1>1, <1>2 DEF SyncService
<1>3. CASE SyncNodes(w, s)
  BY <1>0, <1>1, <1>3 DEF SyncNodes
<1>q. QED
  BY <1>2, <1>3

\* The environment: nobody's call moves, and no Load Balancer appears,
\* disappears, or is relabelled.
Outside ==
    /\ used' = used /\ DOMAIN job' = Worker
    /\ \A v \in Worker : job'[v] # Idle => job[v] # Idle /\ Kept(job[v], job'[v])
    /\ \/ lbs' = lbs
       \/ \E x \in Live : lbs' = [lbs EXCEPT ![x].protected = TRUE]

LEMMA OutsideStep ==
    ASSUME TypeInv, Environment
    PROVE  Outside
<1>1. job' = Disturb(Idle) /\ used' = used
  BY DEF Environment, ServiceChanges, NodesChange, Protect, Change
<1>2. lbs' = lbs \/ \E x \in Live : lbs' = [lbs EXCEPT ![x].protected = TRUE]
  BY DEF Environment, ServiceChanges, NodesChange, Protect, Change
<1>3. DOMAIN Disturb(Idle) = Worker
  BY DEF Disturb
<1>q. QED
  BY <1>1, <1>2, <1>3, DisturbKeeps DEF Outside, TypeInv

\* The steps there are.
LEMMA Steps ==
    ASSUME TypeInv, [Next]_vars
    PROVE  \/ UNCHANGED vars
           \/ Outside
           \/ \E w \in Worker : Begins(w)
           \/ \E w \in Worker : job[w] # Idle /\ Others(w) /\ Turn(w) /\ Goes(w)
BY OutsideStep, BeginStep, CallSteps DEF Next

-----------------------------------------------------------------------------
(* The types are kept *)

LEMMA ServicesNext == ASSUME TypeInv, [Next]_vars PROVE ServicesInv'
<1>0. ServicesInv /\ JobsInv /\ MaxChanges \in Nat /\ MaxFails \in Nat
  BY LoadBalancersAssumption DEF LoadBalancersAssumption, TypeInv
<1>1. CASE UNCHANGED vars
  BY <1>0, <1>1 DEF vars, ServicesInv
<1>2. ASSUME NEW s \in Svc, NEW c \in Config[s] \cup {Absent}, ServiceChanges(s, c) PROVE ServicesInv'
  BY <1>0, <1>2 DEF ServicesInv, ServiceChanges, Change
<1>3. ASSUME NEW n \in ServerId, NodesChange(n) PROVE ServicesInv'
  BY <1>0, <1>3 DEF ServicesInv, NodesChange, Change
<1>4. ASSUME NEW x \in LB, Protect(x) PROVE ServicesInv'
  BY <1>0, <1>4 DEF ServicesInv, Protect
<1>5. ASSUME NEW w \in Worker, NEW s \in Svc, SyncService(w, s) PROVE ServicesInv'
  BY <1>0, <1>5 DEF ServicesInv, SyncService, Begin, envVars
<1>6. ASSUME NEW w \in Worker, NEW s \in Svc, SyncNodes(w, s) PROVE ServicesInv'
  BY <1>0, <1>6 DEF ServicesInv, SyncNodes, Begin, envVars
<1>7. ASSUME NEW w \in Worker, Step(w) \/ AttachLocked(w) \/ CallFails(w) PROVE ServicesInv'
  <2>1. job[w] # Idle
    BY <1>7, CallSteps
  <2>2. job[w].svc \in Svc
    BY <2>1, <1>0 DEF JobsInv, GoodJob, IsJob
  <2>3. ASSUME NEW ok, NEW ingress, Return(w, ok, ingress), fails' \in 0..MaxFails PROVE ServicesInv'
    BY <2>2, <2>3, <1>0 DEF Return, ServicesInv, envVars
  <2>4. ASSUME UNCHANGED <<envVars, ctlVars>>, fails' \in 0..MaxFails PROVE ServicesInv'
    BY <2>4, <1>0 DEF ServicesInv, envVars, ctlVars
  <2>5. fails \in 0..MaxFails
    BY <1>0 DEF ServicesInv
  <2>6. ASSUME NEW j, Continue(w, j) PROVE ServicesInv'
    BY <2>4, <2>5, <2>6 DEF Continue
  <2>7. CASE AttachLocked(w)
    BY <2>4, <2>5, <2>7, <1>0 DEF AttachLocked
  <2>8. CASE CallFails(w)
    <3>1. Return(w, FALSE, {}) /\ fails < MaxFails /\ fails' = fails + 1
      BY <2>8 DEF CallFails
    <3>2. fails' \in 0..MaxFails
      BY <3>1, <2>5, <1>0
    <3>q. QED
      BY <3>1, <3>2, <2>3
  <2>9. CASE ByUID(w) \/ ByName(w) \/ Create(w) \/ Call(w)
    BY <2>3, <2>5, <2>6, <2>9 DEF ByUID, ByName, Create, Call, Done, Failed
  <2>10. CASE Delete(w) \/ CallRejected(w) \/ Finish(w)
    BY <2>3, <2>5, <2>10 DEF Delete, CallRejected, Finish, Done, Failed
  <2>q. QED
    BY <1>7, <2>7, <2>8, <2>9, <2>10 DEF Step
<1>q. QED
  BY <1>1, <1>2, <1>3, <1>4, <1>5, <1>6, <1>7 DEF Next, Environment

\* A record b put in place of the Load Balancer x.
LEMMA PutGood ==
    ASSUME ApiInv, NEW x \in LB, NEW b, lbs' = [lbs EXCEPT ![x] = b], used' \in 0..MaxLB, used <= used',
           b # Absent => x \in 1..used' /\ GoodLB(b)
    PROVE  ApiInv'
<1>1. used \in Nat /\ used' \in Nat
  BY LoadBalancersAssumption DEF LoadBalancersAssumption, ApiInv
<1>2. \A y \in 1..used : y \in 1..used'
  BY <1>1
<1>3. DOMAIN lbs' = LB /\ lbs'[x] = b /\ \A y \in LB : y # x => lbs'[y] = lbs[y]
  BY DEF ApiInv
<1>q. QED
  BY <1>2, <1>3 DEF ApiInv

LEMMA ApiNext == ASSUME TypeInv, [Next]_vars PROVE ApiInv'
<1>0. ApiInv /\ used \in Nat /\ MaxLB \in Nat /\ used <= MaxLB
  BY LoadBalancersAssumption DEF LoadBalancersAssumption, TypeInv, ApiInv
<1>u. used' = used => used' \in 0..MaxLB /\ used <= used'
  BY <1>0
<1>1. CASE UNCHANGED <<lbs, used>>
  BY <1>0, <1>1 DEF ApiInv
<1>2. CASE Outside
  <2>1. CASE lbs' = lbs
    BY <2>1, <1>1, <1>2 DEF Outside
  <2>2. CASE \E x \in Live : lbs' = [lbs EXCEPT ![x].protected = TRUE]
    <3>1. PICK x \in Live : lbs' = [lbs EXCEPT ![x].protected = TRUE]
      BY <2>2
    <3> DEFINE b == [lbs[x] EXCEPT !.protected = TRUE]
    <3>2. x \in LB /\ x \in 1..used /\ GoodLB(lbs[x])
      BY <1>0 DEF Live, ApiInv
    <3>3. GoodLB(b)
      <4>1. b \in LoadBalancer /\ b.ports = lbs[x].ports
        BY <3>2 DEF GoodLB, LoadBalancer
      <4>q. QED
        BY <4>1, <3>2 DEF GoodLB
    <3>4. lbs' = [lbs EXCEPT ![x] = b] /\ used' = used
      BY <3>1, <1>2 DEF Outside
    <3> HIDE DEF b
    <3>q. QED
      BY <3>2, <3>3, <3>4, <1>0, <1>u, PutGood
  <2>q. QED
    BY <2>1, <2>2, <1>2 DEF Outside
<1>3. ASSUME NEW w \in Worker, job[w] # Idle, Turn(w) PROVE ApiInv'
  <2>0. GoodJob(job[w], used)
    BY <1>3 DEF TypeInv, JobsInv
  <2>1. \A x \in 1..used : x \in LB
    BY <1>0 DEF LB
  <2>2. CASE /\ Changing(job[w], used) /\ used' = used
             /\ \E b : GoodLB(b) /\ lbs' = [lbs EXCEPT ![job[w].lb] = b]
    <3>1. PICK b : GoodLB(b) /\ lbs' = [lbs EXCEPT ![job[w].lb] = b]
      BY <2>2
    <3>2. job[w].lb \in LB /\ job[w].lb \in 1..used'
      BY <2>1, <2>2 DEF Changing
    <3>q. QED
      BY <3>1, <3>2, <2>2, <1>0, <1>u, PutGood
  <2>3. CASE /\ job[w].stage = "create" /\ used < MaxLB /\ used' = used + 1
             /\ lbs' = [lbs EXCEPT ![used + 1] = Created(job[w])]
    <3>1. GoodLB(Created(job[w]))
      BY <2>0, <2>3, CreatingJob, CreatedGood
    <3>2. used + 1 \in LB /\ used + 1 \in 1..used' /\ used' \in 0..MaxLB /\ used <= used'
      BY <2>3, <1>0 DEF LB
    <3>q. QED
      BY <3>1, <3>2, <2>3, <1>0, PutGood
  <2>4. CASE /\ job[w].stage = "delete" /\ used' = used /\ lbs' = [lbs EXCEPT ![job[w].lb] = Absent]
    <3>1. job[w].lb \in LB
      BY <2>0, <2>1, <2>4 DEF GoodJob, Searching, Deleting, Changing, StageNames, AllAttrs
    <3>q. QED
      BY <3>1, <2>4, <1>0, <1>u, PutGood
  <2>q. QED
    BY <2>2, <2>3, <2>4, <1>1, <1>3 DEF Turn
<1>q. QED
  BY <1>1, <1>2, <1>3, Steps DEF vars, Begins

LEMMA UsedGrows == ASSUME TypeInv, [Next]_vars PROVE used \in Nat /\ used' \in Nat /\ used <= used'
<1>1. used \in Nat
  BY LoadBalancersAssumption DEF LoadBalancersAssumption, TypeInv, ApiInv
<1>q. QED
  BY <1>1, Steps DEF vars, Outside, Begins, Turn

LEMMA JobsNext == ASSUME TypeInv, [Next]_vars PROVE JobsInv' /\ OneSync'
<1>0. /\ JobsInv /\ OneSync /\ used \in Nat /\ used' \in Nat /\ used <= used'
  BY UsedGrows DEF TypeInv
<1>k. ASSUME NEW v \in Worker, job[v] # Idle, Kept(job[v], job'[v])
      PROVE  GoodJob(job'[v], used') /\ job'[v].op = job[v].op /\ job'[v].svc = job[v].svc
  <2>1. job'[v].op = job[v].op /\ job'[v].svc = job[v].svc
    BY <1>k DEF Kept, JobFields
  <2>2. GoodJob(job[v], used)
    BY <1>k, <1>0 DEF JobsInv
  <2>q. QED
    BY <2>1, <2>2, <1>0, <1>k, KeptGood
<1>1. CASE UNCHANGED vars
  BY <1>0, <1>1 DEF vars, JobsInv, OneSync
<1>2. CASE Outside
  BY <1>0, <1>2, <1>k DEF Outside, JobsInv, OneSync
<1>3. ASSUME NEW w \in Worker, Begins(w) PROVE JobsInv' /\ OneSync'
  <2>1. JobsInv'
    BY <1>0, <1>3 DEF Begins, JobsInv
  <2>2. ASSUME NEW v \in Worker, v # w, job'[v] # Idle, job'[w].op # "Update", job'[v].svc = job'[w].svc,
               job'[v].op # "Update"
        PROVE  FALSE
    <3>1. job[v] # Idle /\ job'[v] = job[v] /\ job[v].op \in {"Ensure", "Delete"}
      BY <2>2, <1>0, <1>3 DEF Begins, JobsInv, GoodJob, IsJob
    <3>q. QED
      BY <3>1, <2>2, <1>3 DEF Begins, Active
  <2>3. OneSync'
    BY <2>2, <1>0, <1>3 DEF Begins, OneSync
  <2>q. QED
    BY <2>1, <2>3
<1>4. ASSUME NEW w \in Worker, job[w] # Idle, Others(w), Goes(w) PROVE JobsInv' /\ OneSync'
  <2>1. ASSUME NEW v \in Worker, job'[v] # Idle
        PROVE  /\ job[v] # Idle /\ GoodJob(job'[v], used')
               /\ job'[v].op = job[v].op /\ job'[v].svc = job[v].svc
    BY <2>1, <1>4, <1>k DEF Others, Goes
  <2>q. QED
    BY <2>1, <1>0, <1>4 DEF Others, JobsInv, OneSync
<1>q. QED
  BY <1>1, <1>2, <1>3, <1>4, Steps

LEMMA TypeNext == TypeInv /\ [Next]_vars => TypeInv'
BY ServicesNext, ApiNext, JobsNext DEF TypeInv

LEMMA TypeInit == Init => TypeInv
<1> SUFFICES ASSUME Init PROVE TypeInv
  OBVIOUS
<1>0. /\ MaxLB \in Nat /\ MaxServices \in Nat /\ MaxChanges \in Nat /\ MaxFails \in Nat
      /\ Imported \in Seq(Range(Imported) \ Svc) /\ Len(Imported) <= MaxLB
  BY LoadBalancersAssumption DEF LoadBalancersAssumption
<1>1. Len(Imported) \in Nat /\ DOMAIN Imported = 1..Len(Imported)
  BY <1>0
<1>2. ServicesInv /\ JobsInv /\ OneSync
  BY <1>0 DEF Init, ServicesInv, JobsInv, OneSync
<1>3. ApiInv
  <2>1. used = Len(Imported) /\ DOMAIN lbs = LB
    BY DEF Init
  <2>2. ASSUME NEW x \in LB, lbs[x] # Absent PROVE x \in 1..used /\ GoodLB(lbs[x])
    <3>1. PICK ips \in {{}, {OtherIP}} :
            lbs[x] = IF x \in DOMAIN Imported
                       THEN [NewLB(Unset, Imported[x], [a \in Attrs |-> Default]) EXCEPT !.ips = ips]
                       ELSE Absent
      BY DEF Init
    <3>2. x \in DOMAIN Imported
          /\ lbs[x] = [NewLB(Unset, Imported[x], [a \in Attrs |-> Default]) EXCEPT !.ips = ips]
      BY <3>1, <2>2
    <3>3. IsFiniteSet({}) /\ Cardinality({}) = 0
      BY FS_EmptySet
    <3>4. GoodLB(lbs[x])
      <4> DEFINE f == [a \in Attrs |-> Default]
      <4>1. f \in [Attrs -> AnyValue]
        BY DEF AnyValue
      <4>2. Imported[x] \in AnyName
        BY <3>2 DEF AnyName, Range
      <4>3. lbs[x] = [NewLB(Unset, Imported[x], f) EXCEPT !.ips = ips]
        BY <3>2
      <4> HIDE DEF f
      <4>4. lbs[x] \in LoadBalancer /\ lbs[x].ports = {}
        BY <4>1, <4>2, <4>3 DEF NewLB, LoadBalancer
      <4>q. QED
        BY <4>4, <3>3, <1>0 DEF GoodLB
    <3>q. QED
      BY <3>2, <3>4, <2>1, <1>1
  <2>q. QED
    BY <2>1, <2>2, <1>0, <1>1 DEF ApiInv
<1>q. QED
  BY <1>2, <1>3 DEF TypeInv

\* The Load Balancers of the API and the calls in flight are well formed: no
\* call changes a Load Balancer before it has found one, and the API's limit
\* of services holds.
THEOREM TypeCorrect == Spec => []TypeOK
<1>1. TypeInv => TypeOK
  <2> SUFFICES ASSUME TypeInv PROVE TypeOK
    OBVIOUS
  <2>1. ServicesInv /\ ApiInv /\ JobsInv /\ MaxLB \in Nat
    BY LoadBalancersAssumption DEF TypeInv, LoadBalancersAssumption
  <2>2. Live \subseteq 1..used
    BY <2>1 DEF Live, ApiInv
  <2>3. ASSUME NEW x \in Live
        PROVE  lbs[x] \in LoadBalancer /\ Cardinality(lbs[x].ports) <= MaxServices
    BY <2>1 DEF Live, ApiInv, GoodLB
  <2>4. ASSUME NEW w \in Worker, job[w] # Idle
        PROVE  /\ job[w].svc \in Svc /\ job[w].lb \in LB \cup {NoLB}
               /\ job[w].work # {} => job[w].lb \in 1..used
    <3>1. GoodJob(job[w], used)
      BY <2>1, <2>4 DEF JobsInv
    <3>2. \A x \in 1..used : x \in LB
      BY <2>1 DEF ApiInv, LB
    <3>q. QED
      BY <3>1, <3>2 DEF GoodJob, IsJob, Searching, Deleting, Changing
  <2>q. QED
    BY <2>1, <2>2, <2>3, <2>4 DEF TypeOK, ServicesInv, ApiInv
<1>q. QED
  BY <1>1, TypeInit, TypeNext, PTL DEF Spec

-----------------------------------------------------------------------------
(* Whose a Load Balancer is.  Services have names of their own; otherwise  *)
(* the lookup by name takes over a Load Balancer in use.                   *)

OwnNames == \A s, t \in Svc : s # t => Names(s) \cap Names(t) = {}

\* A Load Balancer with the label of a service has one of its names.
LabelInv ==
    \A x \in LB : lbs[x] # Absent /\ lbs[x].label # Unset => lbs[x].name \in Names(lbs[x].label)

\* The Load Balancer that a call works on has a name of the service, however
\* long ago it was looked up: it is still this service's, or is gone.
HeldInv ==
    \A w \in Worker :
        job[w] # Idle /\ job[w].lb \in LB =>
            (lbs[job[w].lb] # Absent => lbs[job[w].lb].name \in Names(job[w].svc))

OwnInv == TypeInv /\ LabelInv /\ HeldInv

\* The label of the Load Balancer a call works on is that of its service.
LEMMA HeldLabel ==
    ASSUME OwnNames, OwnInv, NEW w \in Worker, job[w] # Idle, job[w].lb \in LB, lbs[job[w].lb] # Absent
    PROVE  lbs[job[w].lb].label \in {job[w].svc, Unset}
<1> DEFINE b == lbs[job[w].lb]
<1>1. b.label \in Svc \cup {Unset} /\ job[w].svc \in Svc /\ b.name \in Names(job[w].svc)
  BY DEF OwnInv, TypeInv, ApiInv, JobsInv, GoodJob, IsJob, GoodLB, LoadBalancer, HeldInv
<1>2. b.label # Unset => b.name \in Names(b.label)
  BY DEF OwnInv, LabelInv
<1> HIDE DEF b
<1>3. b.label \in {job[w].svc, Unset}
  BY <1>1, <1>2 DEF OwnNames
<1>q. QED
  BY <1>3 DEF b

\* The call of w leaves its Load Balancer, if it is there, with the label of
\* its service, and every other one as it is.
LEMMA TurnLabels ==
    ASSUME OwnNames, OwnInv, NEW w \in Worker, job[w] # Idle, Turn(w), NEW x \in LB, lbs[x] # Absent
    PROVE  \/ lbs'[x] = lbs[x]
           \/ /\ x = job[w].lb /\ lbs'[x] # Absent /\ Changing(job[w], used)
              /\ lbs'[x].label \in {lbs[x].label, job[w].svc} /\ lbs[x].label \in {job[w].svc, Unset}
              /\ lbs'[x].name \in Names(job[w].svc)
           \/ x = job[w].lb /\ lbs'[x] = Absent /\ Deleting(job[w], used)
<1>0. /\ GoodJob(job[w], used) /\ DOMAIN lbs = LB /\ used \in Nat /\ MaxLB \in Nat /\ used <= MaxLB
      /\ x \in 1..used
  BY LoadBalancersAssumption
  DEF LoadBalancersAssumption, OwnInv, TypeInv, ApiInv, JobsInv
<1>1. CASE UNCHANGED <<lbs, used>>
  BY <1>1
<1>2. CASE /\ Changing(job[w], used)
           /\ \E b : GoodLB(b) /\ Relabel(job[w], lbs[job[w].lb], b) /\ lbs' = [lbs EXCEPT ![job[w].lb] = b]
  <2>1. PICK b : GoodLB(b) /\ Relabel(job[w], lbs[job[w].lb], b) /\ lbs' = [lbs EXCEPT ![job[w].lb] = b]
    BY <1>2
  <2>2. CASE x # job[w].lb
    BY <2>1, <2>2, <1>0
  <2>3. CASE x = job[w].lb
    <3>1. lbs'[x] = b /\ b # Absent
      BY <2>1, <2>3, <1>0, LoadBalancersAssumption DEF LoadBalancersAssumption, GoodLB
    <3>2. lbs[x].name \in Names(job[w].svc)
      BY <2>3 DEF OwnInv, HeldInv
    <3>3. lbs[x].label \in {job[w].svc, Unset}
      BY <2>3, HeldLabel
    <3>4. b.label \in {lbs[x].label, job[w].svc} /\ b.name \in Names(job[w].svc)
      BY <2>1, <2>3, <3>2 DEF Relabel
    <3>q. QED
      BY <3>1, <3>3, <3>4, <2>3, <1>2
  <2>q. QED
    BY <2>2, <2>3
<1>3. CASE lbs' = [lbs EXCEPT ![used + 1] = Created(job[w])]
  BY <1>0, <1>3
<1>4. CASE job[w].stage = "delete" /\ lbs' = [lbs EXCEPT ![job[w].lb] = Absent]
  <2>1. Deleting(job[w], used)
    BY <1>0, <1>4 DEF GoodJob, Searching, Changing, StageNames, AllAttrs
  <2>q. QED
    BY <2>1, <1>0, <1>4
<1>q. QED
  BY <1>1, <1>2, <1>3, <1>4 DEF Turn

\* A Load Balancer that appears is that of the call that creates it.
LEMMA TurnCreates ==
    ASSUME TypeInv, NEW w \in Worker, job[w] # Idle, Turn(w), NEW x \in LB, lbs[x] = Absent, lbs'[x] # Absent
    PROVE  /\ job[w].stage = "create" /\ job[w].op = "Ensure" /\ x = used + 1 /\ used' = used + 1
           /\ lbs'[x].label = job[w].svc /\ lbs'[x].name \in Names(job[w].svc)
<1>0. GoodJob(job[w], used) /\ DOMAIN lbs = LB
  BY DEF TypeInv, ApiInv, JobsInv
<1>1. /\ job[w].stage = "create" /\ used' = used + 1
      /\ lbs' = [lbs EXCEPT ![used + 1] = Created(job[w])]
  BY <1>0 DEF Turn
<1>2. x = used + 1 /\ lbs'[x] = Created(job[w])
  BY <1>0, <1>1
<1>q. QED
  BY <1>0, <1>1, <1>2, CreatingJob, CreatedGood

LEMMA OutsideLabels ==
    ASSUME TypeInv, Outside, NEW x \in LB
    PROVE  /\ lbs'[x] # Absent <=> lbs[x] # Absent
           /\ lbs[x] # Absent => lbs'[x].label = lbs[x].label /\ lbs'[x].name = lbs[x].name
<1>1. CASE lbs' = lbs
  BY <1>1
<1>2. CASE \E y \in Live : lbs' = [lbs EXCEPT ![y].protected = TRUE]
  <2>1. PICK y \in Live : lbs' = [lbs EXCEPT ![y].protected = TRUE]
    BY <1>2
  <2> DEFINE b == [lbs[y] EXCEPT !.protected = TRUE]
  <2>2. y \in LB /\ lbs[y] # Absent /\ lbs[y] \in LoadBalancer /\ DOMAIN lbs = LB
    BY DEF Live, TypeInv, ApiInv, GoodLB
  <2>3. b \in LoadBalancer /\ b.label = lbs[y].label /\ b.name = lbs[y].name
    BY <2>2 DEF LoadBalancer
  <2>4. lbs' = [lbs EXCEPT ![y] = b]
    BY <2>1
  <2> HIDE DEF b
  <2>5. b # Absent
    BY <2>3, LoadBalancersAssumption DEF LoadBalancersAssumption
  <2>q. QED
    BY <2>2, <2>3, <2>4, <2>5
<1>q. QED
  BY <1>1, <1>2 DEF Outside

LEMMA LabelNext == ASSUME OwnNames, OwnInv, [Next]_vars PROVE LabelInv'
<1>0. TypeInv /\ LabelInv
  BY DEF OwnInv
<1>1. CASE UNCHANGED <<lbs, used>>
  BY <1>0, <1>1 DEF LabelInv
<1>2. CASE Outside
  BY <1>0, <1>2, OutsideLabels DEF LabelInv
<1>3. ASSUME NEW w \in Worker, job[w] # Idle, Turn(w) PROVE LabelInv'
  <2> SUFFICES ASSUME NEW x \in LB, lbs'[x] # Absent, lbs'[x].label # Unset
               PROVE  lbs'[x].name \in Names(lbs'[x].label)
    BY DEF LabelInv
  <2>1. CASE lbs[x] = Absent
    BY <2>1, <1>0, <1>3, TurnCreates
  <2>2. CASE lbs[x] # Absent
    BY <2>2, <1>0, <1>3, TurnLabels DEF LabelInv
  <2>q. QED
    BY <2>1, <2>2
<1>q. QED
  BY <1>0, <1>1, <1>2, <1>3, Steps DEF vars, Begins

LEMMA HeldNext == ASSUME OwnNames, OwnInv, [Next]_vars PROVE HeldInv'
<1>0. TypeInv /\ LabelInv /\ HeldInv /\ used \in Nat
  BY UsedGrows DEF OwnInv
<1>n. NoLB \notin LB
  BY LoadBalancersAssumption DEF LoadBalancersAssumption
<1>k. ASSUME NEW v \in Worker, Kept(job[v], job'[v])
      PROVE  job'[v].lb = job[v].lb /\ job'[v].svc = job[v].svc
  BY <1>k DEF Kept, JobFields
<1>1. CASE UNCHANGED vars
  BY <1>0, <1>1 DEF HeldInv, vars
<1>2. CASE Outside
  BY <1>0, <1>2, <1>k, OutsideLabels DEF HeldInv, Outside
<1>3. ASSUME NEW w \in Worker, Begins(w) PROVE HeldInv'
  <2>1. job'[w].lb \notin LB
    BY <1>3, <1>n DEF Begins, GoodJob, Searching, Deleting, Changing, StageNames, AllAttrs
  <2>q. QED
    BY <2>1, <1>0, <1>3 DEF Begins, HeldInv
<1>4. ASSUME NEW w \in Worker, job[w] # Idle, Others(w), Turn(w), Goes(w) PROVE HeldInv'
  <2> SUFFICES ASSUME NEW v \in Worker, job'[v] # Idle, job'[v].lb \in LB, lbs'[job'[v].lb] # Absent
               PROVE  lbs'[job'[v].lb].name \in Names(job'[v].svc)
    BY DEF HeldInv
  <2> DEFINE x == job'[v].lb
  \* A call that had its Load Balancer before this step.
  <2>1. ASSUME job[v] # Idle, job[v].lb = x, job'[v].svc = job[v].svc
        PROVE  lbs'[x].name \in Names(job[v].svc)
    <3>0. job[v].svc \in Svc /\ job[w].svc \in Svc /\ x \in 1..used
      BY <2>1, <1>0, <1>n, <1>4
      DEF TypeInv, JobsInv, GoodJob, IsJob, Searching, Deleting, Changing
    <3>1. lbs[x] # Absent
      BY <3>0, <1>0, <1>4, TurnCreates
    <3>2. lbs[x].name \in Names(job[v].svc)
      BY <2>1, <3>1, <1>0 DEF HeldInv
    <3>3. CASE lbs'[x] = lbs[x]
      BY <3>2, <3>3
    <3>4. CASE x = job[w].lb /\ lbs'[x].name \in Names(job[w].svc)
      <4>1. lbs[x].name \in Names(job[w].svc)
        BY <3>1, <3>4, <1>0, <1>4 DEF HeldInv
      <4>2. job[w].svc = job[v].svc
        BY <4>1, <3>0, <3>2 DEF OwnNames
      <4>q. QED
        BY <4>2, <3>4
    <3>q. QED
      BY <3>1, <3>3, <3>4, <1>4, TurnLabels
  <2>2. CASE v # w
    BY <2>1, <2>2, <1>4, <1>k DEF Others
  <2>3. CASE v = w
    <3>1. job'[w].svc = job[w].svc /\ GoodJob(job'[w], used')
      BY <2>3, <1>4 DEF Goes
    <3>2. CASE job'[w].stage \in {"byName", "create"}
      BY <3>1, <3>2, <2>3, <1>n DEF GoodJob, Searching, Deleting, Changing, StageNames, AllAttrs
    <3>3. CASE job'[w].lb = job[w].lb
      BY <3>1, <3>3, <2>1, <2>3, <1>4
    <3>4. CASE /\ UNCHANGED <<lbs, used>> /\ job'[w].lb \in Live
               /\ \/ lbs[job'[w].lb].label = job[w].svc
                  \/ lbs[job'[w].lb].name \in Names(job[w].svc)
      <4>1. job[w].svc # Unset
        BY <1>0, <1>4, LoadBalancersAssumption
        DEF LoadBalancersAssumption, TypeInv, JobsInv, GoodJob, IsJob
      <4>q. QED
        BY <4>1, <3>1, <3>4, <2>3, <1>0 DEF LabelInv, Live
    <3>5. CASE job'[w].lb = used + 1 /\ used' = used + 1
      <4>1. lbs[used + 1] = Absent
        BY <3>5, <2>3, <1>0 DEF TypeInv, ApiInv
      <4>q. QED
        BY <4>1, <3>1, <3>5, <2>3, <1>0, <1>4, TurnCreates
    <3>q. QED
      BY <3>2, <3>3, <3>4, <3>5, <2>3, <1>4 DEF Goes
  <2>q. QED
    BY <2>2, <2>3
<1>q. QED
  BY <1>0, <1>1, <1>2, <1>3, <1>4, Steps

LEMMA OwnInit == Init => OwnInv
<1> SUFFICES ASSUME Init PROVE OwnInv
  OBVIOUS
<1>1. ASSUME NEW x \in LB, lbs[x] # Absent PROVE lbs[x].label = Unset
  BY <1>1 DEF Init, NewLB
<1>2. LabelInv /\ HeldInv
  BY <1>1 DEF Init, LabelInv, HeldInv
<1>q. QED
  BY <1>2, TypeInit DEF OwnInv

LEMMA OwnNext == ASSUME OwnNames PROVE OwnInv /\ [Next]_vars => OwnInv'
BY TypeNext, LabelNext, HeldNext DEF OwnInv

\* If services have names of their own, a service that wants its Load Balancer
\* keeps it: a worker that acts on an old lookup neither relabels nor deletes
\* the Load Balancer of another service.
THEOREM AddressStableCorrect ==
    ASSUME OwnNames
    PROVE  Spec => AddressStable
<1> DEFINE Stable(s) == svc[s] # Absent /\ ~Active(s, {"Delete"}) => Owned(s) \subseteq Owned(s)'
<1>1. ASSUME OwnInv, [Next]_vars, NEW s \in Svc PROVE Stable(s)
  <2> SUFFICES ASSUME ~Active(s, {"Delete"}), NEW x \in LB, lbs[x] # Absent, lbs[x].label = s
               PROVE  lbs'[x] # Absent /\ lbs'[x].label = s
    BY DEF Owned, Live
  <2>0. TypeInv /\ s # Unset
    BY <1>1, LoadBalancersAssumption DEF OwnInv, LoadBalancersAssumption
  <2>1. CASE UNCHANGED <<lbs, used>>
    BY <2>1
  <2>2. CASE Outside
    BY <2>0, <2>2, OutsideLabels
  <2>3. ASSUME NEW w \in Worker, job[w] # Idle, Turn(w) PROVE lbs'[x] # Absent /\ lbs'[x].label = s
    <3>1. CASE x = job[w].lb /\ Deleting(job[w], used)
      <4>1. lbs[x].label = job[w].svc
        BY <3>1, <2>0, <2>3, <1>1, HeldLabel
      <4>q. QED
        BY <4>1, <3>1, <2>3 DEF Active, Deleting
    <3>q. QED
      BY <3>1, <2>0, <2>3, <1>1, TurnLabels
  <2>q. QED
    BY <2>0, <2>1, <2>2, <2>3, <1>1, Steps DEF vars, Begins
<1>2. OwnInv /\ [Next]_vars => [\A s \in Svc : Stable(s)]_vars
  BY <1>1
<1>q. QED
  BY <1>2, OwnInit, OwnNext, PTL DEF Spec, AddressStable

-----------------------------------------------------------------------------
(* One Load Balancer per service, if none is imported: one without a label *)
(* may be labelled by the node worker while the service worker creates     *)
(* another.                                                                *)

Labelled == \A x \in LB : lbs[x] # Absent => lbs[x].label # Unset

\* When Ensure has not found the label, nobody writes it before Ensure does.
NoneYet ==
    \A w \in Worker :
        job[w] # Idle /\ job[w].op = "Ensure" /\ job[w].stage \in {"byName", "create"} =>
            \A x \in LB : lbs[x] # Absent => lbs[x].label # job[w].svc

AtMostOne ==
    \A x, y \in LB : lbs[x] # Absent /\ lbs[y] # Absent /\ lbs[x].label = lbs[y].label => x = y

UniqueInv == OwnInv /\ Labelled /\ NoneYet /\ AtMostOne

\* Load Balancers that stay keep their labels.
LEMMA LabelsStay ==
    ASSUME OwnNames, UniqueInv, [Next]_vars, NEW x \in LB, lbs[x] # Absent, lbs'[x] # Absent
    PROVE  lbs'[x].label = lbs[x].label
<1>0. OwnInv /\ TypeInv /\ Labelled
  BY DEF UniqueInv, OwnInv
<1>1. CASE UNCHANGED <<lbs, used>>
  BY <1>1
<1>2. CASE Outside
  BY <1>0, <1>2, OutsideLabels
<1>3. ASSUME NEW w \in Worker, job[w] # Idle, Turn(w) PROVE lbs'[x].label = lbs[x].label
  BY <1>0, <1>3, TurnLabels DEF Labelled
<1>q. QED
  BY <1>0, <1>1, <1>2, <1>3, Steps DEF vars, Begins

\* A Load Balancer that appears is created by an Ensure that found none.
LEMMA Appears ==
    ASSUME UniqueInv, [Next]_vars, NEW x \in LB, lbs[x] = Absent, lbs'[x] # Absent
    PROVE  /\ x = used + 1
           /\ \E w \in Worker : /\ job[w] # Idle /\ job[w].stage = "create" /\ job[w].op = "Ensure"
                                /\ lbs'[x].label = job[w].svc /\ Others(w) /\ Goes(w)
                                /\ used' = used + 1
<1>0. TypeInv
  BY DEF UniqueInv, OwnInv
<1>1. CASE UNCHANGED <<lbs, used>>
  BY <1>1
<1>2. CASE Outside
  BY <1>0, <1>2, OutsideLabels
<1>q. QED
  BY <1>0, <1>1, <1>2, Steps, TurnCreates DEF vars, Begins

LEMMA LabelledNext == ASSUME OwnNames, UniqueInv, [Next]_vars PROVE Labelled' /\ AtMostOne'
<1>0. TypeInv /\ Labelled /\ NoneYet /\ AtMostOne
  BY DEF UniqueInv, OwnInv
<1>1. ASSUME NEW x \in LB, lbs'[x] # Absent, lbs[x] = Absent
      PROVE  lbs'[x].label # Unset /\ x = used + 1
             /\ \A y \in LB : lbs[y] # Absent => lbs[y].label # lbs'[x].label
  <2>1. PICK w \in Worker : /\ job[w] # Idle /\ job[w].stage = "create" /\ job[w].op = "Ensure"
                            /\ lbs'[x].label = job[w].svc
    BY <1>1, Appears
  <2>2. job[w].svc # Unset
    BY <2>1, <1>0, LoadBalancersAssumption
    DEF LoadBalancersAssumption, TypeInv, JobsInv, GoodJob, IsJob
  <2>q. QED
    BY <2>1, <2>2, <1>0, <1>1, Appears DEF NoneYet
<1>2. \A x \in LB : lbs[x] # Absent /\ lbs'[x] # Absent => lbs'[x].label = lbs[x].label
  BY LabelsStay
<1>3. Labelled'
  BY <1>0, <1>1, <1>2 DEF Labelled
<1>4. AtMostOne'
  BY <1>0, <1>1, <1>2 DEF AtMostOne
<1>q. QED
  BY <1>3, <1>4

LEMMA NoneYetNext == ASSUME OwnNames, UniqueInv, [Next]_vars PROVE NoneYet'
<1>0. TypeInv /\ NoneYet /\ OneSync
  BY DEF UniqueInv, OwnInv, TypeInv
<1> SUFFICES ASSUME NEW v \in Worker, job'[v] # Idle, job'[v].op = "Ensure",
                    job'[v].stage \in {"byName", "create"},
                    NEW x \in LB, lbs'[x] # Absent, lbs'[x].label = job'[v].svc
             PROVE  FALSE
  BY DEF NoneYet
\* The call was in the search before this step, or has just seen that there
\* is no Load Balancer with the label.
<1>1. \/ UNCHANGED lbs /\ Owned(job'[v].svc) = {}
      \/ /\ job[v] # Idle /\ job[v].op = "Ensure" /\ job[v].stage \in {"byName", "create"}
         /\ job[v].svc = job'[v].svc
         /\ \/ UNCHANGED lbs
            \/ Outside
            \/ \E w \in Worker : w # v /\ job[w] # Idle /\ Others(w) /\ Turn(w)
  <2>k. Kept(job[v], job'[v]) =>
          job'[v].op = job[v].op /\ job'[v].svc = job[v].svc /\ job'[v].stage = job[v].stage
    BY DEF Kept, JobFields
  <2>1. CASE UNCHANGED vars
    BY <2>1 DEF vars
  <2>2. CASE Outside
    BY <2>2, <2>k DEF Outside
  <2>3. ASSUME NEW w \in Worker, Begins(w) PROVE job'[v] = job[v] /\ UNCHANGED lbs
    BY <2>3 DEF Begins
  <2>4. ASSUME NEW w \in Worker, job[w] # Idle, Others(w), Turn(w), Goes(w), w # v
        PROVE  /\ job[v] # Idle /\ job[v].op = "Ensure" /\ job[v].stage \in {"byName", "create"}
               /\ job[v].svc = job'[v].svc
    BY <2>4, <2>k DEF Others
  <2>5. ASSUME job[v] # Idle, Goes(v)
        PROVE  /\ UNCHANGED lbs
               /\ \/ Owned(job'[v].svc) = {}
                  \/ job[v].op = "Ensure" /\ job[v].stage = "byName" /\ job[v].svc = job'[v].svc
    BY <2>5 DEF Goes
  <2>q. QED
    BY <2>1, <2>2, <2>3, <2>4, <2>5, <1>0, Steps
<1>2. CASE UNCHANGED lbs /\ Owned(job'[v].svc) = {}
  BY <1>2 DEF Owned, Live
<1>3. CASE /\ job[v] # Idle /\ job[v].op = "Ensure" /\ job[v].stage \in {"byName", "create"}
           /\ job[v].svc = job'[v].svc
           /\ \/ UNCHANGED lbs
              \/ Outside
              \/ \E w \in Worker : w # v /\ job[w] # Idle /\ Others(w) /\ Turn(w)
  <2>1. CASE lbs[x] # Absent
    <3>1. lbs'[x].label = lbs[x].label
      BY <2>1, LabelsStay
    <3>q. QED
      BY <3>1, <2>1, <1>0, <1>3 DEF NoneYet
  <2>2. CASE lbs[x] = Absent
    <3>1. PICK w \in Worker : w # v /\ job[w] # Idle /\ Turn(w)
      BY <2>2, <1>0, <1>3, OutsideLabels
    <3>2. job[w].op = "Ensure" /\ lbs'[x].label = job[w].svc
      BY <3>1, <2>2, <1>0, TurnCreates
    <3>q. QED
      BY <3>1, <3>2, <1>0, <1>3 DEF OneSync
  <2>q. QED
    BY <2>1, <2>2
<1>q. QED
  BY <1>1, <1>2, <1>3

\* If services have names of their own and none of their Load Balancers was
\* made by somebody else, a service never has two: neither two workers, nor
\* an answer of Create that was lost, nor a crash after it leads to another.
THEOREM UniqueOwnerCorrect ==
    ASSUME OwnNames, Imported = <<>>
    PROVE  Spec => []UniqueOwner
<1>1. Init => UniqueInv
  <2> SUFFICES ASSUME Init PROVE UniqueInv
    OBVIOUS
  <2>1. ASSUME NEW x \in LB PROVE lbs[x] = Absent
    BY DEF Init
  <2>q. QED
    BY <2>1, OwnInit DEF Init, UniqueInv, Labelled, NoneYet, AtMostOne
<1>2. UniqueInv /\ [Next]_vars => UniqueInv'
  BY OwnNext, LabelledNext, NoneYetNext DEF UniqueInv
<1>3. UniqueInv => UniqueOwner
  <2> SUFFICES ASSUME UniqueInv, NEW s \in Svc PROVE Cardinality(Owned(s)) <= 1
    BY DEF UniqueOwner
  <2>1. \A x, y \in Owned(s) : x = y
    BY DEF UniqueInv, AtMostOne, Owned, Live
  <2>2. CASE Owned(s) = {}
    BY <2>2, FS_EmptySet
  <2>3. CASE Owned(s) # {}
    <3>1. PICK x \in Owned(s) : TRUE
      BY <2>3
    <3>2. Owned(s) = {x}
      BY <2>1
    <3>3. Cardinality({x}) = 1
      BY FS_Singleton, Zenon
    <3>q. QED
      BY <3>2, <3>3
  <2>q. QED
    BY <2>2, <2>3
<1>q. QED
  BY <1>1, <1>2, <1>3, PTL DEF Spec
=============================================================================
