-------------------------- MODULE LBServicesProofs --------------------------
(***************************************************************************)
(* Proofs about LBServices.  A reconcile reads the listen ports of its     *)
(* Load Balancer once and works from that copy, one call of the API after  *)
(* the other.  The invariant says how copy and Load Balancer stay related  *)
(* while other reconciles, restarts and failures happen in between: the    *)
(* ports are those not gone through yet, as they were, and those gone      *)
(* through, as they are asked for.                                         *)
(***************************************************************************)
EXTENDS LBServices, WellFoundedInduction, TLAPS

-----------------------------------------------------------------------------
(* The inductive invariant, for a job j, the ports P of its Load Balancer, *)
(* the defaults d and the certificates L labelled with its service         *)

IsJob(j) ==
    /\ DOMAIN j = {"svc", "conf", "at", "next", "left", "exists", "req"}
    /\ j.svc \in Svc /\ j.conf \in Config[j.svc]
    /\ j.next \in 1..Len(j.conf.ports) + 1
    /\ j.at \in {"certificate", "resolve", "apply", "left"}
    /\ j.exists \in BOOLEAN
    /\ \A o \in {"dest", "protocol", "hcproto", "hcport"} : j.req[o] # Unset

\* The place of a job in the loop over the ports.
Place(j) ==
    /\ j.at = "certificate" => j.next = 1
    /\ j.at \in {"resolve", "apply"} =>
        j.next <= Len(j.conf.ports) /\ j.conf.ports[j.next].proto = "TCP"

\* The TCP ports of c before place n.
Before(c, n) == {k \in 1..Len(c.ports) : c.ports[k].proto = "TCP" /\ k < n}

\* The ports that j has gone through.
Handled(j) == Before(j.conf, IF j.at = "left" THEN Len(j.conf.ports) + 1 ELSE j.next)

\* The listen ports are the left-over ones, those gone through, and the one
\* that is about to be updated; the left-over ones are none of the others.
LeftOver(j, P) ==
    /\ DOMAIN P = j.left \cup {j.conf.ports[k].port : k \in Handled(j)}
                    \cup (IF j.at = "apply" /\ j.exists THEN {j.conf.ports[j.next].port} ELSE {})
    /\ \A k \in Handled(j) : j.conf.ports[k].port \notin j.left
    /\ j.at = "apply" => j.conf.ports[j.next].port \notin j.left

\* The ports gone through are as they are asked for.
Applied(j, P, d, L) ==
    \A k \in Handled(j) : AsAsked(j.conf, d, j.conf.ports[k], P[j.conf.ports[k].port], L)

\* A request that was built is still the one to make.
Request(j, d, L) ==
    j.at = "apply" =>
        /\ j.conf.managed => L # {}
        /\ j.req = Extract(j.conf, d, j.conf.ports[j.next],
                           IF j.conf.managed THEN L ELSE j.conf.certs)

Sound(j, P, d, L) ==
    IsJob(j) /\ Place(j) /\ LeftOver(j, P) /\ Applied(j, P, d, L) /\ Request(j, d, L)

-----------------------------------------------------------------------------
(* Lemmas about the operators of the model *)

\* A non-empty set of numbers has a least element, which Min returns.
LEMMA MinIsLeast ==
    ASSUME NEW S, S \subseteq Nat, S # {}
    PROVE  Min(S) \in S /\ \A y \in S : Min(S) <= y
<1> DEFINE R == {ss \in Nat \X Nat : ss[1] < ss[2]}
<1>1. IsWellFoundedOn(R, Nat)
  BY NatLessThanWellFounded, Zenon DEF OpToRel
<1> HIDE DEF R
<1>2. \E x \in S : \A y \in S : ~ (<<y, x>> \in R)
  BY <1>1, WFMin
<1>3. \E x \in S : \A y \in S : x <= y
  <2>1. PICK x \in S : \A y \in S : ~ (<<y, x>> \in R)
    BY <1>2
  <2>2. ASSUME NEW y \in S PROVE x <= y
    <3>1. <<y, x>> \in Nat \X Nat /\ <<y, x>>[1] = y /\ <<y, x>>[2] = x
      OBVIOUS
    <3>2. ~ (y < x)
      BY <3>1, <2>1 DEF R
    <3>q. QED
      BY <3>2
  <2>q. QED
    BY <2>2
<1>q. QED
  BY <1>3 DEF Min

\* What the API server guarantees of the ports of a service.
LEMMA PortsOfConfig ==
    ASSUME NEW s \in Svc, NEW c \in Config[s]
    PROVE  /\ Len(c.ports) \in Nat /\ DOMAIN c.ports = 1..Len(c.ports)
           /\ \A k \in 1..Len(c.ports) : c.ports[k] \in Port
           /\ \A i, k \in 1..Len(c.ports) :
                c.ports[i].port = c.ports[k].port /\ c.ports[i].proto = c.ports[k].proto => i = k
<1>1. c.ports \in Seq(Port)
  BY LBServicesAssumption
<1>2. Len(c.ports) \in Nat /\ DOMAIN c.ports = 1..Len(c.ports)
  BY <1>1
<1>q. QED
  BY <1>1, <1>2, LBServicesAssumption

\* A request never leaves these options to the API.
LEMMA RequestSet ==
    ASSUME NEW s \in Svc, NEW c \in Config[s], NEW d, NEW p \in Port, NEW found,
           NEW o \in {"dest", "protocol", "hcproto", "hcport"}
    PROVE  Extract(c, d, p, found)[o] # Unset
<1>0. /\ p.node \in Nat /\ Unset \notin Nat /\ Unset \notin Proto
      /\ c.protocol \in Proto \cup {Unset} /\ c.hcproto \in Proto \cup {Unset}
  <2>1. p.node \in Nat
    BY DEF Port
  <2>2. Unset \notin Nat /\ Unset \notin Proto
    BY LBServicesAssumption
  <2>3. c.protocol \in Proto \cup {Unset} /\ c.hcproto \in Proto \cup {Unset}
    BY LBServicesAssumption, Zenon
  <2>q. QED
    BY <2>1, <2>2, <2>3
<1>q. QED
  BY <1>0 DEF Extract, Option, Pick, Protocol, HCProtocol, HCPort, Proto

LEMMA FreshSet == DOMAIN Fresh = Option /\ \A o \in Option : Fresh[o] # Unset
<1>1. Unset # 0 /\ Unset # "tcp" /\ Unset # {}
  <2>1. {} \in SUBSET CertName
    OBVIOUS
  <2>q. QED
    BY <2>1, LBServicesAssumption DEF Proto
<1>q. QED
  BY <1>1 DEF Fresh, Option

\* Ports: the loop skips nothing but ports that are not TCP.
LEMMA PortsStep ==
    ASSUME NEW j, IsJob(j), NEW r, r = Ports(j)
    PROVE  /\ IsJob(r) /\ Place(r) /\ r.at \in {"resolve", "left"}
           /\ Handled(r) = Before(j.conf, j.next)
           /\ r.svc = j.svc /\ r.conf = j.conf /\ r.left = j.left
           /\ r.exists = j.exists /\ r.req = j.req
<1>1. /\ Len(j.conf.ports) \in Nat /\ DOMAIN j.conf.ports = 1..Len(j.conf.ports)
      /\ j.next \in Nat /\ 1 <= j.next /\ j.next <= Len(j.conf.ports) + 1
  BY PortsOfConfig DEF IsJob
<1>2. CASE Exposed(j) = {}
  <2>1. r = [j EXCEPT !.at = "left"]
    BY <1>2 DEF Ports
  <2>2. r.at = "left" /\ r.svc = j.svc /\ r.conf = j.conf /\ r.left = j.left
        /\ r.exists = j.exists /\ r.req = j.req /\ r.next = j.next /\ DOMAIN r = DOMAIN j
    BY <2>1 DEF IsJob
  <2>3. Handled(r) = Before(j.conf, j.next)
    BY <2>2, <1>1, <1>2 DEF Handled, Before, Exposed
  <2>q. QED
    BY <2>2, <2>3 DEF IsJob, Place
<1>3. CASE Exposed(j) # {}
  <2>0. Exposed(j) \subseteq Nat
    BY <1>1 DEF Exposed
  <2>1. r = [j EXCEPT !.at = "resolve", !.next = Min(Exposed(j))]
    BY <1>3 DEF Ports
  <2>2. Min(Exposed(j)) \in Exposed(j) /\ \A y \in Exposed(j) : Min(Exposed(j)) <= y
    BY <1>3, <2>0, MinIsLeast
  <2>3. r.at = "resolve" /\ r.svc = j.svc /\ r.conf = j.conf /\ r.left = j.left
        /\ r.exists = j.exists /\ r.req = j.req /\ r.next = Min(Exposed(j)) /\ DOMAIN r = DOMAIN j
    BY <2>1 DEF IsJob
  <2>4. r.next \in j.next..Len(j.conf.ports) /\ j.conf.ports[r.next].proto = "TCP"
    BY <2>2, <2>3 DEF Exposed
  <2>5. Handled(r) = Before(j.conf, r.next)
    BY <2>3 DEF Handled
  <2>6. ASSUME NEW k \in 1..Len(j.conf.ports), j.conf.ports[k].proto = "TCP"
        PROVE  k < r.next <=> k < j.next
    <3>1. k >= j.next => k \in Exposed(j)
      BY <2>6, <1>1 DEF Exposed
    <3>q. QED
      BY <3>1, <2>2, <2>3, <2>4, <1>1
  <2>7. Handled(r) = Before(j.conf, j.next)
    BY <2>5, <2>6 DEF Before
  <2>q. QED
    BY <2>3, <2>4, <2>7, <1>1 DEF IsJob, Place
<1>q. QED
  BY <1>2, <1>3

\* AddService, UpdateService: a request that was built from the settings makes
\* the port what they ask for, whatever it was before.
LEMMA MergeAsAsked ==
    ASSUME NEW s \in Svc, NEW c \in Config[s], NEW d, NEW p \in Port, NEW L \in SUBSET CertName,
           c.managed => L # {}, NEW old
    PROVE  AsAsked(c, d, p, Merge(old, Extract(c, d, p, IF c.managed THEN L ELSE c.certs)), L)
<1> DEFINE r == Extract(c, d, p, IF c.managed THEN L ELSE c.certs)
           m == Merge(old, r)
<1>0. /\ p.node \in Nat /\ Unset \notin Nat /\ Unset \notin Proto /\ L # Unset
      /\ c.protocol \in Proto \cup {Unset} /\ c.hcproto \in Proto \cup {Unset}
      /\ c.managed \in BOOLEAN
  <2>1. p.node \in Nat
    BY DEF Port
  <2>2. L # Unset /\ Unset \notin Nat /\ Unset \notin Proto
    BY LBServicesAssumption
  <2>3. /\ c.protocol \in Proto \cup {Unset} /\ c.hcproto \in Proto \cup {Unset}
        /\ c.managed \in BOOLEAN
    BY LBServicesAssumption, Zenon
  <2>q. QED
    BY <2>1, <2>2, <2>3
<1>1. m.dest = p.node
  BY <1>0 DEF Extract, Merge, Option, Pick
<1>2. m.protocol = Pick(c.protocol, "tcp")
  BY <1>0 DEF Extract, Merge, Option, Pick, Protocol, Proto
<1>3. Pick(c.proxy, d.proxy) \in {Unset, m.proxy}
  BY DEF Extract, Merge, Option, Pick, Setting
<1>4. c.http \in {Unset, m.http}
  BY DEF Extract, Merge, Option, Pick
<1>5. IF c.managed THEN m.certs # {} /\ m.certs = L ELSE c.certs \in {Unset, m.certs}
  BY <1>0 DEF Extract, Merge, Option, Pick
<1>6. c.hcproto \in {Unset, m.hcproto}
  BY <1>0 DEF Extract, Merge, Option, Pick, HCProtocol, Protocol, Proto
<1>7. m.hcport = Pick(c.hcport, p.node)
  BY <1>0 DEF Extract, Merge, Option, Pick, HCPort
<1>8. Pick(c.interval, d.interval) \in {Unset, m.interval}
  BY DEF Extract, Merge, Option, Pick, Setting
<1>9. m.hcproto # "tcp" => c.hchttp \in {Unset, m.hchttp}
  BY <1>0 DEF Extract, Merge, Option, Pick, HCProtocol, Protocol, Proto
<1>q. QED
  BY <1>1, <1>2, <1>3, <1>4, <1>5, <1>6, <1>7, <1>8, <1>9 DEF AsAsked

-----------------------------------------------------------------------------
(* What each step of a reconcile does to a sound job *)

\* A reconcile that begins has gone through nothing.
LEMMA BeginSound ==
    ASSUME NEW s \in Svc, NEW c \in Config[s], NEW P, NEW d, NEW L, NEW j,
           j = [svc |-> s, conf |-> c, at |-> "certificate", next |-> 1,
                left |-> DOMAIN P, exists |-> FALSE, req |-> Fresh]
    PROVE  Sound(j, P, d, L) /\ j.at = "certificate"
<1>1. Len(c.ports) \in Nat
  BY PortsOfConfig
<1>2. IsJob(j) /\ Place(j)
  BY <1>1, FreshSet DEF IsJob, Place, Option
<1>3. Handled(j) = {}
  BY <1>1 DEF Handled, Before
<1>q. QED
  BY <1>2, <1>3 DEF Sound, LeftOver, Applied, Request

\* A job that has made its certificate sure, or needs none, goes on to the
\* first port, whatever certificates are labelled.
LEMMA FirstPortSound ==
    ASSUME NEW j, NEW P, NEW d, NEW L, Sound(j, P, d, L), j.at = "certificate", NEW M
    PROVE  Sound(Ports(j), P, d, M)
<1> DEFINE r == Ports(j)
<1>0. IsJob(j) /\ j.next = 1
  BY DEF Sound, Place
<1>1. /\ IsJob(r) /\ Place(r) /\ r.at \in {"resolve", "left"}
      /\ Handled(r) = Before(j.conf, 1) /\ r.conf = j.conf /\ r.left = j.left
  BY <1>0, PortsStep
<1>2. Handled(r) = {} /\ Handled(j) = {}
  BY <1>0, <1>1 DEF Handled, Before, Sound, Place
<1>3. DOMAIN P = j.left
  BY <1>2 DEF Sound, LeftOver
<1> HIDE DEF r
<1>4. LeftOver(r, P)
  BY <1>1, <1>2, <1>3 DEF LeftOver
<1>5. Applied(r, P, d, M) /\ Request(r, d, M)
  BY <1>1, <1>2 DEF Applied, Request
<1>q. QED
  BY <1>1, <1>4, <1>5 DEF Sound, r

\* Resolve: the port leaves the left-over ones, and the request is the one the
\* settings ask for.
LEMMA ResolveSound ==
    ASSUME NEW j, NEW P, NEW d, NEW L, Sound(j, P, d, L), j.at = "resolve",
           NEW found, j.conf.managed => found = L, Resolved(j.conf, found),
           NEW r, r = [j EXCEPT
                !.at = "apply", !.exists = j.conf.ports[j.next].port \in j.left,
                !.left = j.left \ {j.conf.ports[j.next].port},
                !.req = Extract(j.conf, d, j.conf.ports[j.next],
                            IF j.conf.managed \/ j.conf.certs # Unset THEN found ELSE Unset)]
    PROVE  Sound(r, P, d, L)
<1> DEFINE c == j.conf
           n == j.next
           q == c.ports[n].port
<1>0. IsJob(j) /\ Place(j) /\ LeftOver(j, P) /\ Applied(j, P, d, L)
  BY DEF Sound
<1>1. /\ c \in Config[j.svc] /\ j.svc \in Svc /\ n \in 1..Len(c.ports)
      /\ c.ports[n].proto = "TCP" /\ Len(c.ports) \in Nat /\ DOMAIN c.ports = 1..Len(c.ports)
  BY <1>0, PortsOfConfig DEF IsJob, Place
<1>2. /\ DOMAIN r = DOMAIN j /\ r.svc = j.svc /\ r.conf = c /\ r.next = n /\ r.at = "apply"
      /\ r.exists = (q \in j.left) /\ r.left = j.left \ {q}
      /\ r.req = Extract(c, d, c.ports[n], IF c.managed \/ c.certs # Unset THEN found ELSE Unset)
  BY <1>0 DEF IsJob
<1>3. IsJob(r) /\ Place(r)
  <2>1. c.ports[n] \in Port
    BY <1>1, PortsOfConfig
  <2>2. \A o \in {"dest", "protocol", "hcproto", "hcport"} : r.req[o] # Unset
    BY <2>1, <1>1, <1>2, RequestSet
  <2>q. QED
    BY <2>2, <1>0, <1>1, <1>2 DEF IsJob, Place
<1>4. Handled(r) = Handled(j)
  BY <1>2 DEF Handled
<1>5. \A k \in Handled(j) : c.ports[k].port # q
  <2>1. \A k \in Handled(j) : k \in 1..Len(c.ports) /\ c.ports[k].proto = "TCP" /\ k < n
    BY DEF Handled, Before
  <2>q. QED
    BY <2>1, <1>1, PortsOfConfig
<1>6. LeftOver(r, P)
  <2>1. DOMAIN P = j.left \cup {c.ports[k].port : k \in Handled(j)}
    BY <1>0 DEF LeftOver
  <2>2. DOMAIN P = r.left \cup {r.conf.ports[k].port : k \in Handled(r)}
             \cup (IF r.at = "apply" /\ r.exists THEN {r.conf.ports[r.next].port} ELSE {})
    <3> DEFINE H == {c.ports[k].port : k \in Handled(j)}
               I == IF r.at = "apply" /\ r.exists THEN {r.conf.ports[r.next].port} ELSE {}
    <3>1. {r.conf.ports[k].port : k \in Handled(r)} = H
      BY <1>2, <1>4, Zenon
    <3>2. I = IF q \in j.left THEN {q} ELSE {}
      BY <1>2, Zenon
    <3> HIDE DEF H, I, q
    <3>3. r.left \cup I = j.left
      BY <3>2, <1>2
    <3>4. DOMAIN P = r.left \cup H \cup I
      BY <2>1, <3>3 DEF H
    <3>q. QED
      BY <3>1, <3>4, Zenon DEF I
  <2>3. \A k \in Handled(r) : r.conf.ports[k].port \notin r.left
    BY <1>0, <1>2, <1>4 DEF LeftOver
  <2>4. r.conf.ports[r.next].port \notin r.left
    BY <1>2
  <2>q. QED
    BY <2>2, <2>3, <2>4, Zenon DEF LeftOver
<1>7. Applied(r, P, d, L)
  BY <1>0, <1>2, <1>4 DEF Applied
<1>8. Request(r, d, L)
  <2>1. c.managed => L # {}
    BY DEF Resolved
  <2>2. (IF c.managed \/ c.certs # Unset THEN found ELSE Unset)
          = (IF c.managed THEN L ELSE c.certs)
    BY DEF Resolved
  <2>q. QED
    BY <2>1, <2>2, <1>2 DEF Request
<1>q. QED
  BY <1>3, <1>6, <1>7, <1>8 DEF Sound

\* Apply on the ports P: the port of j gets what the request asks for, the
\* others stay as they are.
Put(j, P, Q) ==
    LET p == j.conf.ports[j.next].port
    IN  /\ DOMAIN Q = DOMAIN P \cup {p}
        /\ \E old : Q[p] = Merge(old, j.req)
        /\ \A q \in DOMAIN P : q # p => Q[q] = P[q]

Onward(j) == [j EXCEPT !.next = @ + 1, !.req = Fresh]

\* Apply: the port that was added or updated counts among those gone through.
LEMMA ApplySound ==
    ASSUME NEW j, NEW P, NEW d, NEW L \in SUBSET CertName, Sound(j, P, d, L), j.at = "apply",
           NEW Q, Put(j, P, Q), NEW i, i = Onward(j), NEW r, r = Ports(i)
    PROVE  Sound(r, Q, d, L) /\ r.svc = j.svc
<1> DEFINE c == j.conf
           n == j.next
           p == c.ports[n].port
<1>0. IsJob(j) /\ Place(j) /\ LeftOver(j, P) /\ Applied(j, P, d, L) /\ Request(j, d, L)
  BY DEF Sound
<1>1. /\ c \in Config[j.svc] /\ j.svc \in Svc /\ n \in 1..Len(c.ports)
      /\ c.ports[n].proto = "TCP" /\ Len(c.ports) \in Nat /\ DOMAIN c.ports = 1..Len(c.ports)
      /\ c.ports[n] \in Port
  BY <1>0, PortsOfConfig DEF IsJob, Place
<1>2. /\ DOMAIN i = DOMAIN j /\ i.svc = j.svc /\ i.conf = c /\ i.next = n + 1
      /\ i.at = "apply" /\ i.left = j.left /\ i.exists = j.exists
  BY <1>0 DEF IsJob, Onward
<1>3. IsJob(i)
  <2>1. i.req = Fresh
    BY <1>0 DEF IsJob, Onward
  <2>q. QED
    BY <2>1, <1>0, <1>1, <1>2, FreshSet DEF IsJob, Option
<1>4. /\ IsJob(r) /\ Place(r) /\ r.at \in {"resolve", "left"}
      /\ Handled(r) = Before(c, n + 1) /\ r.conf = c /\ r.left = j.left /\ r.svc = j.svc
  BY <1>2, <1>3, PortsStep
<1>5. Handled(r) = Handled(j) \cup {n}
  BY <1>1, <1>4 DEF Handled, Before
<1>6. \A k \in Handled(j) : c.ports[k].port # p
  <2>1. \A k \in Handled(j) : k \in 1..Len(c.ports) /\ c.ports[k].proto = "TCP" /\ k < n
    BY DEF Handled, Before
  <2>q. QED
    BY <2>1, <1>1, PortsOfConfig
<1>7. PICK old :
        /\ DOMAIN Q = DOMAIN P \cup {p} /\ Q[p] = Merge(old, j.req)
        /\ \A q \in DOMAIN P : q # p => Q[q] = P[q]
  BY DEF Put
<1>8. LeftOver(r, Q)
  <2>1. /\ DOMAIN P \cup {p} = j.left \cup {c.ports[k].port : k \in Handled(j)} \cup {p}
        /\ \A k \in Handled(j) : c.ports[k].port \notin j.left
        /\ p \notin j.left
    BY <1>0 DEF LeftOver
  <2>2. {c.ports[k].port : k \in Handled(r)} = {c.ports[k].port : k \in Handled(j)} \cup {p}
    BY <1>5
  <2>3. DOMAIN Q = r.left \cup {r.conf.ports[k].port : k \in Handled(r)}
    BY <2>1, <2>2, <1>4, <1>7
  <2>4. \A k \in Handled(r) : r.conf.ports[k].port \notin r.left
    BY <2>1, <1>4, <1>5
  <2>q. QED
    BY <2>3, <2>4, <1>4 DEF LeftOver
<1>9. Applied(r, Q, d, L)
  <2>1. AsAsked(c, d, c.ports[n], Q[p], L)
    <3>1. /\ c.managed => L # {}
          /\ j.req = Extract(c, d, c.ports[n], IF c.managed THEN L ELSE c.certs)
      BY <1>0 DEF Request
    <3>2. AsAsked(c, d, c.ports[n],
                  Merge(old, Extract(c, d, c.ports[n], IF c.managed THEN L ELSE c.certs)), L)
      BY <3>1, <1>1, MergeAsAsked, Zenon
    <3>q. QED
      BY <3>1, <3>2, <1>7, Zenon
  <2>2. ASSUME NEW k \in Handled(j)
        PROVE  AsAsked(c, d, c.ports[k], Q[c.ports[k].port], L)
    <3>1. c.ports[k].port \in DOMAIN P
      BY <1>0 DEF LeftOver
    <3>2. AsAsked(c, d, c.ports[k], P[c.ports[k].port], L)
      BY <1>0 DEF Applied
    <3>q. QED
      BY <3>1, <3>2, <1>6, <1>7
  <2>q. QED
    BY <2>1, <2>2, <1>4, <1>5 DEF Applied
<1>10. Request(r, d, L)
  BY <1>4 DEF Request
<1>q. QED
  BY <1>4, <1>8, <1>9, <1>10 DEF Sound

\* DeleteService: a left-over port goes, and none that was gone through.
LEMMA DeleteSound ==
    ASSUME NEW j, NEW P, NEW d, NEW L, Sound(j, P, d, L), j.at = "left", NEW p \in j.left,
           NEW Q, Q = [q \in DOMAIN P \ {p} |-> P[q]],
           NEW r, r = [j EXCEPT !.left = @ \ {p}]
    PROVE  Sound(r, Q, d, L)
<1>0. IsJob(j) /\ Place(j) /\ LeftOver(j, P) /\ Applied(j, P, d, L)
  BY DEF Sound
<1>1. /\ DOMAIN r = DOMAIN j /\ r.svc = j.svc /\ r.conf = j.conf /\ r.next = j.next
      /\ r.at = "left" /\ r.exists = j.exists /\ r.left = j.left \ {p}
  BY <1>0 DEF IsJob
<1>2. IsJob(r) /\ Place(r) /\ Request(r, d, L)
  BY <1>0, <1>1 DEF IsJob, Place, Request
<1>3. Handled(r) = Handled(j)
  BY <1>1 DEF Handled
<1>4. /\ DOMAIN P = j.left \cup {j.conf.ports[k].port : k \in Handled(j)}
      /\ \A k \in Handled(j) : j.conf.ports[k].port \notin j.left
  BY <1>0 DEF LeftOver
<1>5. DOMAIN Q = DOMAIN P \ {p} /\ \A q \in DOMAIN Q : Q[q] = P[q]
  OBVIOUS
<1>6. DOMAIN Q = r.left \cup {r.conf.ports[k].port : k \in Handled(r)}
  BY <1>1, <1>3, <1>4, <1>5
<1>7. LeftOver(r, Q)
  BY <1>1, <1>3, <1>4, <1>6 DEF LeftOver
<1>8. Applied(r, Q, d, L)
  BY <1>0, <1>1, <1>3, <1>4, <1>5 DEF Applied
<1>q. QED
  BY <1>2, <1>7, <1>8 DEF Sound

-----------------------------------------------------------------------------
(* The invariant of the state *)

Shape == DOMAIN conf = Svc /\ DOMAIN job = Worker /\ DOMAIN ports = Svc

\* The work queue never gives a service to two workers.
OneWorker ==
    \A v, w \in Worker :
        v # w /\ job[v] # Idle /\ job[w] # Idle => job[v].svc # job[w].svc

\* The certificates that carry the UID of s in C.
With(s, C) == {n \in DOMAIN C : C[n] = s}

JobsSound ==
    \A w \in Worker : job[w] # Idle =>
        Sound(job[w], ports[job[w].svc], default, With(job[w].svc, certs))

SyncInv == TypeOK /\ Shape /\ OneWorker /\ JobsSound

\* What worker w does next, alone or with a service from the queue.
Turn(w) == Step(w) \/ \E s \in Svc : Begin(w, s)

\* The job that a step of w leaves to w.
OwnSound(w) ==
    job'[w] # Idle => Sound(job'[w], ports'[job'[w].svc], default', With(job'[w].svc, certs'))

\* A step of one worker leaves the job of another one, its Load Balancer and
\* its certificates alone.
LEMMA OtherJobs ==
    ASSUME SyncInv, NEW w \in Worker, Turn(w), NEW v \in Worker, v # w, job[v] # Idle
    PROVE  /\ job'[v] = job[v] /\ default' = default
           /\ ports'[job[v].svc] = ports[job[v].svc]
           /\ With(job[v].svc, certs') = With(job[v].svc, certs)
<1>0. DOMAIN job = Worker /\ DOMAIN ports = Svc /\ job[v].svc \in Svc
  BY DEF SyncInv, Shape, TypeOK
<1>1. default' = default
  BY DEF Turn, Step, Begin, NoDomains, CreateManagedCertificate, CallFails, Resolve, Apply, Done,
         DeleteService, envVars
<1>2. CASE \E s \in Svc : Begin(w, s)
  BY <1>0, <1>1, <1>2 DEF Begin
<1>3. CASE Step(w)
  <2>0. job[w] # Idle /\ job[w].svc # job[v].svc
    BY <1>3 DEF Step, SyncInv, OneWorker
  <2>1. CASE NoDomains(w)
    BY <2>1, <1>0, <1>1 DEF NoDomains, End
  <2>2. CASE CreateManagedCertificate(w)
    <3>1. job'[v] = job[v] /\ ports' = ports
      BY <2>2, <1>0 DEF CreateManagedCertificate, GoOn, Fail, End
    <3>2. \E name : certs' = [n \in DOMAIN certs \cup {name} |->
                        IF n \in DOMAIN certs THEN certs[n] ELSE job[w].svc]
      BY <2>2 DEF CreateManagedCertificate
    <3>3. With(job[v].svc, certs') = With(job[v].svc, certs)
      BY <3>2, <2>0 DEF With
    <3>q. QED
      BY <3>1, <3>3, <1>1
  <2>3. CASE CallFails(w)
    BY <2>3, <1>0, <1>1 DEF CallFails, Fail, End
  <2>4. CASE Resolve(w)
    BY <2>4, <1>0, <1>1 DEF Resolve, GoOn, End
  <2>5. CASE Apply(w)
    BY <2>5, <2>0, <1>0, <1>1 DEF Apply, GoOn, Fail, End
  <2>6. CASE Done(w)
    BY <2>6, <1>0, <1>1 DEF Done, End
  <2>7. CASE \E p \in job[w].left : DeleteService(w, p)
    BY <2>7, <2>0, <1>0, <1>1 DEF DeleteService, GoOn, Fail, End
  <2>q. QED
    BY <2>1, <2>2, <2>3, <2>4, <2>5, <2>6, <2>7, <1>3 DEF Step
<1>q. QED
  BY <1>2, <1>3 DEF Turn

\* A step of a worker leaves it a sound job, if any.
LEMMA OwnJob ==
    ASSUME SyncInv, NEW w \in Worker, Turn(w)
    PROVE  OwnSound(w)
<1> DEFINE j == job[w]
           s == j.svc
           P == ports[s]
<1>0. DOMAIN job = Worker /\ DOMAIN ports = Svc
  BY DEF SyncInv, Shape
<1>1. CASE \E t \in Svc : Begin(w, t)
  <2>1. PICK t \in Svc : Begin(w, t)
    BY <1>1
  <2>2. conf[t] \in Config[t] /\ ports' = ports /\ default' = default
    BY <2>1 DEF Begin, SyncInv, TypeOK, envVars
  <2> DEFINE i == [svc |-> t, conf |-> conf[t], at |-> "certificate", next |-> 1,
                   left |-> DOMAIN ports[t], exists |-> FALSE, req |-> Fresh]
  <2>3. Sound(i, ports[t], default, With(t, certs')) /\ i.at = "certificate"
    BY <2>2, BeginSound
  <2>4. Sound(Ports(i), ports[t], default, With(t, certs')) /\ Ports(i).svc = t
    <3>1. i.svc = t /\ IsJob(i)
      BY <2>3 DEF Sound
    <3> HIDE DEF i
    <3>2. Sound(Ports(i), ports[t], default, With(t, certs'))
      BY <2>3, FirstPortSound
    <3>q. QED
      BY <3>1, <3>2, PortsStep
  <2>5. job'[w] = i \/ job'[w] = Ports(i)
    BY <2>1, <1>0 DEF Begin
  <2>6. i.svc = t
    OBVIOUS
  <2> HIDE DEF i
  <2>q. QED
    BY <2>2, <2>3, <2>4, <2>5, <2>6 DEF OwnSound
<1>2. CASE Step(w)
  <2>0. /\ j # Idle /\ s \in Svc /\ Sound(j, P, default, With(s, certs)) /\ IsJob(j)
        /\ With(s, certs) \in SUBSET CertName
    BY <1>2 DEF Step, SyncInv, TypeOK, JobsSound, Sound, With
  <2>1. ASSUME job'[w] = Idle PROVE OwnSound(w)
    BY <2>1 DEF OwnSound
  <2>2. CASE NoDomains(w)
    BY <2>2, <2>1, <1>0 DEF NoDomains, End
  <2>3. CASE CreateManagedCertificate(w)
    <3>1. CASE GoOn(w, Ports(j))
      <4>1. job'[w] = Ports(j) /\ ports' = ports /\ default' = default /\ j.at = "certificate"
        BY <3>1, <2>3, <1>0 DEF GoOn, CreateManagedCertificate, envVars
      <4>2. Sound(Ports(j), P, default, With(job'[w].svc, certs'))
        BY <4>1, <2>0, FirstPortSound
      <4>3. Ports(j).svc = s
        BY <2>0, PortsStep
      <4>q. QED
        BY <4>1, <4>2, <4>3 DEF OwnSound
    <3>2. CASE Fail(w)
      BY <3>2, <2>1, <1>0 DEF Fail, End
    <3>q. QED
      BY <3>1, <3>2, <2>3 DEF CreateManagedCertificate
  <2>4. CASE CallFails(w)
    BY <2>4, <2>1, <1>0 DEF CallFails, Fail, End
  <2>5. CASE Resolve(w)
    <3> DEFINE found == CertificatesOf(s, j.conf)
               q == j.conf.ports[j.next]
               r == [j EXCEPT !.at = "apply", !.exists = q.port \in j.left,
                        !.left = j.left \ {q.port},
                        !.req = Extract(j.conf, default, q,
                                    IF j.conf.managed \/ j.conf.certs # Unset THEN found ELSE Unset)]
    <3>1. CASE Unparseable(j.conf) \/ ~Resolved(j.conf, found)
      BY <3>1, <2>5, <2>1, <1>0 DEF Resolve, End
    <3>2. CASE ~(Unparseable(j.conf) \/ ~Resolved(j.conf, found))
      <4>1. /\ job'[w] = r /\ j.at = "resolve" /\ ports' = ports /\ certs' = certs
            /\ default' = default
        BY <3>2, <2>5, <1>0 DEF Resolve, GoOn, envVars
      <4>2. j.conf.managed => found = With(s, certs)
        BY DEF CertificatesOf, Labelled, With
      <4>3. Sound(r, P, default, With(s, certs))
        BY <4>1, <4>2, <3>2, <2>0, ResolveSound
      <4>4. r.svc = s
        BY <2>0 DEF IsJob
      <4> HIDE DEF r
      <4>q. QED
        BY <4>1, <4>3, <4>4 DEF OwnSound
    <3>q. QED
      BY <3>1, <3>2
  <2>6. CASE Apply(w)
    <3> DEFINE i == [j EXCEPT !.next = @ + 1, !.req = Fresh]
               p == j.conf.ports[j.next].port
               old == IF j.exists THEN P[p] ELSE Fresh
               Q == [q \in DOMAIN P \cup {p} |-> IF q = p THEN Merge(old, j.req) ELSE P[q]]
    <3>1. j.at = "apply" /\ ports'[s] = Q /\ certs' = certs /\ default' = default
      BY <2>6, <2>0, <1>0 DEF Apply, envVars
    <3>2. CASE GoOn(w, Ports(i))
      <4>1. job'[w] = Ports(i)
        BY <3>2, <1>0 DEF GoOn
      <4>2. Sound(Ports(i), Q, default, With(s, certs)) /\ Ports(i).svc = s
        <5>1. Put(j, P, Q) /\ i = Onward(j)
          BY DEF Put, Onward
        <5>2. j.at = "apply"
          BY <3>1
        <5> HIDE DEF i, Q
        <5>q. QED
          BY <5>1, <5>2, <2>0, ApplySound
      <4> HIDE DEF i, Q
      <4>q. QED
        BY <4>1, <4>2, <3>1 DEF OwnSound
    <3>3. CASE Fail(w)
      BY <3>3, <2>1, <1>0 DEF Fail, End
    <3>q. QED
      BY <3>2, <3>3, <2>6 DEF Apply
  <2>7. CASE Done(w)
    BY <2>7, <2>1, <1>0 DEF Done, End
  <2>8. CASE \E p \in job[w].left : DeleteService(w, p)
    <3>1. PICK p \in j.left : DeleteService(w, p)
      BY <2>8
    <3> DEFINE Q == [q \in DOMAIN P \ {p} |-> P[q]]
               r == [j EXCEPT !.left = @ \ {p}]
    <3>2. j.at = "left" /\ ports'[s] = Q /\ certs' = certs /\ default' = default
      BY <3>1, <2>0, <1>0 DEF DeleteService, envVars
    <3>3. CASE GoOn(w, r)
      <4>1. job'[w] = r
        BY <3>3, <1>0 DEF GoOn
      <4>2. Sound(r, Q, default, With(s, certs))
        BY <3>2, <2>0, DeleteSound
      <4>3. r.svc = s
        BY <2>0 DEF IsJob
      <4> HIDE DEF r, Q
      <4>q. QED
        BY <4>1, <4>2, <4>3, <3>2 DEF OwnSound
    <3>4. CASE Fail(w)
      BY <3>4, <2>1, <1>0 DEF Fail, End
    <3>q. QED
      BY <3>1, <3>3, <3>4 DEF DeleteService
  <2>q. QED
    BY <2>2, <2>3, <2>4, <2>5, <2>6, <2>7, <2>8, <1>2 DEF Step
<1>q. QED
  BY <1>1, <1>2 DEF Turn

\* The jobs stay sound.
LEMMA JobsStaySound ==
    ASSUME SyncInv, [Next]_vars
    PROVE  JobsSound'
<1> SUFFICES ASSUME NEW v \in Worker, job'[v] # Idle
             PROVE  Sound(job'[v], ports'[job'[v].svc], default', With(job'[v].svc, certs'))
  BY DEF JobsSound
<1>0. DOMAIN job = Worker
  BY DEF SyncInv, Shape
<1>1. CASE UNCHANGED vars
  BY <1>1 DEF vars, SyncInv, JobsSound
<1>2. CASE \E s \in Svc : \E c \in Config[s] : Edit(s, c)
  BY <1>2 DEF Edit, SyncInv, JobsSound
<1>3. CASE \E d \in Defaults : Restart(d)
  BY <1>3 DEF Restart
<1>4. CASE \E w \in Worker : Turn(w)
  <2>1. PICK w \in Worker : Turn(w)
    BY <1>4
  <2>2. CASE v = w
    BY <2>1, <2>2, OwnJob DEF OwnSound
  <2>3. CASE v # w
    <3>1. job'[v] = job[v]
      BY <2>1, <2>3, <1>0 DEF Turn, Step, Begin, NoDomains, CreateManagedCertificate, CallFails,
            Resolve, Apply, Done, DeleteService, GoOn, Fail, End
    <3>q. QED
      BY <3>1, <2>1, <2>3, OtherJobs DEF SyncInv, JobsSound
  <2>q. QED
    BY <2>2, <2>3
<1>q. QED
  BY <1>1, <1>2, <1>3, <1>4 DEF Next, Turn

\* The steps of a reconcile keep its service, or end it.
LEMMA ServiceStays ==
    ASSUME SyncInv, NEW w \in Worker, Step(w)
    PROVE  job'[w] = Idle \/ job'[w].svc = job[w].svc
<1>0. DOMAIN job = Worker /\ IsJob(job[w])
  BY DEF SyncInv, Shape, JobsSound, Sound, Step
<1>1. CASE NoDomains(w) \/ CallFails(w) \/ Done(w) \/ Fail(w)
  BY <1>0, <1>1 DEF NoDomains, CallFails, Done, Fail, End
<1>2. CASE CreateManagedCertificate(w) /\ ~Fail(w)
  <2>1. job'[w] = Ports(job[w])
    BY <1>0, <1>2 DEF CreateManagedCertificate, GoOn
  <2>q. QED
    BY <2>1, <1>0, PortsStep
<1>3. CASE Resolve(w)
  <2> DEFINE j == job[w]
             found == CertificatesOf(j.svc, j.conf)
             q == j.conf.ports[j.next]
             r == [j EXCEPT !.at = "apply", !.exists = q.port \in j.left,
                      !.left = j.left \ {q.port},
                      !.req = Extract(j.conf, default, q,
                                  IF j.conf.managed \/ j.conf.certs # Unset THEN found ELSE Unset)]
  <2>1. CASE Unparseable(j.conf) \/ ~Resolved(j.conf, found)
    BY <2>1, <1>3, <1>0 DEF Resolve, End
  <2>2. CASE ~(Unparseable(j.conf) \/ ~Resolved(j.conf, found))
    <3>1. job'[w] = r
      BY <2>2, <1>3, <1>0 DEF Resolve, GoOn
    <3>2. r.svc = j.svc
      BY <1>0 DEF IsJob
    <3>q. QED
      BY <3>1, <3>2, Zenon
  <2>q. QED
    BY <2>1, <2>2
<1>4. CASE Apply(w) /\ ~Fail(w)
  <2>1. job'[w] = Ports(Onward(job[w]))
    BY <1>0, <1>4 DEF Apply, GoOn, Onward
  <2>2. /\ Onward(job[w]).conf = job[w].conf /\ Onward(job[w]).svc = job[w].svc
        /\ "svc" \in DOMAIN Onward(job[w])
    BY <1>0 DEF IsJob, Onward
  <2>3. Ports(Onward(job[w])).svc = Onward(job[w]).svc
    <3> DEFINE i == Onward(job[w])
    <3>1. "svc" \in DOMAIN i
      BY <2>2
    <3> HIDE DEF i
    <3>2. Ports(i).svc = i.svc
      BY <3>1 DEF Ports
    <3>q. QED
      BY <3>2 DEF i
  <2>q. QED
    BY <2>1, <2>2, <2>3
<1>5. CASE \E p \in job[w].left : DeleteService(w, p) /\ ~Fail(w)
  BY <1>0, <1>5 DEF DeleteService, GoOn, IsJob
<1>q. QED
  BY <1>1, <1>2, <1>3, <1>4, <1>5 DEF Step

\* No two workers come to have the same service.
LEMMA WorkersStayApart ==
    ASSUME SyncInv, [Next]_vars
    PROVE  OneWorker'
<1> SUFFICES ASSUME NEW u \in Worker, NEW v \in Worker, u # v, job'[u] # Idle, job'[v] # Idle
             PROVE  job'[u].svc # job'[v].svc
  BY DEF OneWorker
<1>0. DOMAIN job = Worker
  BY DEF SyncInv, Shape
<1>1. CASE UNCHANGED vars
  BY <1>1 DEF vars, SyncInv, OneWorker
<1>2. CASE \E s \in Svc : \E c \in Config[s] : Edit(s, c)
  BY <1>2 DEF Edit, SyncInv, OneWorker
<1>3. CASE \E d \in Defaults : Restart(d)
  BY <1>3 DEF Restart
<1>4. ASSUME NEW w \in Worker, Turn(w) PROVE job'[u].svc # job'[v].svc
  <2>1. \A x \in Worker : x # w => job'[x] = job[x]
    BY <1>4, <1>0 DEF Turn, Step, Begin, NoDomains, CreateManagedCertificate, CallFails,
          Resolve, Apply, Done, DeleteService, GoOn, Fail, End
  <2>2. CASE Step(w)
    <3>1. job[w] # Idle /\ (job'[w] = Idle \/ job'[w].svc = job[w].svc)
      BY <2>2, ServiceStays DEF Step
    <3>q. QED
      BY <3>1, <2>1 DEF SyncInv, OneWorker
  <2>3. CASE \E s \in Svc : Begin(w, s)
    <3>1. PICK s \in Svc : Begin(w, s)
      BY <2>3
    <3>2. \A x \in Worker : job[x] # Idle => job[x].svc # s
      BY <3>1 DEF Begin
    <3>3. job'[w].svc = s
      <4> DEFINE i == [svc |-> s, conf |-> conf[s], at |-> "certificate", next |-> 1,
                       left |-> DOMAIN ports[s], exists |-> FALSE, req |-> Fresh]
      <4>1. job'[w] = i \/ job'[w] = Ports(i)
        BY <3>1, <1>0 DEF Begin
      <4>2. i.svc = s /\ "svc" \in DOMAIN i
        OBVIOUS
      <4> HIDE DEF i
      <4>3. Ports(i).svc = s
        BY <4>2 DEF Ports
      <4>q. QED
        BY <4>1, <4>2, <4>3
    <3>4. \A x \in Worker : x # w /\ job'[x] # Idle => job'[x].svc # s
      BY <3>2, <2>1
    <3>5. CASE u = w \/ v = w
      BY <3>3, <3>4, <3>5
    <3>6. CASE u # w /\ v # w
      BY <3>6, <2>1 DEF SyncInv, OneWorker
    <3>q. QED
      BY <3>5, <3>6
  <2>q. QED
    BY <2>2, <2>3, <1>4 DEF Turn
<1>q. QED
  BY <1>1, <1>2, <1>3, <1>4 DEF Next, Turn

-----------------------------------------------------------------------------
(* What a step may change at the API *)

\* The options of a port are what they were, or a request merged into them.
LEMMA PortChanges ==
    ASSUME SyncInv, [Next]_vars, NEW s \in Svc, NEW p \in DOMAIN ports'[s]
    PROVE  \/ p \in DOMAIN ports[s] /\ ports'[s][p] = ports[s][p]
           \/ \E w \in Worker :
                /\ job[w] # Idle /\ job[w].svc = s /\ job[w].at = "apply"
                /\ \E old : /\ old = Fresh \/ (p \in DOMAIN ports[s] /\ old = ports[s][p])
                            /\ ports'[s][p] = Merge(old, job[w].req)
<1>0. DOMAIN job = Worker /\ DOMAIN ports = Svc
  BY DEF SyncInv, Shape
<1>1. CASE UNCHANGED ports
  BY <1>1
<1>2. CASE \E w \in Worker : job[w] # Idle /\ Apply(w)
  <2>1. PICK w \in Worker : job[w] # Idle /\ Apply(w)
    BY <1>2
  <2> DEFINE j == job[w]
             q == j.conf.ports[j.next].port
             old == IF j.exists THEN ports[j.svc][q] ELSE Fresh
  <2>2. /\ j.at = "apply" /\ j.svc \in Svc
        /\ ports' = [ports EXCEPT ![j.svc] = [x \in DOMAIN ports[j.svc] \cup {q} |->
                        IF x = q THEN Merge(old, j.req) ELSE ports[j.svc][x]]]
    BY <2>1 DEF Apply, SyncInv, TypeOK
  <2>3. CASE s = j.svc /\ p = q
    <3>1. j.exists => q \in DOMAIN ports[s]
      BY <2>1, <2>2, <2>3 DEF SyncInv, JobsSound, Sound, LeftOver
    <3>2. ports'[s][p] = Merge(old, j.req)
      BY <2>2, <2>3, <1>0
    <3>3. old = Fresh \/ (p \in DOMAIN ports[s] /\ old = ports[s][p])
      BY <3>1, <2>3
    <3> HIDE DEF old
    <3>q. QED
      BY <3>2, <3>3, <2>1, <2>2, <2>3
  <2>4. CASE ~(s = j.svc /\ p = q)
    BY <2>2, <2>4, <1>0
  <2>q. QED
    BY <2>3, <2>4
<1>3. CASE \E w \in Worker : \E q \in job[w].left : job[w] # Idle /\ DeleteService(w, q)
  BY <1>0, <1>3 DEF DeleteService, SyncInv, TypeOK
<1>4. UNCHANGED ports \/ \E w \in Worker : job[w] # Idle /\
        (Apply(w) \/ \E q \in job[w].left : DeleteService(w, q))
  BY DEF Next, vars, Edit, Restart, Step, Begin, NoDomains, CreateManagedCertificate,
         CallFails, Resolve, Done
<1>q. QED
  BY <1>1, <1>2, <1>3, <1>4

\* Certificates are never removed and never change their label.
LEMMA CertificatesStay ==
    ASSUME SyncInv, [Next]_vars
    PROVE  /\ \A n \in DOMAIN certs : n \in DOMAIN certs' /\ certs'[n] = certs[n]
           /\ \A n \in DOMAIN certs' : n \in CertName /\ certs'[n] \in Svc \cup {Unset}
<1>0. \A n \in DOMAIN certs : n \in CertName /\ certs[n] \in Svc \cup {Unset}
  BY DEF SyncInv, TypeOK
<1>1. CASE UNCHANGED certs
  BY <1>0, <1>1
<1>2. CASE \E w \in Worker : job[w] # Idle /\ CreateManagedCertificate(w)
  <2>1. PICK w \in Worker : job[w] # Idle /\ CreateManagedCertificate(w)
    BY <1>2
  <2>2. job[w].svc \in Svc /\ job[w].conf \in Config[job[w].svc]
    BY <2>1 DEF SyncInv, TypeOK
  <2>3. ManagedName(job[w].svc, job[w].conf) \in CertName
    BY <2>2, LBServicesAssumption DEF ManagedName, Pick
  <2>4. certs' = [n \in DOMAIN certs \cup {ManagedName(job[w].svc, job[w].conf)} |->
                    IF n \in DOMAIN certs THEN certs[n] ELSE job[w].svc]
    BY <2>1 DEF CreateManagedCertificate
  <2>q. QED
    BY <2>2, <2>3, <2>4, <1>0
<1>3. UNCHANGED certs \/ \E w \in Worker : job[w] # Idle /\ CreateManagedCertificate(w)
  BY DEF Next, vars, Edit, Restart, Step, Begin, NoDomains, CallFails, Resolve, Apply, Done,
         DeleteService
<1>q. QED
  BY <1>1, <1>2, <1>3

-----------------------------------------------------------------------------
(* The theorems *)

LEMMA SyncInit == Init => SyncInv
<1> SUFFICES ASSUME Init PROVE SyncInv
  OBVIOUS
<1>1. Shape /\ OneWorker /\ JobsSound
  BY DEF Init, Shape, OneWorker, JobsSound
<1>2. TypeOK
  <2>1. \A s \in Svc : DOMAIN ports[s] = {}
    BY DEF Init
  <2>2. \A n \in DOMAIN certs : n \in CertName /\ certs[n] \in Svc \cup {Unset}
    BY LBServicesAssumption DEF Init
  <2>3. \A w \in Worker : job[w] = Idle
    BY DEF Init
  <2>4. changes \in 0..MaxChanges /\ restarts \in 0..MaxRestarts /\ fails \in 0..MaxFails
    BY LBServicesAssumption DEF Init
  <2>q. QED
    BY <2>1, <2>2, <2>3, <2>4 DEF Init, TypeOK
<1>q. QED
  BY <1>1, <1>2 DEF SyncInv

LEMMA SyncNext == SyncInv /\ [Next]_vars => SyncInv'
<1> SUFFICES ASSUME SyncInv, [Next]_vars PROVE SyncInv'
  OBVIOUS
<1>1. JobsSound' /\ OneWorker'
  BY JobsStaySound, WorkersStayApart
<1>2. Shape'
  BY DEF SyncInv, Shape, Next, vars, Edit, Restart, Step, Begin, NoDomains,
         CreateManagedCertificate, CallFails, Resolve, Apply, Done, DeleteService, GoOn, Fail, End,
         envVars
<1>3. TypeOK'
  <2>1. (\A s \in Svc : conf[s] \in Config[s])'
    <3>1. DOMAIN conf = Svc /\ \A s \in Svc : conf[s] \in Config[s]
      BY DEF SyncInv, Shape, TypeOK
    <3>2. CASE \E s \in Svc : \E c \in Config[s] : Edit(s, c)
      BY <3>1, <3>2 DEF Edit
    <3>3. CASE UNCHANGED conf
      BY <3>1, <3>3
    <3>q. QED
      BY <3>2, <3>3 DEF Next, vars, Restart, Step, Begin, NoDomains, CreateManagedCertificate,
            CallFails, Resolve, Apply, Done, DeleteService, envVars
  <2>2. (default \in Defaults)'
    BY DEF SyncInv, TypeOK, Next, vars, Edit, Restart, Step, Begin, NoDomains,
           CreateManagedCertificate, CallFails, Resolve, Apply, Done, DeleteService, envVars
  <2>3. (pending \subseteq Svc)'
    <3>1. pending \subseteq Svc /\ \A w \in Worker : job[w] # Idle => job[w].svc \in Svc
      BY DEF SyncInv, TypeOK
    <3>q. QED
      BY <3>1 DEF Next, vars, Edit, Restart, Step, Begin, NoDomains, CreateManagedCertificate,
            CallFails, Resolve, Apply, Done, DeleteService, GoOn, Fail, End
  <2>4. (\A w \in Worker : job[w] # Idle =>
            /\ DOMAIN job[w] = {"svc", "conf", "at", "next", "left", "exists", "req"}
            /\ job[w].svc \in Svc /\ job[w].conf \in Config[job[w].svc]
            /\ job[w].next \in 1..Len(job[w].conf.ports) + 1
            /\ job[w].at \in {"certificate", "resolve", "apply", "left"}
            /\ \A o \in {"dest", "protocol", "hcproto", "hcport"} : job[w].req[o] # Unset)'
    BY <1>1 DEF JobsSound, Sound, IsJob
  <2>5. (\A n \in DOMAIN certs : n \in CertName /\ certs[n] \in Svc \cup {Unset})'
    BY CertificatesStay
  <2>6. (\A s \in Svc : \A p \in DOMAIN ports[s] :
            DOMAIN ports[s][p] = Option /\ \A o \in Option : ports[s][p][o] # Unset)'
    <3> SUFFICES ASSUME NEW s \in Svc, NEW p \in DOMAIN ports'[s]
                 PROVE  DOMAIN ports'[s][p] = Option /\ \A o \in Option : ports'[s][p][o] # Unset
      OBVIOUS
    <3>1. \A q \in DOMAIN ports[s] :
            DOMAIN ports[s][q] = Option /\ \A o \in Option : ports[s][q][o] # Unset
      BY DEF SyncInv, TypeOK
    <3>2. ASSUME NEW old, NEW req, old = Fresh \/ (p \in DOMAIN ports[s] /\ old = ports[s][p])
          PROVE  DOMAIN Merge(old, req) = Option /\ \A o \in Option : Merge(old, req)[o] # Unset
      BY <3>1, <3>2, FreshSet DEF Merge, Pick
    <3>q. QED
      BY <3>1, <3>2, PortChanges
  <2>7. (changes \in 0..MaxChanges /\ restarts \in 0..MaxRestarts /\ fails \in 0..MaxFails)'
    <3>1. /\ changes \in 0..MaxChanges /\ restarts \in 0..MaxRestarts /\ fails \in 0..MaxFails
          /\ MaxChanges \in Nat /\ MaxRestarts \in Nat /\ MaxFails \in Nat
      BY LBServicesAssumption DEF SyncInv, TypeOK
    <3>2. /\ changes' = changes \/ (changes < MaxChanges /\ changes' = changes + 1)
          /\ restarts' = restarts \/ (restarts < MaxRestarts /\ restarts' = restarts + 1)
          /\ fails' = fails \/ (fails < MaxFails /\ fails' = fails + 1)
      BY DEF Next, vars, Edit, Restart, Step, Begin, NoDomains, CreateManagedCertificate,
             CallFails, Resolve, Apply, Done, DeleteService, Fail, envVars
    <3>q. QED
      BY <3>1, <3>2
  <2>q. QED
    BY <2>1, <2>2, <2>3, <2>4, <2>5, <2>6, <2>7, Zenon DEF TypeOK
<1>q. QED
  BY <1>1, <1>2, <1>3 DEF SyncInv

\* The types of the state, among them that no request leaves destination,
\* protocol or health check port to the API.
THEOREM TypeCorrect == Spec => []TypeOK
<1>1. SyncInv => TypeOK
  BY DEF SyncInv
<1>q. QED
  BY <1>1, SyncInit, SyncNext, PTL DEF Spec

\* Done: a reconcile that succeeds leaves exactly the TCP ports it was given,
\* as its settings and the defaults ask for.
LEMMA SyncedNext == SyncInv /\ ServicesSynced /\ [Next]_vars => ServicesSynced'
<1> SUFFICES ASSUME SyncInv, ServicesSynced, [Next]_vars, res'.kind = "ok"
             PROVE  Matches(res.svc, res.conf)'
  BY DEF ServicesSynced
<1>1. CASE UNCHANGED vars
  BY <1>1 DEF vars, ServicesSynced, Matches, Labelled
<1>2. CASE \E w \in Worker : job[w] # Idle /\ Done(w)
  <2>1. PICK w \in Worker : job[w] # Idle /\ Done(w)
    BY <1>2
  <2> DEFINE j == job[w]
             c == j.conf
             P == ports[j.svc]
             L == With(j.svc, certs)
  <2>2. /\ j.at = "left" /\ j.left = {} /\ res'.svc = j.svc /\ res'.conf = c
        /\ ports' = ports /\ certs' = certs /\ default' = default
    BY <2>1 DEF Done, End, envVars
  <2>3. IsJob(j) /\ LeftOver(j, P) /\ Applied(j, P, default, L)
    BY <2>1 DEF SyncInv, JobsSound, Sound
  <2>4. Len(c.ports) \in Nat /\ DOMAIN c.ports = 1..Len(c.ports)
    BY <2>3, PortsOfConfig DEF IsJob
  <2>5. Handled(j) = {k \in 1..Len(c.ports) : c.ports[k].proto = "TCP"}
    BY <2>2, <2>4 DEF Handled, Before
  <2>6. DOMAIN P = {c.ports[k].port : k \in Handled(j)}
    BY <2>2, <2>3 DEF LeftOver
  <2>7. DOMAIN P = {p.port : p \in {q \in Range(c.ports) : q.proto = "TCP"}}
    BY <2>4, <2>5, <2>6 DEF Range
  <2>8. ASSUME NEW p \in Range(c.ports), p.proto = "TCP"
        PROVE  AsAsked(c, default, p, P[p.port], L)
    <3>1. PICK k \in 1..Len(c.ports) : p = c.ports[k]
      BY <2>4 DEF Range
    <3>2. k \in Handled(j)
      BY <3>1, <2>5, <2>8
    <3>q. QED
      BY <3>1, <3>2, <2>3 DEF Applied
  <2>9. Labelled(res.svc)' = L
    BY <2>2 DEF Labelled, With
  <2> HIDE DEF L
  <2>q. QED
    BY <2>2, <2>7, <2>8, <2>9 DEF Matches
<1>3. ASSUME NEW w \in Worker, Step(w) PROVE Done(w)
  <2>1. ~(res' = NoResult)
    BY DEF NoResult
  <2>2. ~End(w, FALSE)
    BY DEF End
  <2>q. QED
    BY <2>1, <2>2, <1>3 DEF Step, NoDomains, CreateManagedCertificate, CallFails, Resolve, Apply,
          DeleteService, GoOn, Fail
<1>4. res' # NoResult
  BY DEF NoResult
<1>5. UNCHANGED vars \/ \E w \in Worker : Step(w)
  BY <1>4 DEF Next, Edit, Restart, Begin
<1>6. UNCHANGED vars \/ \E w \in Worker : job[w] # Idle /\ Done(w)
  BY <1>3, <1>5 DEF Step
<1>q. QED
  BY <1>1, <1>2, <1>6

\* ReconcileHCLBServices: what success means, whatever happened to the service
\* before and however its calls interleave with those of other workers.
THEOREM SyncedCorrect == Spec => []ServicesSynced
<1>1. Init => ServicesSynced
  BY DEF Init, ServicesSynced, NoResult
<1>q. QED
  BY <1>1, SyncInit, SyncNext, SyncedNext, PTL DEF Spec

\* ReconcileHCLBServices: a port that stays in the service stays in the Load
\* Balancer.
THEOREM PortStaysCorrect == Spec => PortStays
<1> DEFINE Stays(w) ==
        job[w] # Idle =>
            \A p \in Range(job[w].conf.ports) :
                p.proto = "TCP" /\ p.port \in DOMAIN ports[job[w].svc]
                    => p.port \in DOMAIN ports'[job[w].svc]
<1>1. ASSUME SyncInv, [Next]_vars, NEW w \in Worker PROVE Stays(w)
  <2> SUFFICES ASSUME job[w] # Idle, NEW p \in Range(job[w].conf.ports), p.proto = "TCP",
                      p.port \in DOMAIN ports[job[w].svc]
               PROVE  p.port \in DOMAIN ports'[job[w].svc]
    OBVIOUS
  <2>0. DOMAIN ports = Svc /\ DOMAIN job = Worker /\ job[w].svc \in Svc
    BY <1>1 DEF SyncInv, Shape, TypeOK
  <2>1. CASE UNCHANGED ports
    BY <2>1
  <2>2. CASE \E v \in Worker : job[v] # Idle /\ Apply(v)
    BY <2>2, <2>0 DEF Apply
  <2>3. CASE \E v \in Worker : job[v] # Idle /\ \E q \in job[v].left : DeleteService(v, q)
    <3>0. PICK v \in Worker : job[v] # Idle /\ \E q \in job[v].left : DeleteService(v, q)
      BY <2>3
    <3>1. PICK q \in job[v].left : job[v] # Idle /\ DeleteService(v, q)
      BY <3>0
    <3>2. /\ job[v].at = "left"
          /\ ports' = [ports EXCEPT ![job[v].svc] =
                [x \in DOMAIN ports[job[v].svc] \ {q} |-> ports[job[v].svc][x]]]
      BY <3>1 DEF DeleteService
    <3>3. CASE v # w
      <4>1. job[v].svc # job[w].svc
        BY <3>1, <3>3, <1>1 DEF SyncInv, OneWorker
      <4>q. QED
        BY <4>1, <3>2, <2>0
    <3>4. CASE v = w
      <4>1. IsJob(job[w]) /\ LeftOver(job[w], ports[job[w].svc])
        BY <1>1 DEF SyncInv, JobsSound, Sound
      <4>2. /\ Len(job[w].conf.ports) \in Nat
            /\ DOMAIN job[w].conf.ports = 1..Len(job[w].conf.ports)
        BY <4>1, PortsOfConfig DEF IsJob
      <4>3. PICK k \in 1..Len(job[w].conf.ports) : p = job[w].conf.ports[k]
        BY <4>2 DEF Range
      <4>4. k \in Handled(job[w])
        BY <4>2, <4>3, <3>2, <3>4 DEF Handled, Before
      <4>5. p.port # q
        BY <4>1, <4>3, <4>4, <3>1, <3>4 DEF LeftOver
      <4>q. QED
        BY <4>5, <3>2, <3>4, <2>0
    <3>q. QED
      BY <3>3, <3>4
  <2>4. UNCHANGED ports \/ \E v \in Worker : job[v] # Idle /\
          (Apply(v) \/ \E q \in job[v].left : DeleteService(v, q))
    BY <1>1 DEF Next, vars, Edit, Restart, Step, Begin, NoDomains, CreateManagedCertificate,
           CallFails, Resolve, Done
  <2>q. QED
    BY <2>1, <2>2, <2>3, <2>4
<1>2. SyncInv /\ [Next]_vars => [\A w \in Worker : Stays(w)]_vars
  BY <1>1
<1>q. QED
  BY <1>2, SyncInit, SyncNext, PTL DEF Spec, PortStays

\* A certificate that s may serve, given the labels C.
MayServe(s, n, C) ==
    \/ n \in DOMAIN C /\ C[n] \in {s, Unset}
    \/ \E c \in Config[s] : ~c.managed /\ n \in Pick(c.certs, {})

\* OwnCertificate is not inductive by itself: it says nothing of a certificate
\* that does not exist yet, nor of a request that is about to be made.
CertInv ==
    /\ SyncInv
    /\ \A s \in Svc : \A p \in DOMAIN ports[s] : \A n \in ports[s][p].certs : MayServe(s, n, certs)

LEMMA CertNext == CertInv /\ [Next]_vars => CertInv'
<1> SUFFICES ASSUME CertInv, [Next]_vars, NEW s \in Svc, NEW p \in DOMAIN ports'[s],
                    NEW n \in ports'[s][p].certs
             PROVE  MayServe(s, n, certs')
  BY SyncNext DEF CertInv
<1>0. SyncInv
  BY DEF CertInv
<1>1. \A m : MayServe(s, m, certs) => MayServe(s, m, certs')
  BY <1>0, CertificatesStay DEF MayServe
<1>2. CASE p \in DOMAIN ports[s] /\ ports'[s][p] = ports[s][p]
  BY <1>1, <1>2 DEF CertInv
<1>3. ASSUME NEW w \in Worker, job[w] # Idle, job[w].svc = s, job[w].at = "apply", NEW old,
             old = Fresh \/ (p \in DOMAIN ports[s] /\ old = ports[s][p]),
             ports'[s][p] = Merge(old, job[w].req)
      PROVE  MayServe(s, n, certs')
  <2> DEFINE c == job[w].conf
             L == With(s, certs)
  <2>1. IsJob(job[w]) /\ Request(job[w], default, L)
    BY <1>0, <1>3 DEF SyncInv, JobsSound, Sound
  <2>2. c \in Config[s]
    BY <2>1, <1>3 DEF IsJob
  <2>3. job[w].req.certs = IF c.managed THEN L ELSE c.certs
    BY <2>1, <1>3 DEF Request, Extract, Option
  <2>4. ports'[s][p].certs = Pick(job[w].req.certs, old.certs)
    BY <1>3 DEF Merge, Option
  <2>5. CASE job[w].req.certs = Unset
    <3>1. n \in old.certs
      BY <2>4, <2>5 DEF Pick
    <3>2. Fresh.certs = {}
      BY DEF Fresh, Option
    <3>3. p \in DOMAIN ports[s] /\ old = ports[s][p]
      BY <3>1, <3>2, <1>3
    <3>q. QED
      BY <3>1, <3>3, <1>1 DEF CertInv
  <2>6. CASE job[w].req.certs # Unset
    <3>1. n \in job[w].req.certs
      BY <2>4, <2>6 DEF Pick
    <3>2. CASE c.managed
      <4>1. n \in L
        BY <3>1, <3>2, <2>3
      <4>q. QED
        BY <4>1, <1>1 DEF With, MayServe
    <3>3. CASE ~c.managed
      <4>1. n \in Pick(c.certs, {})
        BY <3>1, <3>3, <2>3, <2>6 DEF Pick
      <4>q. QED
        BY <4>1, <3>3, <2>2 DEF MayServe
    <3>q. QED
      BY <3>2, <3>3
  <2>q. QED
    BY <2>5, <2>6
<1>q. QED
  BY <1>0, <1>2, <1>3, PortChanges

\* CertificatesOf, CreateManagedCertificate: whatever names certificates have
\* and whoever created them, a service serves only what is its own or what its
\* annotations name.
THEOREM OwnCertificateCorrect == Spec => []OwnCertificate
<1>1. Init => CertInv
  BY SyncInit DEF Init, CertInv
<1>2. CertInv => OwnCertificate
  BY DEF CertInv, OwnCertificate, MayServe
<1>q. QED
  BY <1>1, <1>2, CertNext, PTL DEF Spec
=============================================================================
