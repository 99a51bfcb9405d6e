----------------------------- MODULE LBServices -----------------------------
(***************************************************************************)
(* ReconcileHCLBServices (internal/hcops/load_balancer.go) with the        *)
(* certificates it manages (internal/hcops/certificates.go): the ports of  *)
(* a Kubernetes service become services of its Load Balancer, with options *)
(* that come from annotations, from defaults of the process, or from       *)
(* neither.  LoadBalancers takes this as one stage and knows a port by its *)
(* number only; here every call of the API is a step of its own, the Load  *)
(* Balancer of a service exists, and the calls are those that the service  *)
(* controller of Kubernetes makes: a service is reconciled by one worker   *)
(* at a time, and again until it succeeds.                                 *)
(***************************************************************************)
EXTENDS Integers, Sequences, FiniteSetsExt, Functions

CONSTANTS
    Svc,        \* the services; a service is also its UID
    Config,     \* the specs and annotations services may have
    Defaults,   \* the defaults the process may be started with
    Uploaded,   \* names of certificates of the project without the UID label
    CertName,   \* names of certificates
    Worker,     \* goroutines of the service controller
    Unset,      \* no annotation, no default, a nil field of a request
    Idle,
    MaxChanges, \* bound on the edits of services
    MaxRestarts,\* bound on restarts of the process
    MaxFails    \* bound on calls of the API that fail

\* The options of a port, each standing for those that are treated alike: http
\* for cookie name and lifetime, idle timeout, redirect and sticky sessions;
\* interval for interval, timeout and retries; hchttp for domain, path, status
\* codes and certificate validation of the health check.
Option == {"dest", "proxy", "protocol", "http", "certs", "hcproto", "hcport", "interval", "hchttp"}

\* The options whose annotation is parsed, and may not be parseable.
Parsed == {"proxy", "protocol", "http", "hcproto", "hcport", "interval", "hchttp"}

Proto == {"tcp", "http", "https"}

\* A port of a service.
Port == [port : Nat, proto : {"TCP", "UDP", "SCTP"}, node : Nat]

\* No two ports of a service have the same number and protocol: the API server
\* does not accept such a service.
ASSUME LBServicesAssumption ==
    /\ MaxChanges \in Nat /\ MaxRestarts \in Nat /\ MaxFails \in Nat
    /\ Unset \notin Nat \cup Proto \cup CertName /\ \A S \in SUBSET CertName : S # Unset
    /\ Svc \subseteq CertName /\ Uploaded \subseteq CertName \ Svc
    /\ \A s \in Svc : \A c \in Config[s] :
        /\ c.ports \in Seq(Port)
        /\ \A i, k \in DOMAIN c.ports :
            c.ports[i].port = c.ports[k].port /\ c.ports[i].proto = c.ports[k].proto => i = k
        /\ c.protocol \in Proto \cup {Unset} /\ c.hcproto \in Proto \cup {Unset}
        /\ c.managed \in BOOLEAN /\ c.domains \in BOOLEAN
        /\ c.certName \in CertName \cup {Unset} /\ c.certs \in {Unset} \cup SUBSET CertName
        /\ c.bad \subseteq Parsed

VARIABLES
    conf,     \* each service as the API server has it
    default,  \* the defaults of the running process
    pending,  \* the services in the work queue
    job,      \* the reconcile each worker is in
    certs,    \* the API: the service that each certificate carries as its label
    ports,    \* the API: the options of each listen port of a Load Balancer
    changes, restarts, fails,
    res       \* the reconcile that ended in the last step, and how

vars == <<conf, default, pending, job, certs, ports, changes, restarts, fails, res>>
envVars == <<conf, default, changes, restarts>>

-----------------------------------------------------------------------------
(* Data *)

\* Settings of a service: ports (a sequence with the listen port, the
\* protocol and the node port of each), a field for each annotated option,
\* managed (certificate type), certName and domains of a managed certificate,
\* certs (names of uploaded ones), and bad, the options not parseable.

Pick(v, otherwise) == IF v = Unset THEN otherwise ELSE v

NoResult == [kind |-> "none"]

\* External: what the API gives a new service of a Load Balancer if nothing
\* is asked for, and how it changes one.
Fresh == [o \in Option |-> CASE o = "certs" -> {}
                             [] o \in {"protocol", "hcproto"} -> "tcp"
                             [] OTHER -> 0]

Merge(old, req) == [o \in Option |-> Pick(req[o], old[o])]

-----------------------------------------------------------------------------
(* hclbServiceOptsBuilder *)

Protocol(c) == Pick(c.protocol, "tcp")

\* The health check speaks the protocol of the service by default.
HCProtocol(c) == Pick(c.hcproto, Protocol(c))

\* The parsing that fails: annotations for HTTP health checks are not looked
\* at when the health check does not use HTTP.
Unparseable(c) == c.bad \ (IF HCProtocol(c) = "tcp" THEN {"hchttp"} ELSE {}) # {}

\* Mutant of Setting: the default is forgotten.
Setting_NoDefault(annotated, d) == annotated

\* The annotation if there is one, the default of the process otherwise.
Setting(annotated, d) == Pick(annotated, d)

\* Mutant of HCPort: nil, the port is left to the API.
HCPort_Nil(c, p) == c.hcport

HCPort(c, p) == Pick(c.hcport, p.node)

\* extract, extractHealthCheck and the options built from them, which are the
\* same for adding and updating.  Without annotation or default for a health
\* check, it is reset to TCP on the destination port.
Extract(c, d, p, found) ==
    LET interval == Setting(c.interval, d.interval)
        addHealthCheck == <<c.hcproto, c.hcport, interval>> # <<Unset, Unset, Unset>>
    IN  [o \in Option |->
            CASE o = "dest" -> p.node
              [] o = "proxy" -> Setting(c.proxy, d.proxy)
              [] o = "protocol" -> Protocol(c)
              [] o = "http" -> c.http
              [] o = "certs" -> found
              [] o = "hcproto" -> IF addHealthCheck THEN HCProtocol(c) ELSE "tcp"
              [] o = "hcport" -> HCPort(c, p)
              [] o = "interval" -> interval
              [] o = "hchttp" -> IF addHealthCheck /\ HCProtocol(c) # "tcp"
                                   THEN c.hchttp ELSE Unset]

-----------------------------------------------------------------------------
(* Certificates *)

\* The name of the certificate that is managed for s.
ManagedName(s, c) == Pick(c.certName, s)

\* The certificates that carry the UID of s.
Labelled(s) == {n \in DOMAIN certs : certs[n] = s}

\* Mutant of CertificatesOf: the managed certificate is looked up by its name.
CertificatesOf_ByName(s, c) ==
    IF c.managed THEN {ManagedName(s, c)} \cap DOMAIN certs
                 ELSE Pick(c.certs, {}) \cap DOMAIN certs

\* GetCertificateByLabel for a managed certificate, GetCertificateByNameOrID
\* for the others.
CertificatesOf(s, c) ==
    IF c.managed THEN Labelled(s) ELSE Pick(c.certs, {}) \cap DOMAIN certs

\* The lookups answer with what the builder needs: exactly one certificate
\* with the label, every certificate that is named.
Resolved(c, found) ==
    IF c.managed THEN \E n \in found : found = {n} ELSE c.certs # Unset => found = c.certs

-----------------------------------------------------------------------------
Init ==
    /\ conf \in [Svc -> UNION {Config[s] : s \in Svc}]
    /\ \A s \in Svc : conf[s] \in Config[s]
    /\ default \in Defaults
    /\ pending = Svc
    /\ job = [w \in Worker |-> Idle]
    /\ certs = [n \in Uploaded |-> Unset]
    /\ ports = [s \in Svc |-> [p \in {} |-> Fresh]]
    /\ changes = 0 /\ restarts = 0 /\ fails = 0
    /\ res = NoResult

\* A service is edited; the service controller queues it.
Edit(s, c) ==
    /\ changes < MaxChanges /\ changes' = changes + 1
    /\ c # conf[s]
    /\ conf' = [conf EXCEPT ![s] = c]
    /\ pending' = pending \cup {s}
    /\ res' = NoResult
    /\ UNCHANGED <<default, job, certs, ports, restarts, fails>>

\* The process dies and comes back, maybe with other defaults: reconciles in
\* flight are lost and every service is queued.
Restart(d) ==
    /\ restarts < MaxRestarts /\ restarts' = restarts + 1
    /\ default' = d
    /\ pending' = Svc
    /\ job' = [w \in Worker |-> Idle]
    /\ res' = NoResult
    /\ UNCHANGED <<conf, certs, ports, changes, fails>>

-----------------------------------------------------------------------------
(* The steps of a reconcile *)

\* The reconcile of worker w ends, and is queued again if it failed.
End(w, ok) ==
    /\ job' = [job EXCEPT ![w] = Idle]
    /\ pending' = IF ok THEN pending ELSE pending \cup {job[w].svc}
    /\ res' = [kind |-> IF ok THEN "ok" ELSE "error", svc |-> job[w].svc, conf |-> job[w].conf]

\* The reconcile of worker w goes on as job j.
GoOn(w, j) ==
    /\ job' = [job EXCEPT ![w] = j]
    /\ res' = NoResult
    /\ UNCHANGED pending

\* The ports job j has still to go through; only those of protocol TCP are not
\* skipped.
Exposed(j) == {k \in j.next..Len(j.conf.ports) : j.conf.ports[k].proto = "TCP"}

\* The next thing job j does with the ports: the options of the next one, or
\* after the last one removing what is left over.
Ports(j) ==
    IF Exposed(j) = {} THEN [j EXCEPT !.at = "left"]
                       ELSE [j EXCEPT !.at = "resolve", !.next = Min(Exposed(j))]

\* A worker takes a service from the queue, with copies of the service and of
\* the listen ports of its Load Balancer.
Begin(w, s) ==
    /\ job[w] = Idle /\ s \in pending
    /\ \A v \in Worker : job[v] # Idle => job[v].svc # s
    /\ pending' = pending \ {s}
    /\ LET j == [svc |-> s, conf |-> conf[s], at |-> "certificate", next |-> 1,
                 left |-> DOMAIN ports[s], exists |-> FALSE, req |-> Fresh]
       IN  job' = [job EXCEPT ![w] = IF conf[s].managed THEN j ELSE Ports(j)]
    /\ res' = NoResult
    /\ UNCHANGED <<envVars, certs, ports, fails>>

\* A call of the API fails: it may have had its effect (a wait for the action
\* that fails, an answer that is lost), and the reconcile ends with the error.
Fail(w) == fails < MaxFails /\ fails' = fails + 1 /\ End(w, FALSE)

\* reconcileManagedCertificate without domains.
NoDomains(w) ==
    /\ job[w].at = "certificate"
    /\ ~job[w].conf.domains
    /\ End(w, FALSE)
    /\ UNCHANGED <<envVars, certs, ports, fails>>

\* Mutant of CreateManagedCertificate: a name that is taken is an error.
CreateManagedCertificate_Strict(w) ==
    /\ job[w].at = "certificate"
    /\ job[w].conf.domains
    /\ LET name == ManagedName(job[w].svc, job[w].conf)
       IN  IF name \in DOMAIN certs
             THEN End(w, FALSE) /\ UNCHANGED <<certs, fails>>
             ELSE /\ certs' = [n \in DOMAIN certs \cup {name} |->
                                  IF n = name THEN job[w].svc ELSE certs[n]]
                  /\ \/ GoOn(w, Ports(job[w])) /\ UNCHANGED fails
                     \/ Fail(w)
    /\ UNCHANGED <<envVars, ports>>

\* reconcileManagedCertificate and CreateManagedCertificate: a name that is
\* taken is taken for the certificate of an earlier reconcile, whatever its
\* label.
CreateManagedCertificate(w) ==
    /\ job[w].at = "certificate"
    /\ job[w].conf.domains
    /\ LET name == ManagedName(job[w].svc, job[w].conf)
       IN  certs' = [n \in DOMAIN certs \cup {name} |->
                        IF n \in DOMAIN certs THEN certs[n] ELSE job[w].svc]
    /\ \/ GoOn(w, Ports(job[w])) /\ UNCHANGED fails
       \/ Fail(w)
    /\ UNCHANGED <<envVars, ports>>

\* The next step of the reconcile calls the API.
Calls(j) ==
    CASE j.at = "certificate" -> j.conf.domains
      [] j.at = "resolve" -> j.conf.managed \/ j.conf.certs # Unset
      [] j.at = "apply" -> TRUE
      [] j.at = "left" -> j.left # {}

\* Every call may also fail without any effect.
CallFails(w) ==
    /\ Calls(job[w])
    /\ Fail(w)
    /\ UNCHANGED <<envVars, certs, ports>>

\* Mutant of Resolve: a port that exists stays among the left-over ones.
Resolve_KeepsLeft(w) ==
    LET j == job[w]
        c == j.conf
        found == CertificatesOf(j.svc, c)
        p == c.ports[j.next]
    IN  /\ j.at = "resolve"
        /\ IF Unparseable(c) \/ ~Resolved(c, found)
             THEN End(w, FALSE)
             ELSE GoOn(w, [j EXCEPT
                    !.at = "apply", !.exists = p.port \in j.left,
                    !.req = Extract(c, default, p,
                                IF c.managed \/ c.certs # Unset THEN found ELSE Unset)])
        /\ UNCHANGED <<envVars, certs, ports, fails>>

\* The options of the next port are built; annotations that cannot be parsed
\* and certificates that cannot be found end the reconcile.
Resolve(w) ==
    LET j == job[w]
        c == j.conf
        found == CertificatesOf(j.svc, c)
        p == c.ports[j.next]
    IN  /\ j.at = "resolve"
        /\ IF Unparseable(c) \/ ~Resolved(c, found)
             THEN End(w, FALSE)
             ELSE GoOn(w, [j EXCEPT
                    !.at = "apply", !.exists = p.port \in j.left, !.left = j.left \ {p.port},
                    !.req = Extract(c, default, p,
                                IF c.managed \/ c.certs # Unset THEN found ELSE Unset)])
        /\ UNCHANGED <<envVars, certs, ports, fails>>

\* AddService or UpdateService.
Apply(w) ==
    LET j == job[w]
        s == j.svc
        p == j.conf.ports[j.next].port
        old == IF j.exists THEN ports[s][p] ELSE Fresh
    IN  /\ j.at = "apply"
        /\ ports' = [ports EXCEPT ![s] =
                [q \in DOMAIN ports[s] \cup {p} |->
                    IF q = p THEN Merge(old, j.req) ELSE ports[s][q]]]
        /\ \/ GoOn(w, Ports([j EXCEPT !.next = @ + 1, !.req = Fresh])) /\ UNCHANGED fails
           \/ Fail(w)
        /\ UNCHANGED <<envVars, certs>>

\* DeleteService, in the order of a Go map.
DeleteService(w, p) ==
    LET s == job[w].svc
    IN  /\ job[w].at = "left" /\ p \in job[w].left
        /\ ports' = [ports EXCEPT ![s] = [q \in DOMAIN ports[s] \ {p} |-> ports[s][q]]]
        /\ \/ GoOn(w, [job[w] EXCEPT !.left = @ \ {p}]) /\ UNCHANGED fails
           \/ Fail(w)
        /\ UNCHANGED <<envVars, certs>>

Done(w) ==
    /\ job[w].at = "left" /\ job[w].left = {}
    /\ End(w, TRUE)
    /\ UNCHANGED <<envVars, certs, ports, fails>>

Step(w) ==
    /\ job[w] # Idle
    /\ \/ NoDomains(w) \/ CreateManagedCertificate(w) \/ CallFails(w)
       \/ Resolve(w) \/ Apply(w) \/ Done(w)
       \/ \E p \in job[w].left : DeleteService(w, p)

Next ==
    \/ \E s \in Svc : \E c \in Config[s] : Edit(s, c)
    \/ \E d \in Defaults : Restart(d)
    \/ \E w \in Worker : Step(w) \/ \E s \in Svc : Begin(w, s)

\* A worker that is in a reconcile goes on with it, every call of the API
\* ends, and the work queue is first in, first out.
Fairness ==
    /\ \A w \in Worker : WF_vars(Step(w))
    /\ \A s \in Svc : SF_vars(\E w \in Worker : Begin(w, s))

Spec == Init /\ [][Next]_vars /\ Fairness

-----------------------------------------------------------------------------
(* Properties *)

\* Types of the state; a request never leaves the destination, the protocol
\* or the port of the health check to the API.
TypeOK ==
    /\ \A s \in Svc : conf[s] \in Config[s]
    /\ default \in Defaults /\ pending \subseteq Svc
    /\ \A w \in Worker : job[w] # Idle =>
        /\ DOMAIN job[w] = {"svc", "conf", "at", "next", "left", "exists", "req"}
        /\ job[w].svc \in Svc /\ job[w].conf \in Config[job[w].svc]
        /\ job[w].next \in 1..Len(job[w].conf.ports) + 1
        /\ job[w].at \in {"certificate", "resolve", "apply", "left"}
        /\ \A o \in {"dest", "protocol", "hcproto", "hcport"} : job[w].req[o] # Unset
    /\ \A n \in DOMAIN certs : n \in CertName /\ certs[n] \in Svc \cup {Unset}
    /\ \A s \in Svc : \A p \in DOMAIN ports[s] :
        DOMAIN ports[s][p] = Option /\ \A o \in Option : ports[s][p][o] # Unset
    /\ changes \in 0..MaxChanges /\ restarts \in 0..MaxRestarts /\ fails \in 0..MaxFails

\* The port p, with options o, is as the settings c and the defaults d ask for,
\* given the certificates that carry the label of the service: what is not
\* asked for may have any value.
AsAsked(c, d, p, o, labelled) ==
    /\ o.dest = p.node
    /\ o.protocol = Pick(c.protocol, "tcp")
    /\ Pick(c.proxy, d.proxy) \in {Unset, o.proxy}
    /\ c.http \in {Unset, o.http}
    /\ IF c.managed THEN o.certs # {} /\ o.certs = labelled ELSE c.certs \in {Unset, o.certs}
    /\ c.hcproto \in {Unset, o.hcproto}
    /\ o.hcport = Pick(c.hcport, p.node)
    /\ Pick(c.interval, d.interval) \in {Unset, o.interval}
    /\ o.hcproto # "tcp" => c.hchttp \in {Unset, o.hchttp}

Matches(s, c) ==
    /\ DOMAIN ports[s] = {p.port : p \in {q \in Range(c.ports) : q.proto = "TCP"}}
    /\ \A p \in Range(c.ports) :
        p.proto = "TCP" => AsAsked(c, default, p, ports[s][p.port], Labelled(s))

\* A reconcile that succeeds leaves exactly the TCP ports of the service it was
\* given, each with every option that an annotation or a default sets, also
\* when an annotation was removed or the defaults changed with a restart.
ServicesSynced == res.kind = "ok" => Matches(res.svc, res.conf)

\* A port that a service exposes over TCP is never taken from its Load
\* Balancer by a reconcile of that service, whatever other ports and protocols
\* it has and however often calls fail: existing ports are updated in place.
PortStays ==
    [][\A w \in Worker : job[w] # Idle =>
        \A p \in Range(job[w].conf.ports) :
            p.proto = "TCP" /\ p.port \in DOMAIN ports[job[w].svc]
                => p.port \in DOMAIN ports'[job[w].svc]]_vars

\* A service never serves the certificate that is managed for another one,
\* unless its own annotations name it, even if two services want the same name
\* for their certificates.
OwnCertificate ==
    \A s \in Svc : \A p \in DOMAIN ports[s] : \A n \in ports[s][p].certs :
        certs[n] \in {s, Unset}
            \/ \E c \in Config[s] : ~c.managed /\ n \in Pick(c.certs, {})

\* The settings of s can be met: annotations can be parsed, named certificates
\* exist, and a managed certificate neither has a name that is taken by
\* another nor a name that was changed after it was created.
Serviceable(s) ==
    LET c == conf[s]
    IN  /\ ~Unparseable(c)
        /\ IF c.managed
             THEN /\ c.domains
                  /\ ManagedName(s, c) \in DOMAIN certs => certs[ManagedName(s, c)] = s
                  /\ Labelled(s) \subseteq {ManagedName(s, c)}
             ELSE Pick(c.certs, {}) \subseteq DOMAIN certs

\* Once nothing changes any more, every service that can be met is met: a
\* certificate that an earlier, failed or lost reconcile created is found
\* again, and ports that it left half done are finished.
Settles == \A s \in Svc : <>[](Serviceable(s) => Matches(s, conf[s]))
=============================================================================
