-------------------------- MODULE MCLoadBalancers --------------------------
(* Instances of LoadBalancers for TLC: the settings services may have. *)
EXTENDS LoadBalancers, TLC

CONSTANTS s1, s2, n1, n2, ip1, ip2, p1, p2

Settings(name, attr, ip, private, ports, bad) ==
    [name |-> name, attr |-> attr, ip |-> ip, private |-> private, select |-> ServerId,
     ports |-> ports, bad |-> bad]

All(v) == [a \in Attrs |-> v]

Plain == Settings(Unset, All(Unset), Unset, FALSE, {p1}, {})

\* Every setting changes, the address of the private network among them.
Sync == [s \in Svc |-> {
    Plain,
    Settings(n1, All(1), ip1, TRUE, {p2}, {}),
    Settings(n1, All(Unset), ip2, TRUE, {}, {}),
    Settings(n2, All(0), Unset, FALSE, {p1, p2}, {"algorithm", "create"}),
    [Plain EXCEPT !.bad = {"status"}], [Plain EXCEPT !.bad = {"select"}]}]

\* Every service has names of its own.
OwnNames == [s \in Svc |-> {[Plain EXCEPT !.ports = {}, !.name = n] :
                               n \in {Unset, IF s = s1 THEN n1 ELSE n2}}]

\* The private address is changed under a service that uses it.
PrivateIPs == [s \in Svc |-> {Settings(Unset, All(Unset), i, TRUE, {}, {}) : i \in {ip1, ip2}}]

NoImport == <<>>

OneImport == <<n1>>

\* The workers are interchangeable.
Symmetry == Permutations(Worker)
=============================================================================
