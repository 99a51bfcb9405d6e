------------------------------ MODULE MCRoutes ------------------------------
(* Instances of Routes for TLC: what there is when the controller starts.  *)
EXTENDS Routes, TLC

CONSTANTS s1, s2, ip1, ip2, c1, c2, v6, f

Joined(c, a, p) == [cidr |-> c, provider |-> p, addr |-> a]

\* Two nodes; one address may have moved from one server to the other.  The
\* routes are those of the same nodes before, one of them not of the cluster.
Moved ==
    [server: {(s1 :> ip1 @@ s2 :> ip2), (s1 :> Unborn @@ s2 :> ip1)},
     node: {(s1 :> Joined(c1, ip1, "id") @@ s2 :> Joined(c2, ip2, "unset"))},
     routes: {<<Route(f, ip2), Route(c1, ip2), Route(c2, ip1)>>, <<Route(c1, ip1), Route(c2, ip2)>>}]

\* One node is not a cloud server, or has an IPv6 CIDR.
Unsupported ==
    [server: {(s1 :> ip1 @@ s2 :> NoIP)},
     node: {(s1 :> Joined(c1, NoIP, "id") @@ s2 :> Joined(c, NoIP, p)) : c \in {c2, v6}, p \in {"other", "id"}},
     routes: {<<>>}]

Cluster == Moved \cup Unsupported

\* Both nodes have their routes.
Settled ==
    [server: {(s1 :> ip1 @@ s2 :> ip2)},
     node: {(s1 :> Joined(c1, ip1, "id") @@ s2 :> Joined(c2, ip2, "id"))},
     routes: {<<Route(c1, ip1), Route(c2, ip2)>>}]
=============================================================================
