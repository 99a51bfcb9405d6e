---------------------------- MODULE MCInstances ----------------------------
(* Instances of Instances for TLC: one server in each API, one node.         *)
EXTENDS Instances

MCProviderIDs == {NoProviderID} \cup {prefixRobotLegacy \o <<i>> : i \in RobotId}

MCKubeletIPs ==
    [n \in NodeName |-> {Address(n, "ipv4"), Address(n, "ipv6")}
                          \cup {Address(<<"robot", i>>, "ipv4") : i \in RobotId}]

CloudServers(names) ==
    {[i \in CloudId |-> Absent]} \cup {[i \in CloudId |-> Server(n, FALSE, {"ipv4", "private"}, FALSE)] : n \in names}

RobotServers(names, tower) ==
    {[i \in RobotId |-> Absent]} \cup {[i \in RobotId |-> Server(n, FALSE, {}, tower)] : n \in names}

\* One server in each API at most.  A Robot server of another name, or in a
\* tower case, is alone.
MCStarts ==
    [cloud: CloudServers(ServerName), robot: RobotServers(NodeName, FALSE)]
      \cup [cloud: CloudServers({}), robot: RobotServers(NodeName, TRUE) \cup RobotServers(OtherName, FALSE)]

\* The environment with a token and nothing else.
Plain ==
    [bad |-> {}, token |-> TRUE, robot |-> Unset, user |-> FALSE, password |-> FALSE,
     forwardInternalIPs |-> Unset, family |-> Unset, mode |-> Unset, maxAge |-> Unset,
     loadBalancers |-> Unset, location |-> FALSE, networkZone |-> FALSE, subnet |-> Unset,
     algorithm |-> Unset, network |-> FALSE, disableAttachedCheck |-> Unset, routes |-> Unset]

Robot == [Plain EXCEPT !.robot = TRUE, !.user = TRUE, !.password = TRUE]

MCEnvironments ==
    {[Plain EXCEPT !.network = TRUE],
     [Robot EXCEPT !.family = "dualstack", !.bad = {"HCLOUD_NETWORK_ROUTES_ENABLED"}],
     [Robot EXCEPT !.mode = "off", !.user = FALSE, !.password = FALSE, !.family = "ipv6"],
     [Robot EXCEPT !.mode = "off", !.network = TRUE, !.routes = FALSE, !.disableAttachedCheck = TRUE],
     [Plain EXCEPT !.mode = "other"]}
=============================================================================
