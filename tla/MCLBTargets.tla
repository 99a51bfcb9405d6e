---------------------------- MODULE MCLBTargets ----------------------------
(* Instances of LBTargets for TLC: the configurations of the controller.   *)
EXTENDS LBTargets

Base == [network |-> TRUE, robot |-> "off", settings |-> {"public", "private"},
         answers |-> {"list"}, foreign |-> {}]

Cloud == [Base EXCEPT !.settings = @ \cup {"invalid"}]

NoNetwork == [Base EXCEPT !.network = FALSE]

\* With the Robot API and use-private-ip off: switched on, the external targets
\* of Robot servers stay beside the internal ones.
RobotAPI == [Base EXCEPT !.robot = "api", !.settings = {"public"}, !.answers = {"list", "error"},
                         !.foreign = {"selector"}]

\* Without Robot credentials.
RobotNodes == [Base EXCEPT !.robot = "nodes"]

AllSetups == {Cloud, NoNetwork, RobotAPI, RobotNodes}
=============================================================================
