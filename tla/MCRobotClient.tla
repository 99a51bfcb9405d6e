--------------------------- MODULE MCRobotClient ---------------------------
(* Instances of RobotClient for TLC; threads and servers are               *)
(* interchangeable.                                                        *)
EXTENDS RobotClient, TLC

Symmetry == Permutations(Thread) \cup Permutations(Id)
=============================================================================
