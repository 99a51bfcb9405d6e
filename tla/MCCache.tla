------------------------------ MODULE MCCache ------------------------------
(* Instances of Cache for TLC.  Threads, ids and names are interchangeable: *)
(* no definition tells two of them apart.                                   *)
EXTENDS Cache, TLC

Symmetry == Permutations(Thread) \cup Permutations(Id) \cup Permutations(Name)
=============================================================================
