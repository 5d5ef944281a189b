--------------------------- MODULE MCUserAccess ---------------------------
(* Instances of UserAccess for model checking. *)
EXTENDS UserAccess, TLC

CONSTANTS t1, t2, t3, c1, c2
Symmetry == Permutations({t1, t2, t3}) \cup Permutations({c1, c2})
=============================================================================
