---------------------------- MODULE MCHardLinks ----------------------------
(* Instances of HardLinks for model checking. *)
EXTENDS HardLinks, TLC

CONSTANTS t1, t2, d1, d2, f1, f2
Symmetry == Permutations(Threads) \cup Permutations({d1, d2})
=============================================================================
