----------------------------- MODULE MCCharDev ------------------------------
(* Instances of CharDev for TLC. *)
EXTENDS CharDev, TLC

MCOffsets == {-1, 1, 2}

Symmetry == Permutations(Procs)
=============================================================================
