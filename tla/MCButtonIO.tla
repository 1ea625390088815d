----------------------------- MODULE MCButtonIO -----------------------------
(* Instances of ButtonIO for TLC. *)
EXTENDS ButtonIO, TLC

Symmetry == Permutations(Files)
=============================================================================
