------------------------ MODULE MCConcurrencyControl ------------------------
(* Instances of ConcurrencyControl for TLC. *)
EXTENDS ConcurrencyControl
=============================================================================
