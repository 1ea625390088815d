---------------------------- MODULE MCFasyncTest ----------------------------
(* Instances of FasyncTest for TLC. *)
EXTENDS FasyncTest
=============================================================================
