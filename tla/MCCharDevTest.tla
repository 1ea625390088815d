--------------------------- MODULE MCCharDevTest ----------------------------
(* Instances of CharDevTest for TLC. *)
EXTENDS CharDevTest
=============================================================================
