---------------------------- MODULE MCDataPaths ----------------------------
(***************************************************************************)
(* Instances of DataPaths for TLC: a gadget with two readers, of which one *)
(* also writes; a light sensor of two bits; a serial buffer of four        *)
(* characters; three writers of the interrupt; two temperatures, one of    *)
(* them below zero; two bytes of graphics.                                 *)
(***************************************************************************)
EXTENDS DataPaths

MCTemperatures == {-2041, 25}
=============================================================================
