----------------------------- MODULE MCSoftDog ------------------------------
(* Instances of SoftDog for TLC. *)
EXTENDS SoftDog

(* One watchdog whose timeout is changed, and one that keeps its margin. *)
OneChanges == [d \in Dogs |-> IF d = 1 THEN {1} ELSE {}]

AnyOfThree == [d \in Dogs |-> 1 .. 3]
=============================================================================
