-------------------------------- MODULE Uio --------------------------------
(***************************************************************************)
(* virt_uio.c: processes write 1 or 0 to /dev/uio0, and the uio core hands *)
(* each value to virt_uio_irqcontrol without a lock.  The function keeps a *)
(* flag bit of its own so that enable_irq and disable_irq_nosync alternate,*)
(* but the bit and the disable depth of the interrupt change in two steps. *)
(***************************************************************************)
EXTENDS Integers, FiniteSets

CONSTANTS
  Writers,    \* the processes that write to the device
  MaxDepth    \* bound: nobody disables an interrupt disabled this often

VARIABLES
  flag,       \* bit 0 of priv->flag: the interrupt is meant to be on
  depth,      \* how often the interrupt is disabled (irq_desc.depth)
  owes,       \* what each writer's call still has to do: nothing, enable or disable
  unbalanced  \* history: the enable_irq calls that found nothing to enable

vars == <<flag, depth, owes, unbalanced>>

Owing(what) == {w \in Writers : owes[w] = what}

TypeOK ==
  /\ flag       \in BOOLEAN
  /\ depth      \in Nat
  /\ owes       \in [Writers -> {"nothing", "enable", "disable"}]
  /\ unbalanced \in Nat

(* virt_uio_probe sets the bit before the device exists. *)
Init ==
  /\ flag       = TRUE
  /\ depth      = 0
  /\ owes       = [w \in Writers |-> "nothing"]
  /\ unbalanced = 0

(* Mutation: the bit is set without looking at it. *)
IrqOnUntested(w) ==
  /\ owes[w] = "nothing"
  /\ flag' = TRUE
  /\ owes' = [owes EXCEPT ![w] = "enable"]
  /\ UNCHANGED <<depth, unbalanced>>

(* write(1): test_and_set_bit; a bit already set ends the call. *)
IrqOn(w) ==
  /\ owes[w] = "nothing"
  /\ flag' = TRUE
  /\ owes' = [owes EXCEPT ![w] = IF flag THEN "nothing" ELSE "enable"]
  /\ UNCHANGED <<depth, unbalanced>>

(* write(0): test_and_clear_bit; a bit already clear ends the call. *)
IrqOff(w) ==
  /\ owes[w] = "nothing"
  /\ depth < MaxDepth
  /\ flag' = FALSE
  /\ owes' = [owes EXCEPT ![w] = IF flag THEN "disable" ELSE "nothing"]
  /\ UNCHANGED <<depth, unbalanced>>

(* enable_irq takes one from the depth; at depth 0 it warns and does nothing. *)
EnableIrq(w) ==
  /\ owes[w] = "enable"
  /\ owes' = [owes EXCEPT ![w] = "nothing"]
  /\ \/ depth > 0 /\ depth' = depth - 1 /\ UNCHANGED unbalanced
     \/ depth = 0 /\ unbalanced' = unbalanced + 1 /\ UNCHANGED depth
  /\ UNCHANGED flag

DisableIrq(w) ==
  /\ owes[w] = "disable"
  /\ owes' = [owes EXCEPT ![w] = "nothing"]
  /\ depth' = depth + 1
  /\ UNCHANGED <<flag, unbalanced>>

Next == \E w \in Writers : IrqOn(w) \/ IrqOff(w) \/ EnableIrq(w) \/ DisableIrq(w)

Spec == Init /\ [][Next]_vars
-----------------------------------------------------------------------------
FlagDepth == IF flag THEN 0 ELSE 1

(* At every moment the depth is what the bit says, give or take the calls  *)
(* under way, plus one for every enable that came too early.               *)
Account ==
  depth + Cardinality(Owing("disable"))
    = FlagDepth + Cardinality(Owing("enable")) + unbalanced

(* Two writers race between the bit and the depth.  When no call is under  *)
(* way, the interrupt is disabled as often as the bit says and once more   *)
(* for each enable_irq that was lost; and an enable_irq is lost only when  *)
(* it overtakes the disable of another writer's call.                      *)
IrqInStep ==
  /\ (\A w \in Writers : owes[w] = "nothing") => depth = FlagDepth + unbalanced
  /\ \A w \in Writers : owes[w] = "enable" /\ depth = 0 =>
       \E v \in Writers : owes[v] = "disable"
=============================================================================
