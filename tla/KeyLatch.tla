------------------------------ MODULE KeyLatch ------------------------------
(***************************************************************************)
(* What the button drivers (block_io, nonblock_io, fasync_io) promise to   *)
(* one process that reads the key: presses are latched in a single bit,    *)
(* and a call either takes the latched press, leaving the latch empty, or  *)
(* returns without it and leaves the latch as it was.                      *)
(***************************************************************************)
EXTENDS FiniteSets

CONSTANT Readers

VARIABLES
  pressed,   \* 1 when a press is latched and not yet reported, else 0
  reading,   \* the readers inside a call
  reported   \* the readers whose last call reported a press

vars == <<pressed, reading, reported>>

Init ==
  /\ pressed  = 0
  /\ reading  = {}
  /\ reported = {}

(* A press sets the latch; a press on a full latch merges with it. *)
Press ==
  /\ pressed' = 1
  /\ UNCHANGED <<reading, reported>>

Call(r) ==
  /\ r \notin reading
  /\ reading'  = reading \cup {r}
  /\ reported' = reported \ {r}
  /\ UNCHANGED pressed

(* The call takes the press: emptying the latch and reporting are one step. *)
Deliver(r) ==
  /\ r \in reading
  /\ pressed = 1
  /\ pressed'  = 0
  /\ reading'  = reading \ {r}
  /\ reported' = reported \cup {r}

(* The call gives up (-EAGAIN, a signal, a poll): the press stays latched. *)
GiveUp(r) ==
  /\ r \in reading
  /\ reading' = reading \ {r}
  /\ UNCHANGED <<pressed, reported>>

Next ==
  \/ Press
  \/ \E r \in Readers : Call(r) \/ Deliver(r) \/ GiveUp(r)

(* While a press is latched, a call in progress ends. *)
Answer(r) == pressed = 1 /\ (Deliver(r) \/ GiveUp(r))

Spec == Init /\ [][Next]_vars /\ \A r \in Readers : WF_vars(Answer(r))

(* Without the fairness: the safety part of the promise. *)
SafeSpec == Init /\ [][Next]_vars
=============================================================================
