------------------------------ MODULE Loopback ------------------------------
(***************************************************************************)
(* What a looped-back serial line promises: characters come out in the     *)
(* order they went in, none twice.  Characters are numbered as they are    *)
(* written.  The only ones lost are those on the line when it is flushed   *)
(* and those that reach a receiver without room.                           *)
(***************************************************************************)
EXTENDS Integers, Sequences

CONSTANTS
  Capacity,  \* the characters the line holds at most
  Room       \* the characters the receiver holds at most

VARIABLES
  next,      \* the number of the next character to be written
  line,      \* the characters on the line, the oldest first
  inbox      \* the characters the receiver holds, the oldest first

vars == <<next, line, inbox>>

Init == next = 1 /\ line = <<>> /\ inbox = <<>>

(* m characters are written, then n of those on the line arrive: those    *)
(* beyond the receiver's room are lost.                                    *)
Carry(m, n) ==
  LET all == line \o [i \in 1 .. m |-> next + i - 1]
      free == Room - Len(inbox)
  IN  /\ Len(line) + m <= Capacity
      /\ n <= Len(all)
      /\ next'  = next + m
      /\ line'  = SubSeq(all, n + 1, Len(all))
      /\ inbox' = inbox \o SubSeq(all, 1, IF n < free THEN n ELSE free)

Flush == line' = <<>> /\ UNCHANGED <<next, inbox>>

Receive(n) ==
  /\ n <= Len(inbox)
  /\ inbox' = SubSeq(inbox, n + 1, Len(inbox))
  /\ UNCHANGED <<next, line>>

Next ==
  \/ \E m, n \in 0 .. Capacity : Carry(m, n)
  \/ Flush
  \/ \E n \in 1 .. Room : Receive(n)

Spec == Init /\ [][Next]_vars
=============================================================================
