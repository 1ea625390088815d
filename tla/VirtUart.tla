------------------------------ MODULE VirtUart ------------------------------
(***************************************************************************)
(* serial-virt.c: a serial port without hardware.  The serial core copies  *)
(* what is written into a circular buffer and calls start_tx, which feeds  *)
(* the characters straight into the port's own receive side, at most       *)
(* fifosize of them per call.  The driver has no interrupt that would ask  *)
(* for the rest: it waits for the next call.                               *)
(***************************************************************************)
EXTENDS Integers, Sequences

CONSTANTS
  XmitSize,   \* UART_XMIT_SIZE, a power of two
  FifoSize,   \* port->fifosize
  FlipRoom,   \* what the tty layer takes before it drops characters
  LastChar    \* bound: the characters are numbered up to this one

VARIABLES
  buf, head, tail,  \* port->state->xmit
  stopped,          \* uart_tx_stopped: the tty was told to stop sending
  x_char,           \* an XON or XOFF waits to be sent before everything else
  flip,             \* received and not yet read, the oldest first
  written           \* history: the number of the last character written

vars == <<buf, head, tail, stopped, x_char, flip, written>>

Index == 0 .. XmitSize - 1

(* CIRC_CNT and CIRC_SPACE: one slot stays free. *)
CharsPending(h, t) == (h - t) % XmitSize
Space == (tail - head - 1) % XmitSize

(* What the buffer holds, the oldest first. *)
Pending == [i \in 1 .. CharsPending(head, tail) |-> buf[(tail + i - 1) % XmitSize]]

TypeOK ==
  /\ buf     \in [Index -> 0 .. LastChar]
  /\ head    \in Index
  /\ tail    \in Index
  /\ stopped \in BOOLEAN
  /\ x_char  \in BOOLEAN
  /\ flip    \in Seq(1 .. LastChar) /\ Len(flip) <= FlipRoom
  /\ written \in 0 .. LastChar

Init ==
  /\ buf     = [i \in Index |-> 0]
  /\ head    = 0
  /\ tail    = 0
  /\ stopped = FALSE
  /\ x_char  = FALSE
  /\ flip    = <<>>
  /\ written = 0

(* How many characters a call moves: the loop runs once before it counts. *)
Burst(pending) ==
  LET most == IF FifoSize > 1 THEN FifoSize ELSE 1
  IN  IF pending < most THEN pending ELSE most

(* uart_insert_char drops what the flip buffer has no room for. *)
Insert(chars) ==
  LET free == FlipRoom - Len(flip)
  IN  flip \o SubSeq(chars, 1, IF Len(chars) < free THEN Len(chars) ELSE free)

(* Mutation: the tail wraps one slot early. *)
AdvanceEarly(t, n) == (t + n) % (XmitSize - 1)

Advance(t, n) == (t + n) % XmitSize

(* virt_uart_start_tx, on the buffer b with its head at h: an x_char is    *)
(* all that a call sends, and a stopped tty keeps its characters.          *)
StartTx(b, h, stop) ==
  LET n == Burst(CharsPending(h, tail))
  IN  IF x_char \/ h = tail \/ stop
      THEN x_char' = FALSE /\ UNCHANGED <<tail, flip>>
      ELSE /\ flip' = Insert([i \in 1 .. n |-> b[Advance(tail, i - 1)]])
           /\ tail' = Advance(tail, n)
           /\ UNCHANGED x_char

(* uart_write, with the port locked: it copies what fits, and calls        *)
(* start_tx unless the tty is stopped.                                     *)
Write(asked) ==
  LET n == IF asked < Space THEN asked ELSE Space
      h == (head + n) % XmitSize
      b == [i \in Index |-> LET k == (i - head) % XmitSize
                            IN  IF k < n THEN written + 1 + k ELSE buf[i]]
  IN  /\ written + n <= LastChar
      /\ buf' = b
      /\ head' = h
      /\ written' = written + n
      /\ IF stopped THEN UNCHANGED <<tail, flip, x_char>> ELSE StartTx(b, h, FALSE)
      /\ UNCHANGED stopped

(* uart_send_xchar notes the character, then calls start_tx. *)
NoteXchar ==
  /\ ~x_char
  /\ x_char' = TRUE
  /\ UNCHANGED <<buf, head, tail, stopped, flip, written>>

SendXchar ==
  /\ x_char
  /\ StartTx(buf, head, stopped)
  /\ UNCHANGED <<buf, head, stopped, written>>

(* uart_stop: the driver's stop_tx does nothing, the tty's flag is enough. *)
StopTx ==
  /\ ~stopped
  /\ stopped' = TRUE
  /\ UNCHANGED <<buf, head, tail, x_char, flip, written>>

(* uart_start, when the tty's flag is cleared. *)
TtyStart ==
  /\ stopped
  /\ stopped' = FALSE
  /\ StartTx(buf, head, FALSE)
  /\ UNCHANGED <<buf, head, written>>

(* uart_flush_buffer, also at the end of a close that waited in vain for   *)
(* tx_empty.                                                               *)
FlushBuffer ==
  /\ head' = 0
  /\ tail' = 0
  /\ UNCHANGED <<buf, stopped, x_char, flip, written>>

(* The reader takes some of what was received. *)
Read(n) ==
  /\ n <= Len(flip)
  /\ flip' = SubSeq(flip, n + 1, Len(flip))
  /\ UNCHANGED <<buf, head, tail, stopped, x_char, written>>

Next ==
  \/ \E asked \in 1 .. XmitSize : Write(asked)
  \/ NoteXchar \/ SendXchar \/ StopTx \/ TtyStart \/ FlushBuffer
  \/ \E n \in 1 .. FlipRoom : Read(n)

Spec == Init /\ [][Next]_vars
-----------------------------------------------------------------------------
Line == INSTANCE Loopback WITH
  Capacity <- XmitSize - 1,
  Room     <- FlipRoom,
  next     <- written + 1,
  line     <- Pending,
  inbox    <- flip

(* The circular buffer, its indices and the flip buffer together are a     *)
(* first-in first-out line: no character is repeated, reordered or lost    *)
(* but by a flush or for want of room, through wrap-around, partial        *)
(* bursts, a stopped tty and an x_char in between.                         *)
ImplementsLoopback == Line!Spec
=============================================================================
