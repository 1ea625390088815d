--------------------------- MODULE VirtUartProofs ---------------------------
(***************************************************************************)
(* The serial port of DataPaths, step by step: its circular buffer is a    *)
(* queue, whatever its size, and each of its steps is one of the loopback  *)
(* line's or changes nothing there.                                        *)
(***************************************************************************)
EXTENDS DataPaths, SequenceTheorems, TLAPS

(* What the proofs need of the constants. *)
UartConstants ==
  XmitSize \in Nat \ {0} /\ FifoSize \in Nat /\ FlipRoom \in Nat /\ LastChar \in Nat

(* Indices are brought back into the buffer from at most once around it. *)
Wrap(x) == IF x < 0 THEN x + XmitSize ELSE IF x < XmitSize THEN x ELSE x - XmitSize

LEMMA WrapOnce ==
  ASSUME UartConstants, NEW x \in Int, -XmitSize <= x, x < 2 * XmitSize
  PROVE  x % XmitSize = Wrap(x)
<1> USE DEF UartConstants
<1>1. CASE x < 0
  BY <1>1 DEF Wrap
<1>2. CASE 0 <= x /\ x < XmitSize
  BY <1>2 DEF Wrap
<1>3. CASE XmitSize <= x
  BY <1>3 DEF Wrap
<1>4. QED
  BY <1>1, <1>2, <1>3

(* What a buffer b holds between a tail and a head, the oldest first. *)
Held(b, h, t) == [i \in 1 .. Uart!CharsPending(h, t) |-> b[(t + i - 1) % XmitSize]]

LEMMA PendingHeld == Uart!Pending = Held(uart_buf, head, tail)
BY DEF Uart!Pending, Held

(* The distance of two indices, and the slots in between. *)
LEMMA CountBetween ==
  ASSUME UartConstants, NEW h \in Uart!Index, NEW t \in Uart!Index
  PROVE  /\ Uart!CharsPending(h, t) = IF t <= h THEN h - t ELSE h - t + XmitSize
         /\ Uart!CharsPending(h, t) \in 0 .. XmitSize - 1
<1>1. h - t \in Int /\ -XmitSize <= h - t /\ h - t < 2 * XmitSize
  BY DEF UartConstants, Uart!Index
<1>2. Uart!CharsPending(h, t) = Wrap(h - t)
  BY <1>1, WrapOnce DEF Uart!CharsPending
<1>3. QED
  BY <1>2 DEF Wrap, UartConstants, Uart!Index

LEMMA SlotOf ==
  ASSUME UartConstants, NEW t \in Uart!Index, NEW k \in 0 .. XmitSize
  PROVE  /\ (t + k) % XmitSize = Wrap(t + k)
         /\ (t + k) % XmitSize \in Uart!Index
<1>1. t + k \in Int /\ -XmitSize <= t + k /\ t + k < 2 * XmitSize
  BY DEF UartConstants, Uart!Index
<1>2. (t + k) % XmitSize = Wrap(t + k)
  BY <1>1, WrapOnce
<1>3. QED
  BY <1>2 DEF Wrap, UartConstants, Uart!Index

(* Taken from the tail, the characters come out from the front. *)
LEMMA AdvanceTakes ==
  ASSUME UartConstants, NEW b, NEW h \in Uart!Index, NEW t \in Uart!Index,
         NEW n \in 0 .. Uart!CharsPending(h, t), NEW Char, Held(b, h, t) \in Seq(Char)
  PROVE  /\ Uart!Advance(t, n) \in Uart!Index
         /\ [i \in 1 .. n |-> b[Uart!Advance(t, i - 1)]] = SubSeq(Held(b, h, t), 1, n)
         /\ Held(b, h, Uart!Advance(t, n)) = SubSeq(Held(b, h, t), n + 1, Len(Held(b, h, t)))
<1> DEFINE count == Uart!CharsPending(h, t)
           held  == Held(b, h, t)
           s     == Uart!Advance(t, n)
<1>1. /\ count = IF t <= h THEN h - t ELSE h - t + XmitSize
      /\ count \in 0 .. XmitSize - 1
  BY CountBetween
<1>2. s = Wrap(t + n) /\ s \in Uart!Index
  BY <1>1, SlotOf DEF UartConstants, Uart!Advance
<1>3. Uart!CharsPending(h, s) = count - n
  <2>1. Uart!CharsPending(h, s) = IF s <= h THEN h - s ELSE h - s + XmitSize
    BY <1>2, CountBetween
  <2>2. QED
    BY <1>1, <1>2, <2>1 DEF Wrap, UartConstants, Uart!Index
<1>4. Len(held) = count /\ \A i \in 1 .. count : held[i] = b[(t + i - 1) % XmitSize]
  BY <1>1 DEF Held, UartConstants
<1>0. n \in 0 .. count
  OBVIOUS
<1> HIDE DEF count, held, s
<1>5. [i \in 1 .. n |-> b[Uart!Advance(t, i - 1)]] = SubSeq(held, 1, n)
  <2>1. ASSUME NEW i \in 1 .. n PROVE b[Uart!Advance(t, i - 1)] = held[i]
    <3>1. t + (i - 1) = t + i - 1 /\ i \in 1 .. count
      BY <1>1, <1>0 DEF UartConstants, Uart!Index
    <3>2. Uart!Advance(t, i - 1) = (t + i - 1) % XmitSize
      BY <3>1 DEF Uart!Advance
    <3>3. QED
      BY <1>4, <3>1, <3>2
  <2>2. SubSeq(held, 1, n) = [i \in 1 .. n |-> held[i]]
    BY <1>1, <1>4, <1>0 DEF UartConstants
  <2>3. QED
    BY <2>1, <2>2
<1>6. Held(b, h, s) = SubSeq(held, n + 1, count)
  <2>1. ASSUME NEW i \in 1 .. count - n
        PROVE  b[(s + i - 1) % XmitSize] = held[n + i]
    <3>1. /\ s + i - 1 \in Int /\ -XmitSize <= s + i - 1 /\ s + i - 1 < 2 * XmitSize
          /\ t + (n + i) - 1 \in Int /\ -XmitSize <= t + (n + i) - 1 /\ t + (n + i) - 1 < 2 * XmitSize
          /\ n + i \in 1 .. count
      BY <1>1, <1>2, <1>0 DEF UartConstants, Uart!Index
    <3>2. (s + i - 1) % XmitSize = Wrap(s + i - 1)
      BY <3>1, WrapOnce
    <3>3. (t + (n + i) - 1) % XmitSize = Wrap(t + (n + i) - 1)
      BY <3>1, WrapOnce
    <3>4. Wrap(s + i - 1) = Wrap(t + (n + i) - 1)
      BY <1>1, <1>2, <1>0 DEF Wrap, UartConstants, Uart!Index
    <3>5. held[n + i] = b[(t + (n + i) - 1) % XmitSize]
      BY <1>4, <3>1
    <3>6. QED
      BY <3>2, <3>3, <3>4, <3>5
  <2>2. SubSeq(held, n + 1, count) = [i \in 1 .. count - n |-> held[n + i]]
    BY <1>1, <1>4, <1>0 DEF UartConstants
  <2>3. QED
    BY <1>3, <2>1, <2>2 DEF Held
<1>7. QED
  BY <1>2, <1>4, <1>5, <1>6 DEF count, held, s

-----------------------------------------------------------------------------
(* uart_write: how many characters fit, where the head goes, and the buffer. *)
Fits(asked) == IF asked < Uart!Space THEN asked ELSE Uart!Space
HeadAfter(n) == (head + n) % XmitSize
BufAfter(n) ==
  [i \in Uart!Index |-> LET k == (i - head) % XmitSize
                        IN  IF k < n THEN written + 1 + k ELSE uart_buf[i]]

(* The characters of one write, as they are numbered. *)
Fresh(n) == [i \in 1 .. n |-> written + 1 + i - 1]

LEMMA FitsInSpace ==
  ASSUME UartConstants, Uart!TypeOK, NEW asked \in 1 .. XmitSize
  PROVE  /\ Fits(asked) \in 0 .. XmitSize - 1
         /\ Uart!CharsPending(head, tail) + Fits(asked) <= XmitSize - 1
<1>1. head \in Uart!Index /\ tail \in Uart!Index
  BY DEF Uart!TypeOK
<1>2. /\ Uart!CharsPending(head, tail) = IF tail <= head THEN head - tail ELSE head - tail + XmitSize
      /\ Uart!CharsPending(head, tail) \in 0 .. XmitSize - 1
  BY <1>1, CountBetween
<1>3. /\ tail - head - 1 \in Int /\ -XmitSize <= tail - head - 1
      /\ tail - head - 1 < 2 * XmitSize
  BY <1>1 DEF UartConstants, Uart!Index
<1>4. Uart!Space = Wrap(tail - head - 1)
  BY <1>3, WrapOnce DEF Uart!Space
<1>5. QED
  BY <1>1, <1>2, <1>4 DEF Fits, Wrap, UartConstants, Uart!Index

(* What is written goes behind what is there, and overwrites none of it. *)
LEMMA WriteAppends ==
  ASSUME UartConstants, Uart!TypeOK, NEW n \in 0 .. XmitSize - 1,
         Uart!CharsPending(head, tail) + n <= XmitSize - 1
  PROVE  /\ HeadAfter(n) \in Uart!Index
         /\ Held(BufAfter(n), HeadAfter(n), tail) = Uart!Pending \o Fresh(n)
<1> DEFINE count == Uart!CharsPending(head, tail)
           h     == HeadAfter(n)
           b     == BufAfter(n)
<1>1. head \in Uart!Index /\ tail \in Uart!Index
  BY DEF Uart!TypeOK
<1>2. /\ count = IF tail <= head THEN head - tail ELSE head - tail + XmitSize
      /\ count \in 0 .. XmitSize - 1 /\ count + n <= XmitSize - 1
  BY <1>1, CountBetween
<1>3. h = Wrap(head + n) /\ h \in Uart!Index
  BY <1>1, SlotOf DEF HeadAfter, UartConstants
<1>4. Uart!CharsPending(h, tail) = IF tail <= h THEN h - tail ELSE h - tail + XmitSize
  BY <1>1, <1>3, CountBetween
<1>5. Uart!Pending = [i \in 1 .. count |-> uart_buf[(tail + i - 1) % XmitSize]]
  BY DEF Uart!Pending
<1> HIDE DEF count, h
<1>6. Uart!CharsPending(h, tail) = count + n
  BY <1>1, <1>2, <1>3, <1>4 DEF Wrap, UartConstants, Uart!Index
<1>7. ASSUME NEW i \in 1 .. count + n
      PROVE  b[(tail + i - 1) % XmitSize]
               = IF i <= count THEN uart_buf[(tail + i - 1) % XmitSize] ELSE written + 1 + (i - count) - 1
  <2> DEFINE slot == (tail + i - 1) % XmitSize
             k    == (slot - head) % XmitSize
  <2>1. i - 1 \in 0 .. XmitSize /\ tail + (i - 1) = tail + i - 1
    BY <1>1, <1>2 DEF UartConstants, Uart!Index
  <2>2. slot = Wrap(tail + i - 1) /\ slot \in Uart!Index
    BY <1>1, <2>1, SlotOf
  <2>3. b[slot] = IF k < n THEN written + 1 + k ELSE uart_buf[slot]
    BY <2>2 DEF BufAfter
  <2> HIDE DEF slot, b
  <2>4. slot - head \in Int /\ -XmitSize <= slot - head /\ slot - head < 2 * XmitSize
    BY <1>1, <2>2 DEF UartConstants, Uart!Index
  <2>5. k = Wrap(slot - head)
    BY <2>4, WrapOnce
  <2> HIDE DEF k
  <2>6. IF i <= count THEN k >= n ELSE k = i - count - 1
    BY <1>1, <1>2, <2>2, <2>5 DEF Wrap, UartConstants, Uart!Index
  <2>7. k \in Int /\ n \in Int /\ written \in Int /\ count \in Int
    BY <1>1, <1>2, <2>2, <2>5 DEF Wrap, UartConstants, Uart!Index, Uart!TypeOK
  <2>8. b[slot] = IF i <= count THEN uart_buf[slot] ELSE written + 1 + (i - count) - 1
    BY <1>2, <2>3, <2>6, <2>7 DEF UartConstants
  <2>9. QED
    BY <2>8 DEF slot
<1>8. Held(b, h, tail) = [i \in 1 .. count + n |-> b[(tail + i - 1) % XmitSize]]
  BY <1>6 DEF Held
<1> HIDE DEF b
<1>9. Uart!Pending \o Fresh(n) = Held(b, h, tail)
  <2>1. Len(Uart!Pending) = count /\ Len(Fresh(n)) = n /\ n \in Nat /\ count \in Nat
    BY <1>2, <1>5 DEF Fresh, UartConstants
  <2>2. Uart!Pending \o Fresh(n)
          = [i \in 1 .. count + n |-> IF i <= count THEN Uart!Pending[i] ELSE Fresh(n)[i - count]]
    BY <1>5, <2>1 DEF Fresh
  <2>3. ASSUME NEW i \in 1 .. count + n
        PROVE  b[(tail + i - 1) % XmitSize]
                 = IF i <= count THEN Uart!Pending[i] ELSE Fresh(n)[i - count]
    <3>1. CASE i <= count
      BY <1>5, <1>7, <2>1, <3>1
    <3>2. CASE ~(i <= count)
      <4>1. i - count \in 1 .. n
        BY <2>1, <3>2
      <4>2. QED
        BY <1>7, <3>2, <4>1 DEF Fresh
    <3>3. QED
      BY <3>1, <3>2
  <2>4. QED
    BY <1>8, <2>2, <2>3
<1>10. QED
  BY <1>3, <1>9 DEF b, h

-----------------------------------------------------------------------------
(* Every slot between the tail and the head holds a character that was written. *)
UartInv == Uart!TypeOK /\ Uart!Pending \in Seq(1 .. LastChar)

Free == FlipRoom - Len(flip)
Arrives(n) == IF n < Free THEN n ELSE Free

(* What a call of start_tx takes from the line, and what arrives of it. *)
Taken(all, n, rest, inbox) ==
  /\ n <= Len(all)
  /\ rest = SubSeq(all, n + 1, Len(all))
  /\ inbox = flip \o SubSeq(all, 1, Arrives(n))

LEMMA PrefixTyped ==
  ASSUME NEW Char, NEW all \in Seq(Char), NEW n \in 0 .. Len(all)
  PROVE  SubSeq(all, 1, n) \in Seq(Char) /\ Len(SubSeq(all, 1, n)) = n
<1>1. n \in Nat /\ Len(all) \in Nat /\ \A i \in 1 .. n : all[i] \in Char
  OBVIOUS
<1>2. /\ SubSeq(all, 1, n) \in Seq(Char)
      /\ Len(SubSeq(all, 1, n)) = IF 1 <= n THEN n - 1 + 1 ELSE 0
  BY <1>1, SubSeqProperties
<1>3. QED
  BY <1>1, <1>2

LEMMA NothingTaken ==
  ASSUME UartConstants, Uart!TypeOK, NEW Char, NEW all \in Seq(Char)
  PROVE  Taken(all, 0, all, flip)
<1>1. Arrives(0) = 0 /\ 0 + 1 = 1
  BY DEF Arrives, Free, UartConstants, Uart!TypeOK
<1>2. SubSeq(all, 1, Len(all)) = all /\ SubSeq(all, 1, 0) = <<>> /\ 0 <= Len(all)
  BY SubSeqFull, SubSeqEmpty
<1>3. flip \o <<>> = flip
  BY ConcatEmptySeq DEF Uart!TypeOK
<1>4. QED
  BY <1>1, <1>2, <1>3, Zenon DEF Taken

LEMMA SomeTaken ==
  ASSUME UartConstants, Uart!TypeOK, NEW all \in Seq(1 .. LastChar), NEW n \in 0 .. Len(all)
  PROVE  /\ Uart!Insert(SubSeq(all, 1, n)) = flip \o SubSeq(all, 1, Arrives(n))
         /\ Uart!Insert(SubSeq(all, 1, n)) \in Seq(1 .. LastChar)
         /\ Len(Uart!Insert(SubSeq(all, 1, n))) <= FlipRoom
<1> DEFINE chars == SubSeq(all, 1, n)
           some  == Arrives(n)
<1>1. Free \in Nat /\ flip \in Seq(1 .. LastChar) /\ Len(flip) + Free = FlipRoom /\ Len(flip) \in Nat
  BY DEF Free, UartConstants, Uart!TypeOK
<1>2. Len(all) \in Nat /\ n \in Nat /\ some \in 0 .. n /\ some <= Free /\ some \in Nat /\ some \in 0 .. Len(all)
  BY <1>1 DEF Arrives
<1>3. chars \in Seq(1 .. LastChar) /\ Len(chars) = n
  BY <1>2, PrefixTyped
<1>4. SubSeq(chars, 1, some) = SubSeq(all, 1, some)
  BY <1>2, <1>3
<1>5. Uart!Insert(chars) = flip \o SubSeq(all, 1, some)
  <2>1. (IF Len(chars) < Free THEN Len(chars) ELSE Free) = some
    BY <1>3 DEF Arrives
  <2>2. Uart!Insert(chars) = flip \o SubSeq(chars, 1, IF Len(chars) < Free THEN Len(chars) ELSE Free)
    BY Zenon DEF Uart!Insert, Free
  <2>3. QED
    BY <1>4, <2>1, <2>2, Zenon
<1>6. SubSeq(all, 1, some) \in Seq(1 .. LastChar) /\ Len(SubSeq(all, 1, some)) = some
  BY <1>2, PrefixTyped
<1>7. /\ flip \o SubSeq(all, 1, some) \in Seq(1 .. LastChar)
      /\ Len(flip \o SubSeq(all, 1, some)) = Len(flip) + some
  BY <1>1, <1>6, ConcatProperties
<1>8. Len(flip) + some <= FlipRoom
  BY <1>1, <1>2
<1>9. QED
  BY <1>5, <1>7, <1>8, Zenon

(* virt_uart_start_tx takes from the front of the line, or nothing. *)
LEMMA StartTxTakes ==
  ASSUME UartConstants, Uart!TypeOK, NEW b, NEW h \in Uart!Index, NEW stop,
         Held(b, h, tail) \in Seq(1 .. LastChar), Uart!StartTx(b, h, stop)
  PROVE  /\ tail' \in Uart!Index /\ x_char' \in BOOLEAN
         /\ flip' \in Seq(1 .. LastChar) /\ Len(flip') <= FlipRoom
         /\ \E n \in 0 .. XmitSize - 1 : Taken(Held(b, h, tail), n, Held(b, h, tail'), flip')
<1>1. CASE x_char \/ h = tail \/ stop
  <2>1. x_char' = FALSE /\ tail' = tail /\ flip' = flip
    BY <1>1 DEF Uart!StartTx
  <2>2. Taken(Held(b, h, tail), 0, Held(b, h, tail), flip)
    BY NothingTaken
  <2>3. 0 \in 0 .. XmitSize - 1
    BY DEF UartConstants
  <2>4. QED
    BY <2>1, <2>2, <2>3 DEF Uart!TypeOK
<1>2. CASE ~(x_char \/ h = tail \/ stop)
  <2> DEFINE count == Uart!CharsPending(h, tail)
             n     == Uart!Burst(count)
  <2>1. tail \in Uart!Index /\ count \in 0 .. XmitSize - 1
    BY CountBetween DEF Uart!TypeOK
  <2>2. n \in 0 .. count
    BY <2>1 DEF Uart!Burst, UartConstants
  <2>3. Len(Held(b, h, tail)) = count
    BY <2>1 DEF Held, UartConstants
  <2>4. /\ flip' = Uart!Insert([i \in 1 .. n |-> b[Uart!Advance(tail, i - 1)]])
        /\ tail' = Uart!Advance(tail, n)
        /\ x_char' = x_char
    BY <1>2 DEF Uart!StartTx
  <2> HIDE DEF count, n
  <2>0. n \in 0 .. Uart!CharsPending(h, tail)
    BY <2>2 DEF count
  <2>5. /\ tail' \in Uart!Index
        /\ flip' = Uart!Insert(SubSeq(Held(b, h, tail), 1, n))
        /\ Held(b, h, tail') = SubSeq(Held(b, h, tail), n + 1, Len(Held(b, h, tail)))
    <3>1. /\ Uart!Advance(tail, n) \in Uart!Index
          /\ [i \in 1 .. n |-> b[Uart!Advance(tail, i - 1)]] = SubSeq(Held(b, h, tail), 1, n)
          /\ Held(b, h, Uart!Advance(tail, n)) = SubSeq(Held(b, h, tail), n + 1, Len(Held(b, h, tail)))
      BY <2>0, <2>1, AdvanceTakes
    <3>2. QED
      BY <2>4, <3>1, Zenon
  <2>6. /\ flip' = flip \o SubSeq(Held(b, h, tail), 1, Arrives(n))
        /\ flip' \in Seq(1 .. LastChar) /\ Len(flip') <= FlipRoom
    BY <2>2, <2>3, <2>5, SomeTaken
  <2>7. Taken(Held(b, h, tail), n, Held(b, h, tail'), flip')
    <3>1. n <= Len(Held(b, h, tail))
      BY <2>1, <2>2, <2>3 DEF UartConstants
    <3>2. QED
      BY <2>5, <2>6, <3>1, Zenon DEF Taken
  <2>8. n \in 0 .. XmitSize - 1
    BY <2>1, <2>2 DEF UartConstants
  <2>9. QED
    BY <2>4, <2>5, <2>6, <2>7, <2>8 DEF Uart!TypeOK
<1>3. QED
  BY <1>1, <1>2

-----------------------------------------------------------------------------
(* When m characters are written and a call of start_tx takes from what is   *)
(* then on the line, the loopback line carries as many.                      *)
LEMMA LineCarries ==
  ASSUME UartConstants, UartInv, NEW m \in 0 .. XmitSize - 1, written' = written + m,
         Len(Uart!Pending) + m <= XmitSize - 1,
         \E n \in 0 .. XmitSize - 1 : Taken(Uart!Pending \o Fresh(m), n, Uart!Pending', flip')
  PROVE  Uart!Line!Next
<1>1. PICK n \in 0 .. XmitSize - 1 : Taken(Uart!Pending \o Fresh(m), n, Uart!Pending', flip')
  OBVIOUS
<1>2. written' + 1 = written + 1 + m
  BY DEF UartInv, Uart!TypeOK
<1>3. Uart!Line!Carry(m, n)
  <2>1. Arrives(n) = IF n < FlipRoom - Len(flip) THEN n ELSE FlipRoom - Len(flip)
    BY DEF Arrives, Free
  <2>2. QED
    BY <1>1, <1>2, <2>1, Zenon DEF Taken, Uart!Line!Carry, Fresh
<1>4. QED
  BY <1>1, <1>3 DEF Uart!Line!Next

LEMMA FreshTyped ==
  ASSUME UartConstants, Uart!TypeOK, NEW n \in 0 .. XmitSize - 1, written + n <= LastChar
  PROVE  /\ Fresh(n) \in Seq(1 .. LastChar)
         /\ BufAfter(n) \in [Uart!Index -> 0 .. LastChar]
<1>1. written \in 0 .. LastChar /\ n \in Nat
  BY DEF Uart!TypeOK, UartConstants
<1>2. \A i \in 1 .. n : written + 1 + i - 1 \in 1 .. LastChar
  BY <1>1 DEF UartConstants
<1>3. Fresh(n) \in Seq(1 .. LastChar)
  BY <1>1, <1>2, IsASeq DEF Fresh
<1>4. ASSUME NEW i \in Uart!Index
      PROVE  (LET k == (i - head) % XmitSize
              IN  IF k < n THEN written + 1 + k ELSE uart_buf[i]) \in 0 .. LastChar
  <2> DEFINE k == (i - head) % XmitSize
  <2>1. i - head \in Int /\ -XmitSize <= i - head /\ i - head < 2 * XmitSize
    BY DEF UartConstants, Uart!Index, Uart!TypeOK
  <2>2. k = Wrap(i - head)
    BY <2>1, WrapOnce
  <2>3. k \in 0 .. XmitSize - 1
    BY <2>2 DEF Wrap, UartConstants, Uart!Index, Uart!TypeOK
  <2> HIDE DEF k
  <2>4. uart_buf[i] \in 0 .. LastChar
    BY DEF Uart!TypeOK
  <2>5. (IF k < n THEN written + 1 + k ELSE uart_buf[i]) \in 0 .. LastChar
    BY <1>1, <2>3, <2>4 DEF UartConstants
  <2>6. QED
    BY <2>5 DEF k
<1>5. QED
  BY <1>3, <1>4 DEF BufAfter

(* What is left on the line is still made of written characters. *)
LEMMA RestTyped ==
  ASSUME NEW Char, NEW all \in Seq(Char), NEW n \in Nat, NEW rest, NEW inbox, Taken(all, n, rest, inbox)
  PROVE  rest \in Seq(Char)
<1>1. n + 1 \in Int /\ Len(all) \in Int /\ \A i \in n + 1 .. Len(all) : all[i] \in Char
  OBVIOUS
<1>2. SubSeq(all, n + 1, Len(all)) \in Seq(Char)
  BY <1>1, SubSeqProperties
<1>3. QED
  BY <1>2 DEF Taken

(* A step that writes m characters, none of them when m is 0, and may call  *)
(* start_tx afterwards.                                                     *)
LEMMA WriteAndTake ==
  ASSUME UartConstants, UartInv, NEW m \in 0 .. XmitSize - 1, written' = written + m, written + m <= LastChar,
         Uart!CharsPending(head, tail) + m <= XmitSize - 1,
         NEW b, NEW h \in Uart!Index, NEW stop, uart_buf' = b, head' = h,
         b \in [Uart!Index -> 0 .. LastChar],
         Held(b, h, tail) = Uart!Pending \o Fresh(m),
         stopped' \in BOOLEAN,
         \/ Uart!StartTx(b, h, stop)
         \/ UNCHANGED <<tail, flip, x_char>>
  PROVE  UartInv' /\ Uart!Line!Next
<1> DEFINE all == Uart!Pending \o Fresh(m)
<1>1. all \in Seq(1 .. LastChar)
  BY FreshTyped, ConcatProperties DEF UartInv
<1>2. /\ tail' \in Uart!Index /\ x_char' \in BOOLEAN
      /\ flip' \in Seq(1 .. LastChar) /\ Len(flip') <= FlipRoom
      /\ \E n \in 0 .. XmitSize - 1 : Taken(Held(b, h, tail), n, Held(b, h, tail'), flip')
  <2>1. CASE Uart!StartTx(b, h, stop)
    BY <1>1, <2>1, StartTxTakes DEF UartInv
  <2>2. CASE UNCHANGED <<tail, flip, x_char>>
    <3>1. Taken(Held(b, h, tail), 0, Held(b, h, tail), flip)
      BY <1>1, NothingTaken DEF UartInv
    <3>2. 0 \in 0 .. XmitSize - 1
      BY DEF UartConstants
    <3>3. QED
      BY <2>2, <3>1, <3>2 DEF UartInv, Uart!TypeOK
  <2>3. QED
    BY <2>1, <2>2
<1>3. Uart!Pending' = Held(b, h, tail')
  BY DEF Uart!Pending, Held, Uart!CharsPending
<1>4. PICK n \in 0 .. XmitSize - 1 : Taken(all, n, Uart!Pending', flip')
  BY <1>2, <1>3
<1>5. Uart!Pending' \in Seq(1 .. LastChar)
  <2>1. n \in Nat
    BY <1>4 DEF UartConstants
  <2>2. QED
    BY <1>1, <1>4, <2>1, RestTyped
<1>6. Uart!TypeOK'
  <2>1. written' \in 0 .. LastChar
    BY DEF UartInv, Uart!TypeOK, UartConstants
  <2>2. QED
    BY <1>2, <2>1 DEF Uart!TypeOK, Uart!Index
<1>7. Len(Uart!Pending) = Uart!CharsPending(head, tail)
  <2>1. Uart!CharsPending(head, tail) \in Nat
    BY CountBetween DEF UartInv, Uart!TypeOK, UartConstants
  <2>2. QED
    BY <2>1 DEF Uart!Pending
<1>8. Uart!Line!Next
  BY <1>4, <1>7, LineCarries
<1>9. QED
  BY <1>5, <1>6, <1>8 DEF UartInv

(* A call of start_tx that nothing was written for. *)
LEMMA TakeOnly ==
  ASSUME UartConstants, UartInv, NEW stop, Uart!StartTx(uart_buf, head, stop), stopped' \in BOOLEAN,
         UNCHANGED <<uart_buf, head, written>>
  PROVE  UartInv' /\ Uart!Line!Next
<1>1. /\ uart_buf \in [Uart!Index -> 0 .. LastChar] /\ head \in Uart!Index /\ tail \in Uart!Index
      /\ written \in 0 .. LastChar /\ Uart!Pending \in Seq(1 .. LastChar)
  BY DEF UartInv, Uart!TypeOK
<1>2. /\ 0 \in 0 .. XmitSize - 1 /\ written' = written + 0 /\ written + 0 <= LastChar
      /\ Uart!CharsPending(head, tail) + 0 <= XmitSize - 1
  BY <1>1, CountBetween DEF UartConstants
<1>3. Fresh(0) = <<>>
  BY DEF Fresh
<1>4. Held(uart_buf, head, tail) = Uart!Pending \o Fresh(0)
  BY <1>1, <1>3, PendingHeld, ConcatEmptySeq
<1>5. QED
  BY <1>1, <1>2, <1>4, WriteAndTake

LEMMA UartInit ==
  ASSUME UartConstants, Uart!Init
  PROVE  UartInv /\ Uart!Line!Init
<1>1. Uart!TypeOK
  <2>1. 0 \in Uart!Index /\ 0 \in 0 .. LastChar
    BY DEF Uart!Index, UartConstants
  <2>2. flip \in Seq(1 .. LastChar) /\ Len(flip) <= FlipRoom
    BY DEF Uart!Init, UartConstants
  <2>3. QED
    BY <2>1, <2>2 DEF Uart!Init, Uart!TypeOK
<1>2. Uart!CharsPending(head, tail) = 0
  BY CountBetween, <1>1 DEF Uart!Init, Uart!TypeOK
<1>3. Uart!Pending = <<>>
  BY <1>2 DEF Uart!Pending
<1>4. written + 1 = 1 /\ flip = <<>>
  BY DEF Uart!Init
<1>5. QED
  BY <1>1, <1>3, <1>4 DEF UartInv, Uart!Line!Init

(* Nothing that the line knows of changes. *)
LEMMA LineStays ==
  ASSUME UartInv, UNCHANGED <<uart_buf, head, tail, flip, written>>, x_char' \in BOOLEAN, stopped' \in BOOLEAN
  PROVE  UartInv' /\ UNCHANGED Uart!Line!vars
<1>1. Uart!Pending' = Uart!Pending
  BY DEF Uart!Pending, Uart!CharsPending
<1>2. QED
  BY <1>1 DEF UartInv, Uart!TypeOK, Uart!Line!vars

(* Each step of the port keeps the invariant and is one of the loopback line. *)
LEMMA UartNext ==
  ASSUME UartConstants, UartInv, Uart!Next
  PROVE  UartInv' /\ (Uart!Line!Next \/ UNCHANGED Uart!Line!vars)
<1>2. CASE Uart!NoteXchar \/ Uart!StopTx
  BY <1>2, LineStays DEF Uart!NoteXchar, Uart!StopTx, UartInv, Uart!TypeOK
<1>3. ASSUME NEW asked \in 1 .. XmitSize, Uart!Write(asked)
      PROVE  UartInv' /\ Uart!Line!Next
  <2> DEFINE n == Fits(asked)
  <2>1. Uart!TypeOK
    BY DEF UartInv
  <2>2. n \in 0 .. XmitSize - 1 /\ Uart!CharsPending(head, tail) + n <= XmitSize - 1
    BY <2>1, FitsInSpace
  <2>3. /\ written + n <= LastChar /\ uart_buf' = BufAfter(n) /\ head' = HeadAfter(n)
        /\ written' = written + n /\ stopped' = stopped
        /\ IF stopped THEN UNCHANGED <<tail, flip, x_char>>
                      ELSE Uart!StartTx(BufAfter(n), HeadAfter(n), FALSE)
    BY <1>3, Zenon DEF Uart!Write, Fits, BufAfter, HeadAfter
  <2> HIDE DEF n
  <2>4. HeadAfter(n) \in Uart!Index /\ Held(BufAfter(n), HeadAfter(n), tail) = Uart!Pending \o Fresh(n)
    BY <2>1, <2>2, WriteAppends
  <2>5. BufAfter(n) \in [Uart!Index -> 0 .. LastChar]
    BY <2>1, <2>2, <2>3, FreshTyped
  <2>6. stopped' \in BOOLEAN
    BY <2>1, <2>3 DEF Uart!TypeOK
  <2>7. Uart!StartTx(BufAfter(n), HeadAfter(n), FALSE) \/ UNCHANGED <<tail, flip, x_char>>
    BY <2>3
  <2>8. QED
    BY <2>2, <2>3, <2>4, <2>5, <2>6, <2>7, WriteAndTake
<1>4. CASE Uart!SendXchar
  <2>1. stopped' \in BOOLEAN
    BY <1>4 DEF Uart!SendXchar, UartInv, Uart!TypeOK
  <2>2. QED
    BY <1>4, <2>1, TakeOnly DEF Uart!SendXchar
<1>5. CASE Uart!TtyStart
  <2>1. stopped' \in BOOLEAN
    BY <1>5 DEF Uart!TtyStart
  <2>2. QED
    BY <1>5, <2>1, TakeOnly DEF Uart!TtyStart
<1>6. CASE Uart!FlushBuffer
  <2>1. 0 \in Uart!Index
    BY DEF Uart!Index, UartConstants
  <2>2. Uart!CharsPending(0, 0) = 0
    BY <2>1, CountBetween
  <2>3. Uart!Pending' = <<>>
    BY <1>6, <2>2 DEF Uart!FlushBuffer, Uart!Pending, Uart!CharsPending
  <2>4. Uart!Line!Flush
    BY <1>6, <2>3 DEF Uart!FlushBuffer, Uart!Line!Flush
  <2>5. UartInv'
    BY <1>6, <2>1, <2>3 DEF Uart!FlushBuffer, UartInv, Uart!TypeOK
  <2>6. QED
    BY <2>4, <2>5 DEF Uart!Line!Next
<1>7. ASSUME NEW n \in 1 .. FlipRoom, Uart!Read(n)
      PROVE  UartInv' /\ Uart!Line!Next
  <2>1. Uart!Pending' = Uart!Pending
    BY <1>7 DEF Uart!Read, Uart!Pending, Uart!CharsPending
  <2>2. Uart!Line!Receive(n)
    BY <1>7, <2>1 DEF Uart!Read, Uart!Line!Receive
  <2>3. flip' \in Seq(1 .. LastChar) /\ Len(flip') <= FlipRoom
    BY <1>7 DEF Uart!Read, UartInv, Uart!TypeOK, UartConstants
  <2>4. UartInv'
    BY <1>7, <2>1, <2>3 DEF Uart!Read, UartInv, Uart!TypeOK
  <2>5. QED
    BY <2>2, <2>4 DEF Uart!Line!Next
<1>8. QED
  BY <1>2, <1>3, <1>4, <1>5, <1>6, <1>7, Zenon DEF Uart!Next

LEMMA UartRefines ==
  ASSUME UartConstants
  PROVE  UartInv /\ [Uart!Next]_(Uart!vars) => UartInv' /\ [Uart!Line!Next]_(Uart!Line!vars)
<1>1. UartInv /\ UNCHANGED Uart!vars => UartInv' /\ UNCHANGED Uart!Line!vars
  BY LineStays DEF Uart!vars, UartInv, Uart!TypeOK
<1>2. UartInv /\ Uart!Next => UartInv' /\ (Uart!Line!Next \/ UNCHANGED Uart!Line!vars)
  BY UartNext
<1>3. QED
  BY <1>1, <1>2
=============================================================================
