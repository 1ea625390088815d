---------------------------- MODULE CharDevProofs -----------------------------
(***************************************************************************)
(* Theorems about CharDev, for any buffer size, any number of processes    *)
(* and any lengths and offsets; and about the test program of CharDevTest  *)
(* when a single process runs it.                                          *)
(***************************************************************************)
EXTENDS CharDevTest, TLAPS

(* A transfer goes from the file's position upwards. *)
Ahead == \A p \in Procs : job[p] \in {"write", "pad", "read"} => fpos[p] <= end[p]

IInv == TypeOK /\ InBounds /\ Ahead

-----------------------------------------------------------------------------
(* The clamp of lines 66-67 and 93-94 stays between the position and the end. *)
LEMMA ClampBounds ==
  ASSUME NEW pos \in Nat, NEW len \in Nat, pos < MemSize
  PROVE  Clamp(pos, len) \in Nat /\ pos <= Clamp(pos, len) /\ Clamp(pos, len) <= MemSize
BY CharDevAssumption DEF Clamp

(* What is left to copy lies in the buffer. *)
LEMMA CopyInBuffer ==
  ASSUME IInv, NEW p \in Procs, job[p] \in {"open", "write", "pad", "read"}, at[p] < end[p]
  PROVE  at[p] \in Addr
BY CharDevAssumption DEF IInv, TypeOK, InBounds, Transferring, Addr

(* A call starts: what it will copy lies in the buffer and above the position. *)
LEMMA StartKeeps ==
  ASSUME IInv, NEW p \in Procs, NEW kind \in {"open", "write", "read"},
         NEW pos \in Nat, NEW first \in Nat, NEW last \in Nat,
         pos <= last, first <= last, last <= MemSize,
         Start(p, kind, first, last), fpos' = [fpos EXCEPT ![p] = pos]
  PROVE  /\ job' \in [Procs -> Jobs] /\ fpos' \in [Procs -> Nat]
         /\ at' \in [Procs -> Nat] /\ end' \in [Procs -> Nat]
         /\ InBounds' /\ Ahead'
<1> USE DEF IInv, TypeOK, Jobs
<1>1. /\ job' = [job EXCEPT ![p] = kind] /\ at' = [at EXCEPT ![p] = first]
      /\ end' = [end EXCEPT ![p] = last]
  BY DEF Start
<1>2. /\ job' \in [Procs -> Jobs] /\ fpos' \in [Procs -> Nat]
      /\ at' \in [Procs -> Nat] /\ end' \in [Procs -> Nat]
  BY <1>1
<1>3. InBounds'
  BY <1>1, CharDevAssumption DEF InBounds, Transferring
<1>4. Ahead'
  BY <1>1 DEF Ahead
<1>5. QED
  BY <1>2, <1>3, <1>4

(* The end of a call keeps the invariant if it leaves the position in range. *)
LEMMA FinishIInv ==
  ASSUME IInv, NEW p \in Procs, NEW result \in Int, Finish(p, result),
         NEW pos \in 0 .. MemSize, fpos' = [fpos EXCEPT ![p] = pos],
         mem' = mem, got' \in [Procs -> [Addr -> Procs \cup {0}]]
  PROVE  IInv'
<1> USE DEF IInv, TypeOK, Jobs, Finish
<1>1. TypeOK'
  <2>1. pos \in Nat /\ fpos' \in [Procs -> Nat]
    BY CharDevAssumption
  <2>2. job' \in [Procs -> Jobs] /\ ret' \in [Procs -> Int]
    OBVIOUS
  <2>3. at' \in [Procs -> Nat] /\ end' \in [Procs -> Nat]
    OBVIOUS
  <2>4. QED
    BY <2>1, <2>2, <2>3
<1>2. InBounds'
  BY CharDevAssumption DEF InBounds, Transferring
<1>3. Ahead'
  BY DEF Ahead
<1>4. QED
  BY <1>1, <1>2, <1>3

(* A byte is copied. *)
LEMMA StepKeeps ==
  ASSUME IInv, NEW p \in Procs, NEW kind \in {"open", "write", "pad", "read"}, Step(p, kind)
  PROVE  /\ at[p] \in Addr
         /\ at' \in [Procs -> Nat] /\ InBounds' /\ Ahead'
<1> USE DEF IInv, TypeOK, Step
<1>1. at[p] \in Addr
  BY CopyInBuffer
<1>2. at' = [at EXCEPT ![p] = at[p] + 1] /\ at' \in [Procs -> Nat]
  OBVIOUS
<1>3. InBounds'
  BY <1>2, CharDevAssumption DEF InBounds, Transferring
<1>4. Ahead'
  BY DEF Ahead
<1>5. QED
  BY <1>1, <1>2, <1>3, <1>4

LEMMA TransferIInv ==
  ASSUME IInv, NEW p \in Procs, NEW kind \in {"write", "read"}, NEW len \in 0 .. MaxLen,
         BeginTransfer(p, kind, len), got' \in [Procs -> [Addr -> Procs \cup {0}]]
  PROVE  IInv'
<1> USE DEF IInv, TypeOK
<1>1. fpos[p] \in Nat /\ len \in Nat /\ fpos' = [fpos EXCEPT ![p] = fpos[p]]
  BY CharDevAssumption DEF BeginTransfer
<1>2. CASE fpos[p] >= MemSize
  <2>1. Finish(p, 0) /\ mem' = mem
    BY <1>2 DEF BeginTransfer
  <2>2. fpos[p] \in 0 .. MemSize
    BY DEF InBounds
  <2>3. 0 \in Int
    OBVIOUS
  <2>4. QED
    BY <1>1, <2>1, <2>2, <2>3, FinishIInv
<1>3. CASE fpos[p] < MemSize
  <2> DEFINE last == Clamp(fpos[p], len)
  <2>1. last \in Nat /\ fpos[p] <= last /\ last <= MemSize
    BY <1>1, <1>3, ClampBounds
  <2>2. Start(p, kind, fpos[p], last) /\ mem' = mem /\ ret' = ret
    BY <1>1, <1>3, CharDevAssumption DEF BeginTransfer
  <2> HIDE DEF last
  <2>3. /\ job' \in [Procs -> Jobs] /\ fpos' \in [Procs -> Nat]
        /\ at' \in [Procs -> Nat] /\ end' \in [Procs -> Nat]
        /\ InBounds' /\ Ahead'
    BY <1>1, <2>1, <2>2, StartKeeps
  <2>4. QED
    BY <2>2, <2>3
<1>4. QED
  BY <1>1, <1>2, <1>3, CharDevAssumption

LEMMA ErrorCodes == -EINVAL \in Int /\ -EFAULT \in Int /\ -EFAULT < 0
BY DEF EINVAL, EFAULT

-----------------------------------------------------------------------------
LEMMA InitIInv == Init => IInv
BY CharDevAssumption DEF Init, IInv, TypeOK, InBounds, Transferring, Ahead, Jobs

LEMMA NextIInv == IInv /\ [Next]_vars => IInv'
<1> SUFFICES ASSUME IInv, [Next]_vars PROVE IInv'
  OBVIOUS
<1>1. CASE UNCHANGED vars
  BY <1>1 DEF vars, IInv, TypeOK, InBounds, Transferring, Ahead
<1>2. ASSUME NEW p \in Procs, Open(p) PROVE IInv'
  <2>1. PICK zero \in Nat, last \in Nat :
          /\ zero <= last /\ last <= MemSize
          /\ Start(p, "open", zero, last) /\ fpos' = [fpos EXCEPT ![p] = zero]
    <3>1. 0 \in Nat /\ MemSize \in Nat /\ 0 <= MemSize /\ MemSize <= MemSize
      BY CharDevAssumption
    <3>2. Start(p, "open", 0, MemSize) /\ fpos' = [fpos EXCEPT ![p] = 0]
      BY <1>2 DEF Open
    <3>3. QED
      BY <3>1, <3>2, Zenon
  <2>3. /\ job' \in [Procs -> Jobs] /\ fpos' \in [Procs -> Nat]
        /\ at' \in [Procs -> Nat] /\ end' \in [Procs -> Nat]
        /\ InBounds' /\ Ahead'
    BY <2>1, StartKeeps
  <2>4. QED
    BY <1>2, <2>3 DEF Open, IInv, TypeOK
<1>3. ASSUME NEW p \in Procs, OpenStep(p) \/ WriteStep(p) \/ PadStep(p) PROVE IInv'
  <2>1. PICK kind \in {"open", "write", "pad"} : Step(p, kind)
    BY <1>3 DEF OpenStep, WriteStep, PadStep
  <2>2. mem' \in [Addr -> Procs \cup {0}] /\ got' = got
    BY <1>3 DEF OpenStep, WriteStep, PadStep, IInv, TypeOK
  <2>3. at' \in [Procs -> Nat] /\ InBounds' /\ Ahead'
    BY <2>1, StepKeeps
  <2>4. QED
    BY <2>1, <2>2, <2>3 DEF Step, IInv, TypeOK
<1>4. ASSUME NEW p \in Procs, ReadStep(p) PROVE IInv'
  <2>1. Step(p, "read") /\ at[p] \in Addr /\ at' \in [Procs -> Nat] /\ InBounds' /\ Ahead'
    BY <1>4, StepKeeps DEF ReadStep
  <2>2. got' \in [Procs -> [Addr -> Procs \cup {0}]] /\ mem' = mem
    BY <1>4, <2>1 DEF ReadStep, IInv, TypeOK
  <2>3. QED
    BY <2>1, <2>2 DEF Step, IInv, TypeOK
<1>5. ASSUME NEW p \in Procs, Complete(p) PROVE IInv'
  <2> DEFINE pos    == IF job[p] = "open" THEN fpos[p] ELSE end[p]
             result == IF job[p] = "open" THEN 0 ELSE end[p] - fpos[p]
  <2>1. pos \in 0 .. MemSize /\ result \in Int
    BY <1>5, CharDevAssumption DEF Complete, IInv, TypeOK, InBounds, Transferring
  <2>2. Finish(p, result) /\ fpos' = [fpos EXCEPT ![p] = pos] /\ mem' = mem /\ got' = got
    BY <1>5 DEF Complete, IInv, TypeOK
  <2> HIDE DEF pos, result
  <2>3. QED
    BY <2>1, <2>2, FinishIInv DEF IInv, TypeOK
<1>6. ASSUME NEW p \in Procs, FaultEnds(p) \/ PadEnd(p) \/ SeekEnd(p) PROVE IInv'
  <2>1. PICK result \in Int : Finish(p, result)
    BY <1>6, ErrorCodes DEF FaultEnds, PadEnd, SeekEnd
  <2>2. fpos' = [fpos EXCEPT ![p] = fpos[p]] /\ mem' = mem /\ got' = got
    BY <1>6 DEF FaultEnds, PadEnd, SeekEnd, IInv, TypeOK
  <2>3. fpos[p] \in 0 .. MemSize /\ got \in [Procs -> [Addr -> Procs \cup {0}]]
    BY DEF IInv, InBounds, TypeOK
  <2>4. QED
    BY <2>1, <2>2, <2>3, FinishIInv
<1>7. ASSUME NEW p \in Procs, Release(p) PROVE IInv'
  BY <1>7 DEF Release, Jobs, IInv, TypeOK, InBounds, Transferring, Ahead
<1>8. ASSUME NEW p \in Procs, NEW offset \in Offsets,
             Seek(p, 0, offset) \/ Seek(p, fpos[p], offset)
      PROVE  IInv'
  <2>1. PICK base \in Nat : Seek(p, base, offset)
    BY <1>8 DEF IInv, TypeOK
  <2> DEFINE new == base + offset
  <2>2. new \in Int
    BY CharDevAssumption
  <2>3. /\ mem' = mem /\ got' \in [Procs -> [Addr -> Procs \cup {0}]]
        /\ fpos[p] \in 0 .. MemSize
    BY <2>1 DEF Seek, IInv, TypeOK, InBounds
  <2>4. CASE new < 0 \/ new >= MemSize
    <3>1. Finish(p, -EINVAL) /\ fpos' = [fpos EXCEPT ![p] = fpos[p]]
      BY <2>1, <2>4 DEF Seek, IInv, TypeOK
    <3>2. QED
      BY <2>3, <3>1, ErrorCodes, FinishIInv
  <2>5. CASE ~(new < 0 \/ new >= MemSize)
    <3>1. PICK pos \in 0 .. MemSize : Finish(p, pos) /\ fpos' = [fpos EXCEPT ![p] = pos]
      BY <2>1, <2>2, <2>5, CharDevAssumption DEF Seek
    <3>2. pos \in Int
      OBVIOUS
    <3>3. QED
      BY <2>3, <3>1, <3>2, FinishIInv
  <2>6. QED
    BY <2>4, <2>5
<1>9. ASSUME NEW p \in Procs, NEW len \in 0 .. MaxLen, Write(p, len) PROVE IInv'
  BY <1>9, TransferIInv DEF Write, IInv, TypeOK
<1>10. ASSUME NEW p \in Procs, NEW len \in 0 .. MaxLen, Read(p, len) PROVE IInv'
  <2>1. got' \in [Procs -> [Addr -> Procs \cup {0}]]
    BY <1>10 DEF Read, IInv, TypeOK
  <2>2. QED
    BY <1>10, <2>1, TransferIInv DEF Read
<1>11. ASSUME NEW p \in Procs, FaultPads(p) PROVE IInv'
  BY <1>11 DEF FaultPads, Jobs, IInv, TypeOK, InBounds, Transferring, Ahead
<1>12. QED
  BY <1>1, <1>2, <1>3, <1>4, <1>5, <1>6, <1>7, <1>8, <1>9, <1>10, <1>11
  DEF Next, Copy

LEMMA Invariance == Spec => []IInv
BY InitIInv, NextIInv, PTL DEF Spec

-----------------------------------------------------------------------------
(* Every variable keeps its type: the positions, ranges and counts of c-drv.c  *)
(* stay numbers whatever the openers do to each other's bytes.                 *)
THEOREM TypeCorrect == Spec => []TypeOK
<1>1. IInv => TypeOK
  BY DEF IInv
<1>2. QED
  BY <1>1, Invariance, PTL

(* No call touches a byte outside dev->mem (lines 50, 64-69, 91-96), however   *)
(* the position was left by earlier seeks, short transfers and faults.         *)
THEOREM InBoundsHolds == Spec => []InBounds
<1>1. IInv => InBounds
  BY DEF IInv
<1>2. QED
  BY <1>1, Invariance, PTL

(* The position moves by what read and write return (lines 69-76, 96-103). *)
THEOREM PositionFollowsResultHolds == Spec => PositionFollowsResult
<1> DEFINE A == \A p \in Procs :
                  job[p] \in {"write", "pad", "read"} /\ job'[p] = "idle" =>
                    fpos'[p] - fpos[p] = IF ret'[p] >= 0 THEN ret'[p] ELSE 0
<1>1. IInv /\ [Next]_vars => [A]_vars
  <2> SUFFICES ASSUME IInv, Next,
                      NEW p \in Procs, job[p] \in {"write", "pad", "read"}, job'[p] = "idle"
               PROVE  fpos'[p] - fpos[p] = IF ret'[p] >= 0 THEN ret'[p] ELSE 0
    OBVIOUS
  <2> USE DEF IInv, TypeOK, Jobs
  <2>1. Complete(p) \/ FaultEnds(p) \/ PadEnd(p)
    BY DEF Next, Copy, Open, OpenStep, WriteStep, ReadStep, PadStep, Step, Complete,
           FaultEnds, FaultPads, PadEnd, SeekEnd, Release, Seek, Write, Read, BeginTransfer, Start, Finish
  <2>2. CASE Complete(p)
    BY <2>2, CharDevAssumption DEF Complete, Finish, Ahead
  <2>3. CASE FaultEnds(p) \/ PadEnd(p)
    BY <2>3, ErrorCodes DEF FaultEnds, PadEnd, Finish
  <2>4. QED
    BY <2>1, <2>2, <2>3
<1>2. QED
  BY <1>1, Invariance, PTL DEF Spec, PositionFollowsResult

(* A byte is changed only by a write of that byte, the padding after a fault   *)
(* included, or by an open (line 50).                                          *)
THEOREM OnlyWritesAndOpensChangeMemHolds == Spec => OnlyWritesAndOpensChangeMem
<1> DEFINE A == \A a \in Addr : mem'[a] # mem[a] =>
                  \E p \in Procs : /\ at[p] = a
                                   /\ \/ job[p] \in {"open", "pad"} /\ mem'[a] = 0
                                      \/ job[p] = "write" /\ mem'[a] = p
<1>1. IInv /\ [Next]_vars => [A]_vars
  <2> SUFFICES ASSUME IInv, Next, NEW a \in Addr, mem'[a] # mem[a]
               PROVE  \E p \in Procs : /\ at[p] = a
                                       /\ \/ job[p] \in {"open", "pad"} /\ mem'[a] = 0
                                          \/ job[p] = "write" /\ mem'[a] = p
    OBVIOUS
  <2> USE DEF IInv, TypeOK
  <2>1. PICK p \in Procs : OpenStep(p) \/ WriteStep(p) \/ PadStep(p)
    BY DEF Next, Copy, Open, ReadStep, Complete, FaultEnds, FaultPads, PadEnd, SeekEnd, Release, Seek, Write,
           Read, BeginTransfer
  <2>2. at[p] = a
    BY <2>1 DEF OpenStep, WriteStep, PadStep
  <2>3. QED
    BY <2>1, <2>2 DEF OpenStep, WriteStep, PadStep, Step
<1>2. QED
  BY <1>1, Invariance, PTL DEF Spec, OnlyWritesAndOpensChangeMem

-----------------------------------------------------------------------------
(* The test program (test/main.c), run by one process p.                      *)

(* What p has done to the buffer, line by line. *)
Script(p) ==
  /\ line[p] \in Lines
  /\ line[p] \in {17, 31} => job[p] = "closed"
  /\ line[p] = 22 => job[p] \in {"open", "idle"}
  /\ line[p] \in {23, 26} => job[p] = "idle" /\ fpos[p] = 0
  /\ line[p] = 25 =>
       \/ job[p] = "idle"
       \/ job[p] = "write" /\ end[p] = MemSize /\ \A a \in Addr : a < at[p] => mem[a] = p
  /\ line[p] = 26 \/ (line[p] = 25 /\ job[p] = "idle") \/ (line[p] = 28 /\ job[p] = "read") =>
       \A a \in Addr : mem[a] = p
  /\ line[p] = 28 =>
       \/ job[p] = "read" /\ end[p] = MemSize /\ \A a \in Addr : a < at[p] => got[p][a] = p
       \/ job[p] = "idle" /\ \A a \in Addr : got[p][a] = p
  /\ line[p] = 30 => job[p] = "idle"

LineOK == line \in [Procs -> Lines]

(* The seek to 0 is never refused, and the full length fits from there. *)
LEMMA SeekToZero ==
  ASSUME IInv, NEW p \in Procs, Seek(p, 0, 0)
  PROVE  /\ job[p] = "idle" /\ job'[p] = "idle" /\ fpos'[p] = 0
         /\ mem' = mem /\ got' = got
<1>1. ~(0 + 0 < 0 \/ 0 + 0 >= MemSize)
  BY CharDevAssumption
<1>2. QED
  BY <1>1 DEF Seek, Finish, IInv, TypeOK

LEMMA FullTransfer ==
  ASSUME IInv, NEW p \in Procs, NEW kind, BeginTransfer(p, kind, MemSize), fpos[p] = 0
  PROVE  /\ job'[p] = kind /\ at'[p] = 0 /\ end'[p] = MemSize
         /\ mem' = mem
<1>1. MemSize \in Nat \ {0}
  BY CharDevAssumption
<1>2. Clamp(0, MemSize) = MemSize /\ ~(0 >= MemSize)
  BY <1>1 DEF Clamp
<1>3. Start(p, kind, 0, MemSize)
  BY <1>2 DEF BeginTransfer
<1>4. QED
  BY <1>3 DEF Start, BeginTransfer, IInv, TypeOK

LEMMA ScriptNext ==
  ASSUME NEW p, Procs = {p}, IInv, LineOK, Script(p), [TestNext]_testVars
  PROVE  LineOK' /\ Script(p)'
<1> USE DEF Lines, LineOK
<1>0. p \in Procs
  OBVIOUS
<1>1. CASE UNCHANGED testVars
  BY <1>1 DEF testVars, vars, Script
<1>2. CASE At(p, 17, 22) /\ Open(p)
  BY <1>2 DEF At, Open, Start, Script, IInv, TypeOK
<1>3. CASE At(p, 22, 23) /\ Seek(p, 0, 0)
  BY <1>0, <1>3, SeekToZero DEF At, Script
<1>4. CASE At(p, 23, 25) /\ Write(p, MemSize)
  <2>1. /\ job'[p] = "write" /\ at'[p] = 0 /\ end'[p] = MemSize /\ mem' = mem
    BY <1>0, <1>4, FullTransfer DEF At, Write, Script
  <2>2. \A a \in Addr : ~(a < at'[p])
    BY <2>1, CharDevAssumption DEF Addr
  <2>3. LineOK' /\ line'[p] = 25
    BY <1>4 DEF At
  <2>4. QED
    BY <2>1, <2>2, <2>3 DEF Script
<1>5. CASE At(p, 25, 26) /\ Seek(p, 0, 0)
  BY <1>0, <1>5, SeekToZero DEF At, Script
<1>6. CASE At(p, 26, 28) /\ Read(p, MemSize)
  <2>1. /\ job'[p] = "read" /\ at'[p] = 0 /\ end'[p] = MemSize /\ mem' = mem
    BY <1>0, <1>6, FullTransfer DEF At, Read, Script
  <2>2. \A a \in Addr : ~(a < at'[p])
    BY <2>1, CharDevAssumption DEF Addr
  <2>3. LineOK' /\ line'[p] = 28 /\ \A a \in Addr : mem[a] = p
    BY <1>6 DEF At, Script
  <2>4. QED
    BY <2>1, <2>2, <2>3 DEF Script
<1>7. CASE At(p, 28, 30) /\ job[p] = "idle" /\ UNCHANGED vars
  BY <1>7 DEF At, vars, Script
<1>8. CASE At(p, 30, 31) /\ Release(p)
  BY <1>8 DEF At, Release, Script, IInv, TypeOK
<1>9. CASE OpenStep(p) /\ UNCHANGED line
  BY <1>9 DEF OpenStep, Step, Script
<1>10. CASE WriteStep(p) /\ UNCHANGED line
  <2>1. at[p] \in Addr /\ at'[p] = at[p] + 1 /\ mem' = [mem EXCEPT ![at[p]] = p]
    BY <1>10, CopyInBuffer DEF WriteStep, Step, IInv, TypeOK
  <2>2. line[p] = 25 /\ \A a \in Addr : a < at[p] => mem[a] = p
    BY <1>10 DEF WriteStep, Step, Script
  <2>3. \A a \in Addr : a < at'[p] => mem'[a] = p
    BY <2>1, <2>2, CharDevAssumption DEF Addr, IInv, TypeOK
  <2>4. QED
    BY <1>10, <2>2, <2>3 DEF WriteStep, Step, Script
<1>11. CASE ReadStep(p) /\ UNCHANGED line
  <2>1. at[p] \in Addr /\ at'[p] = at[p] + 1 /\ got'[p] = [got[p] EXCEPT ![at[p]] = mem[at[p]]]
    BY <1>11, CopyInBuffer DEF ReadStep, Step, IInv, TypeOK
  <2>2. /\ line[p] = 28 /\ \A a \in Addr : mem[a] = p
        /\ \A a \in Addr : a < at[p] => got[p][a] = p
    BY <1>11 DEF ReadStep, Step, Script
  <2>3. \A a \in Addr : a < at'[p] => got'[p][a] = p
    BY <2>1, <2>2, CharDevAssumption DEF Addr, IInv, TypeOK
  <2>4. QED
    BY <1>11, <2>2, <2>3 DEF ReadStep, Step, Script
<1>12. CASE Complete(p) /\ UNCHANGED line
  <2>1. /\ job'[p] = "idle" /\ mem' = mem /\ got' = got
        /\ job[p] \in {"open", "write", "read"} /\ at[p] = end[p]
    BY <1>12 DEF Complete, Finish, IInv, TypeOK
  <2>2. end[p] = MemSize => \A a \in Addr : a < at[p]
    BY <2>1, CharDevAssumption DEF Addr
  <2>3. QED
    BY <1>12, <2>1, <2>2 DEF Script
<1>13. QED
  BY <1>1, <1>2, <1>3, <1>4, <1>5, <1>6, <1>7, <1>8, <1>9, <1>10, <1>11, <1>12
     DEF TestNext, Main, Copy

(* The test program calls the driver as any process may. *)
LEMMA TestIsUse ==
  ASSUME MemSize <= MaxLen, 0 \in Offsets
  PROVE  TestSpec => Spec
<1>0. MemSize \in 0 .. MaxLen
  BY CharDevAssumption
<1>1. TestInit => Init
  BY DEF TestInit
<1>2. [TestNext]_testVars => [Next]_vars
  BY <1>0 DEF TestNext, Main, Next, testVars
<1>3. QED
  BY <1>1, <1>2, PTL DEF TestSpec, Spec

(* The assertion of test/main.c:28 holds for a process that has the device to  *)
(* itself, for a buffer of any size: it is only another process's open (line   *)
(* 50 of c-drv.c) that makes it fail.  The hypotheses only say that the calls  *)
(* of the test are among those the model makes.                                 *)
THEOREM AssertionHoldsAlone ==
  ASSUME NEW p, Procs = {p}, MemSize <= MaxLen, 0 \in Offsets
  PROVE  TestSpec => []AssertionHolds
<1> DEFINE S == LineOK /\ Script(p)
<1>1. TestInit => S
  BY DEF TestInit, Init, LineOK, Lines, Script
<1>2. IInv /\ S /\ [TestNext]_testVars => S'
  BY ScriptNext
<1>3. S => AssertionHolds
  BY CharDevAssumption DEF Script, AssertionHolds
<1> HIDE DEF S
<1>4. TestSpec => []IInv
  BY TestIsUse, Invariance, PTL
<1>5. QED
  BY <1>1, <1>2, <1>3, <1>4, PTL DEF TestSpec
=============================================================================
