------------------------------ MODULE CharDev -------------------------------
(***************************************************************************)
(* The memory-backed character device of c-drv.c: one buffer shared by all *)
(* openers, erased by every open, read and written at each file's own      *)
(* position.  Nothing serialises the openers, so the memset and the copies *)
(* run byte by byte and interleave.                                        *)
(***************************************************************************)
EXTENDS Integers

CONSTANTS
  Procs,      \* processes, each with one open file at most
  MemSize,    \* MEM_SIZE
  MaxLen,     \* longest transfer asked for
  Offsets     \* offsets passed to lseek

ASSUME CharDevAssumption ==
  /\ MemSize \in Nat \ {0}
  /\ MaxLen \in Nat
  /\ Offsets \subseteq Int
  /\ 0 \notin Procs

Addr == 0 .. MemSize - 1

EINVAL == 22
EFAULT == 14

VARIABLES
  mem,    \* dev->mem: 0, or the process that wrote the byte
  fpos,   \* the file position of each process
  job,    \* the call in progress: what it does to the bytes at .. end - 1
  at, end,
  ret,    \* the result of the last call
  got     \* the bytes the last read copied out: a function on some addresses

vars == <<mem, fpos, job, at, end, ret, got>>

Jobs == {"closed", "idle", "open", "write", "pad", "read"}

TypeOK ==
  /\ mem  \in [Addr -> Procs \cup {0}]
  /\ fpos \in [Procs -> Nat]
  /\ job  \in [Procs -> Jobs]
  /\ at   \in [Procs -> Nat]
  /\ end  \in [Procs -> Nat]
  /\ ret  \in [Procs -> Int]
  /\ got  \in [Procs -> [Addr -> Procs \cup {0}]]

Init ==
  /\ mem  = [a \in Addr |-> 0]
  /\ fpos = [p \in Procs |-> 0]
  /\ job  = [p \in Procs |-> "closed"]
  /\ at   = [p \in Procs |-> 0]
  /\ end  = [p \in Procs |-> 0]
  /\ ret  = [p \in Procs |-> 0]
  /\ got  = [p \in Procs |-> [a \in Addr |-> 0]]

Start(p, kind, first, last) ==
  /\ job' = [job EXCEPT ![p] = kind]
  /\ at'  = [at  EXCEPT ![p] = first]
  /\ end' = [end EXCEPT ![p] = last]

Finish(p, result) ==
  /\ job' = [job EXCEPT ![p] = "idle"]
  /\ ret' = [ret EXCEPT ![p] = result]
  /\ at'  = [at  EXCEPT ![p] = 0]
  /\ end' = [end EXCEPT ![p] = 0]

Step(p, kind) ==
  /\ job[p] = kind
  /\ at[p] < end[p]
  /\ at' = [at EXCEPT ![p] = @ + 1]
  /\ UNCHANGED <<fpos, job, end, ret>>

(* Mutation: the clamp is missing. *)
NoClamp(pos, len) == pos + len

(* The clamp of lines 66-67 and 93-94. *)
Clamp(pos, len) == IF len > MemSize - pos THEN MemSize ELSE pos + len

-----------------------------------------------------------------------------
(* char_dev_open erases the whole buffer. *)
Open(p) ==
  /\ job[p] = "closed"
  /\ Start(p, "open", 0, MemSize)
  /\ fpos' = [fpos EXCEPT ![p] = 0]
  /\ UNCHANGED <<mem, ret, got>>

OpenStep(p) ==
  /\ Step(p, "open")
  /\ mem' = [mem EXCEPT ![at[p]] = 0]
  /\ UNCHANGED got

(* Lines 58-67 and 85-94. *)
BeginTransfer(p, kind, len) ==
  /\ job[p] = "idle"
  /\ IF fpos[p] >= MemSize
     THEN Finish(p, 0)
     ELSE Start(p, kind, fpos[p], Clamp(fpos[p], len)) /\ UNCHANGED ret
  /\ UNCHANGED <<mem, fpos>>

Write(p, len) ==
  /\ BeginTransfer(p, "write", len)
  /\ UNCHANGED got

Read(p, len) ==
  /\ BeginTransfer(p, "read", len)
  /\ got' = [got EXCEPT ![p] = [a \in Addr |-> 0]]

(* copy_from_user and copy_to_user, one byte. *)
WriteStep(p) ==
  /\ Step(p, "write")
  /\ mem' = [mem EXCEPT ![at[p]] = p]
  /\ UNCHANGED got

ReadStep(p) ==
  /\ Step(p, "read")
  /\ got' = [got EXCEPT ![p] = [@ EXCEPT ![at[p]] = mem[at[p]]]]
  /\ UNCHANGED mem

(* The copy is complete: the position moves, the count is returned. *)
Complete(p) ==
  /\ job[p] \in {"open", "write", "read"}
  /\ at[p] = end[p]
  /\ fpos' = IF job[p] = "open" THEN fpos ELSE [fpos EXCEPT ![p] = end[p]]
  /\ Finish(p, IF job[p] = "open" THEN 0 ELSE end[p] - fpos[p])
  /\ UNCHANGED <<mem, got>>

(* Mutation: the position moves over the bytes copied before the fault. *)
FaultMoves(p) ==
  /\ job[p] = "read"
  /\ at[p] < end[p]
  /\ fpos' = [fpos EXCEPT ![p] = at[p]]
  /\ Finish(p, -EFAULT)
  /\ UNCHANGED <<mem, got>>

(* The user's buffer faults part way through a read: the position does not *)
(* move (lines 101-102).                                                   *)
FaultEnds(p) ==
  /\ job[p] = "read"
  /\ at[p] < end[p]
  /\ Finish(p, -EFAULT)
  /\ UNCHANGED <<mem, fpos, got>>

(* A fault of a write: copy_from_user fills with zeroes the rest of the    *)
(* range it was to write (lines 69 and 74-75).                             *)
FaultPads(p) ==
  /\ job[p] = "write"
  /\ at[p] < end[p]
  /\ job' = [job EXCEPT ![p] = "pad"]
  /\ UNCHANGED <<mem, fpos, at, end, ret, got>>

PadStep(p) ==
  /\ Step(p, "pad")
  /\ mem' = [mem EXCEPT ![at[p]] = 0]
  /\ UNCHANGED got

(* The faulted write returns (lines 74-75). *)
PadEnd(p) ==
  /\ job[p] = "pad"
  /\ at[p] = end[p]
  /\ Finish(p, -EFAULT)
  /\ UNCHANGED <<mem, fpos, got>>

(* Mutation: negative positions are not refused. *)
SeekNegative(p, base, offset) ==
  /\ job[p] = "idle"
  /\ LET new == base + offset IN
       IF new >= MemSize
       THEN /\ Finish(p, -EINVAL)
            /\ UNCHANGED fpos
       ELSE /\ fpos' = [fpos EXCEPT ![p] = new]
            /\ Finish(p, new)
  /\ UNCHANGED <<mem, got>>

(* Mutation: the new position is returned but not stored. *)
SeekForgets(p, base, offset) ==
  /\ job[p] = "idle"
  /\ LET new == base + offset IN
       Finish(p, IF new < 0 \/ new >= MemSize THEN -EINVAL ELSE new)
  /\ UNCHANGED <<mem, fpos, got>>

(* char_dev_llseek: from the start or from the current position; SEEK_END *)
(* and everything outside the buffer is refused.                           *)
Seek(p, base, offset) ==
  /\ job[p] = "idle"
  /\ LET new == base + offset IN
       IF new < 0 \/ new >= MemSize
       THEN /\ Finish(p, -EINVAL)
            /\ UNCHANGED fpos
       ELSE /\ fpos' = [fpos EXCEPT ![p] = new]
            /\ Finish(p, new)
  /\ UNCHANGED <<mem, got>>

SeekEnd(p) ==
  /\ job[p] = "idle"
  /\ Finish(p, -EINVAL)
  /\ UNCHANGED <<mem, fpos, got>>

(* Mutation: the buffer is erased by close, not only by open. *)
ReleaseErases(p) ==
  /\ job[p] = "idle"
  /\ job' = [job EXCEPT ![p] = "closed"]
  /\ mem' = [a \in Addr |-> 0]
  /\ UNCHANGED <<fpos, at, end, ret, got>>

Release(p) ==
  /\ job[p] = "idle"
  /\ job' = [job EXCEPT ![p] = "closed"]
  /\ UNCHANGED <<mem, fpos, at, end, ret, got>>

-----------------------------------------------------------------------------
Copy(p) == OpenStep(p) \/ WriteStep(p) \/ ReadStep(p) \/ Complete(p)

Next ==
  \E p \in Procs :
    \/ Open(p) \/ Copy(p) \/ SeekEnd(p) \/ Release(p)
    \/ FaultEnds(p) \/ FaultPads(p) \/ PadStep(p) \/ PadEnd(p)
    \/ \E len \in 0 .. MaxLen : Write(p, len) \/ Read(p, len)
    \/ \E offset \in Offsets : Seek(p, 0, offset) \/ Seek(p, fpos[p], offset)

Spec == Init /\ [][Next]_vars

-----------------------------------------------------------------------------
(* Properties.                                                             *)

Transferring(p) == job[p] \in {"open", "write", "pad", "read"}

(* No call ever touches a byte outside dev->mem, wherever the position was   *)
(* left by seeks, short transfers and faults (lines 64-69, 91-96): the range  *)
(* still to be copied lies in the buffer.                                     *)
InBounds ==
  \A p \in Procs :
    /\ fpos[p] \in 0 .. MemSize
    /\ Transferring(p) => 0 <= at[p] /\ at[p] <= end[p] /\ end[p] <= MemSize

(* The position moves by exactly the count that read or write returns, and a  *)
(* call that fails half way leaves it where it was (lines 69-76, 96-103).     *)
PositionFollowsResult ==
  [][ \A p \in Procs :
        job[p] \in {"write", "pad", "read"} /\ job'[p] = "idle" =>
          fpos'[p] - fpos[p] = IF ret'[p] >= 0 THEN ret'[p] ELSE 0 ]_vars

(* A byte is taken away from the process that wrote it only by a write of     *)
(* that byte, which leaves its own or, after a fault, a zero, or by an open,  *)
(* whoever's (line 50): reads, seeks and closes never lose data.              *)
OnlyWritesAndOpensChangeMem ==
  [][ \A a \in Addr : mem'[a] # mem[a] =>
        \E p \in Procs :
          /\ at[p] = a
          /\ \/ job[p] \in {"open", "pad"} /\ mem'[a] = 0
             \/ job[p] = "write" /\ mem'[a] = p ]_vars
=============================================================================
