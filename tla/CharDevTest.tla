---------------------------- MODULE CharDevTest -----------------------------
(***************************************************************************)
(* The test program of c-drv.c (test/main.c), run by several processes:    *)
(* open, seek to 0, write the whole buffer, seek to 0, read it back, and   *)
(* assert that it is what was written.                                     *)
(***************************************************************************)
EXTENDS CharDev

VARIABLE line  \* the next call of main(): a line number of test/main.c

testVars == <<vars, line>>

TestInit == Init /\ line = [p \in Procs |-> 17]

Lines == {17, 22, 23, 25, 26, 28, 30, 31}

(* p executes `call' at line `from' and goes on to line `to'. *)
At(p, from, to) ==
  /\ line[p] = from
  /\ line' = [line EXCEPT ![p] = to]

Main(p) ==
  \/ At(p, 17, 22) /\ Open(p)
  \/ At(p, 22, 23) /\ Seek(p, 0, 0)
  \/ At(p, 23, 25) /\ Write(p, MemSize)
  \/ At(p, 25, 26) /\ Seek(p, 0, 0)
  \/ At(p, 26, 28) /\ Read(p, MemSize)
  \/ At(p, 28, 30) /\ job[p] = "idle" /\ UNCHANGED vars
  \/ At(p, 30, 31) /\ Release(p)
  \/ Copy(p) /\ UNCHANGED line

TestNext == \E p \in Procs : Main(p)

TestSpec == TestInit /\ [][TestNext]_testVars

(* test/main.c:28, assert(memcmp(buf_w, buf_r, MEM_SIZE) == 0): what a process *)
(* reads back is what it wrote.  Every run writes the same bytes, so what can   *)
(* make the difference is a byte erased by another open (c-drv.c:50).          *)
AssertionHolds ==
  \A p \in Procs :
    line[p] = 28 /\ job[p] = "idle" => \A a \in Addr : got[p][a] # 0
=============================================================================
