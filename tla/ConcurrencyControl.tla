------------------------- MODULE ConcurrencyControl -------------------------
(***************************************************************************)
(* concurrency_control.c: TEST_CNT rounds in which two threads increment   *)
(* one counter, with a spinlock, a mutex or nothing around the increment,  *)
(* and signal their completion; the module's init starts the threads of a  *)
(* round, waits for both completions and prints the counter.               *)
(***************************************************************************)
EXTENDS Integers

CONSTANTS
  Types,     \* the values the module parameter type may be given
  Loops,     \* iterations of each thread (2000000)
  TestCnt    \* TEST_CNT

ASSUME ConcurrencyAssumption ==
  /\ Types \subseteq Int
  /\ Loops \in Nat \ {0}
  /\ TestCnt \in Nat \ {0}

SPINLOCK == 1   \* CONCURRENCY_CONTROL_SPINLOCK
NUTEX    == 2   \* CONCURRENCY_CONTROL_NUTEX

Threads == {1, 2}   \* THREAD_CNT

VARIABLES
  type,        \* read-only once the module is loaded (S_IRUGO)
  main,        \* the next statement of init: "reset", "spawn1", ..., "print"
  round,       \* j
  pc,          \* the next statement of each thread
  i,           \* its loop counter
  reg,         \* the register result++ goes through
  result,      \* pdata.result
  holder,      \* who holds the lock (0: nobody)
  completion   \* pdata.completion[t].done

vars == <<type, main, round, pc, i, reg, result, holder, completion>>

thread == <<pc, i, reg>>

MainPC   == {"reset", "spawn1", "spawn2", "wait1", "wait2", "print", "loaded", "failed"}
ThreadPC == {"none", "loop", "load", "store", "unlock", "complete", "exit"}

(* The types with which the increment is protected. *)
Locked == type \in {SPINLOCK, NUTEX}

TypeOK ==
  /\ type       \in Types
  /\ main       \in MainPC
  /\ round      \in 0 .. TestCnt
  /\ pc         \in [Threads -> ThreadPC]
  /\ i          \in [Threads -> 0 .. Loops]
  /\ reg        \in [Threads -> Nat]
  /\ result     \in Nat
  /\ holder     \in Threads \cup {0}
  /\ completion \in [Threads -> Nat]

Init ==
  /\ type       \in Types
  /\ main       = "reset"
  /\ round      = 0
  /\ pc         = [t \in Threads |-> "none"]
  /\ i          = [t \in Threads |-> 0]
  /\ reg        = [t \in Threads |-> 0]
  /\ result     = 0
  /\ holder     = 0
  /\ completion = [t \in Threads |-> 0]

-----------------------------------------------------------------------------
(* concurrency_control_init.                                               *)

(* Mutation: line 69 is missing. *)
ResetForgets ==
  /\ main = "reset"
  /\ main' = "spawn1"
  /\ UNCHANGED <<type, round, thread, result, holder, completion>>

Reset ==
  /\ main = "reset"
  /\ result' = 0
  /\ main' = "spawn1"
  /\ UNCHANGED <<type, round, thread, holder, completion>>

(* kthread_run: a new thread, with its own locals. *)
Spawn(t, from, to) ==
  /\ main = from
  /\ main' = to
  /\ pc'  = [pc  EXCEPT ![t] = "loop"]
  /\ i'   = [i   EXCEPT ![t] = 0]
  /\ reg' = [reg EXCEPT ![t] = 0]
  /\ UNCHANGED <<type, round, result, holder, completion>>

(* kthread_run fails: init returns at once (lines 73-75). *)
SpawnFails ==
  /\ main \in {"spawn1", "spawn2"}
  /\ main' = "failed"
  /\ UNCHANGED <<type, round, thread, result, holder, completion>>

(* Mutation: the completion is seen but not consumed (complete_all). *)
WaitKeeps(t, from, to) ==
  /\ main = from
  /\ completion[t] > 0
  /\ main' = to
  /\ UNCHANGED <<type, round, thread, result, holder, completion>>

(* wait_for_completion. *)
Wait(t, from, to) ==
  /\ main = from
  /\ completion[t] > 0
  /\ completion' = [completion EXCEPT ![t] = @ - 1]
  /\ main' = to
  /\ UNCHANGED <<type, round, thread, result, holder>>

(* printk, and the next round. *)
Report ==
  /\ main = "print"
  /\ round' = round + 1
  /\ main'  = IF round + 1 < TestCnt THEN "reset" ELSE "loaded"
  /\ UNCHANGED <<type, thread, result, holder, completion>>

-----------------------------------------------------------------------------
(* thread_func.                                                            *)

(* Mutation: the lock is not taken. *)
EnterUnlocked(t) ==
  /\ pc[t] = "loop"
  /\ pc' = [pc EXCEPT ![t] = "load"]
  /\ UNCHANGED <<type, main, round, i, reg, result, holder, completion>>

(* Lines 38-43: enter the loop body, taking the lock the type asks for. *)
Enter(t) ==
  /\ pc[t] = "loop"
  /\ IF Locked
     THEN holder = 0 /\ holder' = t
     ELSE UNCHANGED holder
  /\ pc' = [pc EXCEPT ![t] = "load"]
  /\ UNCHANGED <<type, main, round, i, reg, result, completion>>

(* Line 45, result++: a load and a store. *)
Load(t) ==
  /\ pc[t] = "load"
  /\ reg' = [reg EXCEPT ![t] = result]
  /\ pc'  = [pc EXCEPT ![t] = "store"]
  /\ UNCHANGED <<type, main, round, i, result, holder, completion>>

Store(t) ==
  /\ pc[t] = "store"
  /\ result' = reg[t] + 1
  /\ pc' = [pc EXCEPT ![t] = "unlock"]
  /\ UNCHANGED <<type, main, round, i, reg, holder, completion>>

(* Mutation: the lock is not released. *)
LeaveLocked(t) ==
  /\ pc[t] = "unlock"
  /\ i'  = [i EXCEPT ![t] = @ + 1]
  /\ pc' = [pc EXCEPT ![t] = IF i[t] + 1 < Loops THEN "loop" ELSE "complete"]
  /\ UNCHANGED <<type, main, round, reg, result, holder, completion>>

(* Lines 47-51. *)
Leave(t) ==
  /\ pc[t] = "unlock"
  /\ holder' = IF Locked THEN 0 ELSE holder
  /\ i'  = [i EXCEPT ![t] = @ + 1]
  /\ pc' = [pc EXCEPT ![t] = IF i[t] + 1 < Loops THEN "loop" ELSE "complete"]
  /\ UNCHANGED <<type, main, round, reg, result, completion>>

(* Line 52. *)
Complete(t) ==
  /\ pc[t] = "complete"
  /\ completion' = [completion EXCEPT ![t] = @ + 1]
  /\ pc' = [pc EXCEPT ![t] = "exit"]
  /\ UNCHANGED <<type, main, round, i, reg, result, holder>>

-----------------------------------------------------------------------------
Main ==
  \/ Reset \/ Report
  \/ Spawn(1, "spawn1", "spawn2") \/ Spawn(2, "spawn2", "wait1")
  \/ Wait(1, "wait1", "wait2")    \/ Wait(2, "wait2", "print")

ThreadFunc(t) == Enter(t) \/ Load(t) \/ Store(t) \/ Leave(t) \/ Complete(t)

Next == Main \/ SpawnFails \/ \E t \in Threads : ThreadFunc(t)

Spec == Init /\ [][Next]_vars

(* The scheduler runs the init and both threads.  The lock itself may be     *)
(* unfair: while the other thread's loop is finite, weak fairness suffices.  *)
FairSpec == Spec /\ WF_vars(Main) /\ \A t \in Threads : WF_vars(ThreadFunc(t))

-----------------------------------------------------------------------------
(* Properties.                                                             *)

InBody(t) == pc[t] \in {"load", "store", "unlock"}

(* With type 1 or 2 at most one thread is inside the increment, and it is the *)
(* one the lock says (lines 40-50).                                            *)
MutualExclusion ==
  Locked => /\ \A t \in Threads : InBody(t) <=> holder = t
            /\ ~(InBody(1) /\ InBody(2))

(* With type 1 or 2 every round prints exactly the number of increments: no    *)
(* increment is lost between the two threads or between two rounds (45-80).    *)
ExactResult == Locked /\ main = "print" => result = 2 * Loops

(* Without a lock the result is still bounded: never more than the increments  *)
(* made, and never less than 2 (1 when each thread makes a single one).        *)
RacyResultBounds ==
  main = "print" => /\ result <= 2 * Loops
                    /\ result >= IF Loops > 1 THEN 2 ELSE 1

(* The completions keep the rounds apart: when line 69 resets the counter no   *)
(* thread of an earlier round can still touch it, and no completion is left    *)
(* over to end the coming round too early.                                     *)
RoundsDoNotOverlap ==
  main = "reset" => \A t \in Threads : pc[t] \in {"none", "exit"} /\ completion[t] = 0

(* The module finishes loading unless a thread could not be started.           *)
LoadingTerminates == <>(main \in {"loaded", "failed"})
=============================================================================
