----------------------- MODULE ConcurrencyControlProofs -----------------------
(***************************************************************************)
(* Theorems about ConcurrencyControl, for any number of iterations and     *)
(* rounds and for every value of the module parameter type.                *)
(***************************************************************************)
EXTENDS ConcurrencyControl, TLAPS

-----------------------------------------------------------------------------
(* The inductive invariant.                                                *)

(* Init is still going through its rounds. *)
RoundsLeft == main \notin {"loaded", "failed"} => round < TestCnt

(* Where thread t is, as init knows it: not started in this round, started, *)
(* or waited for.                                                           *)
NotStarted(t) == main \in {"reset", "spawn1"} \/ (t = 2 /\ main = "spawn2")
Started(t)    == main = "wait1" \/ (t = 1 /\ main = "spawn2") \/ (t = 2 /\ main = "wait2")
WaitedFor(t)  == main = "print" \/ (t = 1 /\ main = "wait2")

Phases ==
  \A t \in Threads :
    /\ NotStarted(t) => pc[t] \in {"none", "exit"} /\ completion[t] = 0
    /\ Started(t)    => pc[t] # "none" /\ completion[t] = IF pc[t] = "exit" THEN 1 ELSE 0
    /\ WaitedFor(t)  => pc[t] = "exit" /\ completion[t] = 0

(* The loop counter of a thread says how far it is. *)
LoopBounds ==
  \A t \in Threads :
    /\ pc[t] \in {"loop", "load", "store", "unlock"} => i[t] < Loops
    /\ pc[t] \in {"complete", "exit"} => i[t] = Loops

(* The increments thread t has made in this round. *)
Made(t) == IF NotStarted(t) THEN 0 ELSE i[t] + IF pc[t] = "unlock" THEN 1 ELSE 0

Counted ==
  Locked /\ main \in {"spawn1", "spawn2", "wait1", "wait2", "print"} =>
    /\ result = Made(1) + Made(2)
    /\ \A t \in Threads : pc[t] = "store" => reg[t] = result

(* Without the lock: a store writes one more than what was read, so the counter *)
(* is never ahead of the increments made; and a thread that has made one        *)
(* increment reads at least 1, whatever the other one writes over it.           *)
InRound == main \in {"spawn1", "spawn2", "wait1", "wait2", "print"}

RacyAbove ==
  InRound =>
    /\ result <= Made(1) + Made(2)
    /\ \A t \in Threads :
         ~NotStarted(t) /\ pc[t] = "store" => reg[t] <= Made(1) + Made(2)

RacyBelow ==
  InRound =>
    /\ Made(1) + Made(2) > 0 => result >= 1
    /\ \A t \in Threads :
         ~NotStarted(t) /\ pc[t] = "store" /\ Made(t) > 0 => reg[t] >= 1
    /\ Loops > 1 /\ Made(1) = Loops /\ Made(2) = Loops => result >= 2

IInv == TypeOK /\ RoundsLeft /\ Phases /\ LoopBounds /\ MutualExclusion

-----------------------------------------------------------------------------
(* The module parameter is read-only. *)
LEMMA TypeFixed == [Next]_vars => type' = type
BY DEF Next, Main, ThreadFunc, Reset, Report, Spawn, Wait, SpawnFails, Enter, Load, Store,
       Leave, Complete, vars

LEMMA InitIInv == Init => IInv /\ Counted
BY ConcurrencyAssumption
DEF Init, IInv, TypeOK, MainPC, ThreadPC, Threads, RoundsLeft, Phases, NotStarted,
    Started, WaitedFor, LoopBounds, MutualExclusion, InBody, Counted

LEMMA NextIInv == IInv /\ [Next]_vars => IInv'
<1> SUFFICES ASSUME IInv, [Next]_vars PROVE IInv'
  OBVIOUS
<1> USE ConcurrencyAssumption
    DEF IInv, TypeOK, MainPC, ThreadPC, Threads, RoundsLeft, Phases, NotStarted,
        Started, WaitedFor, LoopBounds, MutualExclusion, InBody, Locked, thread
<1>1. CASE UNCHANGED vars
  BY <1>1 DEF vars
<1>2. CASE Reset
  BY <1>2 DEF Reset
<1>3. CASE Report
  BY <1>3 DEF Report
<1>4. CASE Spawn(1, "spawn1", "spawn2")
  BY <1>4 DEF Spawn
<1>5. CASE Spawn(2, "spawn2", "wait1")
  BY <1>5 DEF Spawn
<1>6. CASE Wait(1, "wait1", "wait2")
  BY <1>6 DEF Wait
<1>7. CASE Wait(2, "wait2", "print")
  BY <1>7 DEF Wait
<1>8. CASE SpawnFails
  BY <1>8 DEF SpawnFails
<1>9. ASSUME NEW t \in Threads, Enter(t) PROVE IInv'
  BY <1>9 DEF Enter
<1>10. ASSUME NEW t \in Threads, Load(t) PROVE IInv'
  BY <1>10 DEF Load
<1>11. ASSUME NEW t \in Threads, Store(t) PROVE IInv'
  BY <1>11 DEF Store
<1>12. ASSUME NEW t \in Threads, Leave(t) PROVE IInv'
  BY <1>12 DEF Leave
<1>13. ASSUME NEW t \in Threads, Complete(t) PROVE IInv'
  BY <1>13 DEF Complete
<1>14. QED
  BY <1>1, <1>2, <1>3, <1>4, <1>5, <1>6, <1>7, <1>8, <1>9, <1>10, <1>11, <1>12,
     <1>13 DEF Next, Main, ThreadFunc

(* With a lock no increment is lost: the counter is what both threads made. *)
LEMMA NextCounted == IInv /\ Counted /\ [Next]_vars => Counted'
<1> SUFFICES ASSUME IInv, Counted, [Next]_vars, Locked PROVE Counted'
  BY TypeFixed DEF Counted, Locked
<1> USE ConcurrencyAssumption
    DEF IInv, TypeOK, Threads, Phases, NotStarted, Started, WaitedFor, LoopBounds,
        MutualExclusion, InBody, Counted, Made, Locked, thread
<1>1. CASE UNCHANGED vars
  BY <1>1 DEF vars
<1>2. CASE Reset
  BY <1>2 DEF Reset
<1>3. CASE Report
  BY <1>3 DEF Report
<1>4. CASE Spawn(1, "spawn1", "spawn2")
  BY <1>4 DEF Spawn
<1>5. CASE Spawn(2, "spawn2", "wait1")
  BY <1>5 DEF Spawn
<1>6. CASE Wait(1, "wait1", "wait2")
  BY <1>6 DEF Wait
<1>7. CASE Wait(2, "wait2", "print")
  BY <1>7 DEF Wait
<1>8. CASE SpawnFails
  BY <1>8 DEF SpawnFails
<1>9. ASSUME NEW t \in Threads, Enter(t) PROVE Counted'
  BY <1>9 DEF Enter
<1>10. ASSUME NEW t \in Threads, Load(t) PROVE Counted'
  BY <1>10 DEF Load
<1>11. ASSUME NEW t \in Threads, Store(t) PROVE Counted'
  BY <1>11 DEF Store
<1>12. ASSUME NEW t \in Threads, Leave(t) PROVE Counted'
  BY <1>12 DEF Leave
<1>13. ASSUME NEW t \in Threads, Complete(t) PROVE Counted'
  BY <1>13 DEF Complete
<1>14. QED
  BY <1>1, <1>2, <1>3, <1>4, <1>5, <1>6, <1>7, <1>8, <1>9, <1>10, <1>11, <1>12,
     <1>13 DEF Next, Main, ThreadFunc

(* Whatever the two threads interleave, nothing is counted that was not made. *)
LEMMA NextRacyAbove == IInv /\ RacyAbove /\ [Next]_vars => RacyAbove'
<1> SUFFICES ASSUME IInv, RacyAbove, [Next]_vars PROVE RacyAbove'
  OBVIOUS
<1> USE ConcurrencyAssumption
    DEF IInv, TypeOK, Threads, Phases, NotStarted, Started, WaitedFor, LoopBounds,
        RacyAbove, InRound, Made, thread
<1>1. CASE UNCHANGED vars
  BY <1>1 DEF vars
<1>2. CASE Reset
  BY <1>2 DEF Reset
<1>3. CASE Report
  BY <1>3 DEF Report
<1>4. CASE Spawn(1, "spawn1", "spawn2")
  BY <1>4 DEF Spawn
<1>5. CASE Spawn(2, "spawn2", "wait1")
  BY <1>5 DEF Spawn
<1>6. CASE Wait(1, "wait1", "wait2")
  BY <1>6 DEF Wait
<1>7. CASE Wait(2, "wait2", "print")
  BY <1>7 DEF Wait
<1>8. CASE SpawnFails
  BY <1>8 DEF SpawnFails
<1>9. ASSUME NEW t \in Threads, Enter(t) PROVE RacyAbove'
  BY <1>9 DEF Enter
<1>10. ASSUME NEW t \in Threads, Load(t) PROVE RacyAbove'
  BY <1>10 DEF Load
<1>11. ASSUME NEW t \in Threads, Store(t) PROVE RacyAbove'
  BY <1>11 DEF Store
<1>12. ASSUME NEW t \in Threads, Leave(t) PROVE RacyAbove'
  BY <1>12 DEF Leave
<1>13. ASSUME NEW t \in Threads, Complete(t) PROVE RacyAbove'
  BY <1>13 DEF Complete
<1>14. QED
  BY <1>1, <1>2, <1>3, <1>4, <1>5, <1>6, <1>7, <1>8, <1>9, <1>10, <1>11, <1>12,
     <1>13 DEF Next, Main, ThreadFunc

(* The last store of a round is made by a thread that had read at least 1. *)
LEMMA NextRacyBelow == IInv /\ RacyBelow /\ [Next]_vars => RacyBelow'
<1> SUFFICES ASSUME IInv, RacyBelow, [Next]_vars PROVE RacyBelow'
  OBVIOUS
<1> USE ConcurrencyAssumption
    DEF IInv, TypeOK, Threads, Phases, NotStarted, Started, WaitedFor, LoopBounds,
        RacyBelow, InRound, Made, thread
<1>1. CASE UNCHANGED vars
  BY <1>1 DEF vars
<1>2. CASE Reset
  BY <1>2 DEF Reset
<1>3. CASE Report
  BY <1>3 DEF Report
<1>4. CASE Spawn(1, "spawn1", "spawn2")
  BY <1>4 DEF Spawn
<1>5. CASE Spawn(2, "spawn2", "wait1")
  BY <1>5 DEF Spawn
<1>6. CASE Wait(1, "wait1", "wait2")
  BY <1>6 DEF Wait
<1>7. CASE Wait(2, "wait2", "print")
  BY <1>7 DEF Wait
<1>8. CASE SpawnFails
  BY <1>8 DEF SpawnFails
<1>9. ASSUME NEW t \in Threads, Enter(t) PROVE RacyBelow'
  BY <1>9 DEF Enter
<1>10. ASSUME NEW t \in Threads, Load(t) PROVE RacyBelow'
  BY <1>10 DEF Load
<1>11. ASSUME NEW t \in Threads, Store(t) PROVE RacyBelow'
  BY <1>11 DEF Store
<1>12. ASSUME NEW t \in Threads, Leave(t) PROVE RacyBelow'
  BY <1>12 DEF Leave
<1>13. ASSUME NEW t \in Threads, Complete(t) PROVE RacyBelow'
  BY <1>13 DEF Complete
<1>14. QED
  BY <1>1, <1>2, <1>3, <1>4, <1>5, <1>6, <1>7, <1>8, <1>9, <1>10, <1>11, <1>12,
     <1>13 DEF Next, Main, ThreadFunc

LEMMA InitRacy == Init => RacyAbove /\ RacyBelow
BY DEF Init, RacyAbove, RacyBelow, InRound

LEMMA RacyInvariance == Spec => [](IInv /\ RacyAbove /\ RacyBelow)
BY InitIInv, InitRacy, NextIInv, NextRacyAbove, NextRacyBelow, PTL DEF Spec

LEMMA Invariance == Spec => [](IInv /\ Counted)
BY InitIInv, NextIInv, NextCounted, PTL DEF Spec

-----------------------------------------------------------------------------
(* Type correctness of the two threads, their counter and their completions. *)
THEOREM TypeCorrect == Spec => []TypeOK
<1>1. IInv => TypeOK
  BY DEF IInv
<1>2. QED
  BY <1>1, Invariance, PTL

(* With type 1 or 2 at most one thread is inside the increment (lines 40-50). *)
THEOREM MutualExclusionHolds == Spec => []MutualExclusion
<1>1. IInv => MutualExclusion
  BY DEF IInv
<1>2. QED
  BY <1>1, Invariance, PTL

(* The completions keep the rounds apart, whatever the type (lines 68-81): the *)
(* counter is never reset under a thread of an earlier round.                  *)
THEOREM RoundsDoNotOverlapHolds == Spec => []RoundsDoNotOverlap
<1>1. IInv => RoundsDoNotOverlap
  BY DEF IInv, Phases, NotStarted, RoundsDoNotOverlap
<1>2. QED
  BY <1>1, Invariance, PTL

(* With type 1 or 2 every round prints twice the number of iterations, for any *)
(* number of iterations: 4000000 in the code (lines 38, 45, 80).               *)
THEOREM ExactResultHolds == Spec => []ExactResult
<1>1. IInv /\ Counted => ExactResult
  BY ConcurrencyAssumption
  DEF IInv, TypeOK, Threads, Phases, NotStarted, WaitedFor, LoopBounds, Counted, Made,
      ExactResult
<1>2. QED
  BY <1>1, Invariance, PTL

(* Without a lock (type 0, or any other) a round prints at most the increments *)
(* made and at least 2, for any number of iterations above one (lines 38-52,   *)
(* 80): every lost update is lost to a store that had itself seen an earlier   *)
(* one.                                                                        *)
THEOREM RacyResultBoundsHolds == Spec => []RacyResultBounds
<1>1. IInv /\ RacyAbove /\ RacyBelow => RacyResultBounds
  <2> SUFFICES ASSUME IInv, RacyAbove, RacyBelow, main = "print"
               PROVE  /\ result <= 2 * Loops
                      /\ result >= IF Loops > 1 THEN 2 ELSE 1
    BY DEF RacyResultBounds
  <2>1. Made(1) = Loops /\ Made(2) = Loops
    BY ConcurrencyAssumption
    DEF IInv, TypeOK, Threads, Phases, NotStarted, WaitedFor, LoopBounds, Made
  <2>2. QED
    BY <2>1, ConcurrencyAssumption DEF IInv, TypeOK, RacyAbove, RacyBelow, InRound
<1>2. QED
  BY <1>1, RacyInvariance, PTL

-----------------------------------------------------------------------------
(* Termination without fairness: the safety core of LoadingTerminates.  Every *)
(* step takes one off a natural number, and as long as something is left to    *)
(* do some statement of init or of a thread can be executed.                   *)

PerThread == 4 * Loops + 1
PerRound  == 6 + 2 * PerThread

(* The steps thread t still makes: four for each iteration and the completion; *)
(* inside an iteration some of the four are made.                               *)
Ahead == [loop |-> 1, load |-> 0, store |-> -1, unlock |-> -2, complete |-> 1]

ThreadSteps(t) ==
  IF pc[t] \in DOMAIN Ahead THEN 4 * (Loops - i[t]) + Ahead[pc[t]] ELSE 0

(* The steps of init in this round, and those of the threads it still starts. *)
MainAhead == [reset |-> 6, spawn1 |-> 5, spawn2 |-> 4, wait1 |-> 3, wait2 |-> 2, print |-> 1]

ToStart == [reset |-> 2, spawn1 |-> 2, spawn2 |-> 1, wait1 |-> 0, wait2 |-> 0, print |-> 0]

RoundSteps == MainAhead[main] + ToStart[main] * PerThread

MainSteps ==
  IF main \in {"loaded", "failed"} THEN 0 ELSE (TestCnt - round - 1) * PerRound + RoundSteps

Work == MainSteps + ThreadSteps(1) + ThreadSteps(2)

(* Init, or a thread, has a statement that it can execute now. *)
CanRun ==
  \/ main \in {"reset", "spawn1", "spawn2", "print"}
  \/ main = "wait1" /\ completion[1] > 0
  \/ main = "wait2" /\ completion[2] > 0
  \/ \E t \in Threads : \/ pc[t] \in {"load", "store", "unlock", "complete"}
                        \/ pc[t] = "loop" /\ (Locked => holder = 0)

LEMMA PerRoundNat == PerThread \in Nat /\ PerRound \in Nat /\ PerRound = 6 + 2 * PerThread
BY ConcurrencyAssumption DEF PerThread, PerRound

(* One round less is PerRound steps less. *)
LEMMA RoundsTimes ==
  ASSUME NEW n \in Nat
  PROVE  n * PerRound \in Nat /\ (n + 1) * PerRound = n * PerRound + PerRound
<1> DEFINE K == PerRound
<1>1. K \in Nat
  BY PerRoundNat
<1> HIDE DEF K
<1>2. n * K \in Nat /\ (n + 1) * K = n * K + K
  BY <1>1
<1>3. QED
  BY <1>2 DEF K

LEMMA AheadValues ==
  /\ DOMAIN Ahead = {"loop", "load", "store", "unlock", "complete"}
  /\ Ahead["loop"] = 1 /\ Ahead["load"] = 0 /\ Ahead["store"] = -1
  /\ Ahead["unlock"] = -2 /\ Ahead["complete"] = 1
BY DEF Ahead

LEMMA RoundStepsValues ==
  /\ main = "reset"  => RoundSteps = 6 + 2 * PerThread
  /\ main = "spawn1" => RoundSteps = 5 + 2 * PerThread
  /\ main = "spawn2" => RoundSteps = 4 + PerThread
  /\ main = "wait1"  => RoundSteps = 3
  /\ main = "wait2"  => RoundSteps = 2
  /\ main = "print"  => RoundSteps = 1
BY PerRoundNat DEF RoundSteps, MainAhead, ToStart

LEMMA ThreadStepsNat == ASSUME IInv, NEW t \in Threads PROVE ThreadSteps(t) \in Nat
BY ConcurrencyAssumption, AheadValues DEF IInv, TypeOK, ThreadPC, LoopBounds, ThreadSteps

LEMMA RoundStepsNat ==
  ASSUME IInv, main \notin {"loaded", "failed"} PROVE RoundSteps \in Nat
BY PerRoundNat, RoundStepsValues DEF IInv, TypeOK, MainPC

LEMMA MainStepsNat == ASSUME IInv PROVE MainSteps \in Nat
<1>1. CASE main \in {"loaded", "failed"}
  BY <1>1 DEF MainSteps
<1>2. CASE main \notin {"loaded", "failed"}
  <2>1. TestCnt - round - 1 \in Nat
    BY <1>2, ConcurrencyAssumption DEF IInv, TypeOK, RoundsLeft
  <2>2. (TestCnt - round - 1) * PerRound \in Nat
    BY <2>1, RoundsTimes
  <2>3. QED
    BY <1>2, <2>2, RoundStepsNat DEF MainSteps
<1>3. QED
  BY <1>1, <1>2

LEMMA WorkNat == IInv => Work \in Nat
BY MainStepsNat, ThreadStepsNat DEF Work, Threads

(* A step of a thread is one step less for it. *)
LEMMA ThreadStepsDecrease ==
  ASSUME IInv, NEW t \in Threads, ThreadFunc(t)
  PROVE  /\ ThreadSteps(t)' = ThreadSteps(t) - 1
         /\ \A s \in Threads \ {t} : ThreadSteps(s)' = ThreadSteps(s)
         /\ UNCHANGED <<main, round>>
<1>1. PICK to \in ThreadPC, n \in 0 .. Loops :
        /\ pc' = [pc EXCEPT ![t] = to] /\ i' = [i EXCEPT ![t] = n]
        /\ \/ pc[t] = "loop" /\ to = "load" /\ n = i[t]
           \/ pc[t] = "load" /\ to = "store" /\ n = i[t]
           \/ pc[t] = "store" /\ to = "unlock" /\ n = i[t]
           \/ pc[t] = "unlock" /\ to = "loop" /\ n = i[t] + 1
           \/ pc[t] = "unlock" /\ to = "complete" /\ n = i[t] + 1 /\ n = Loops
           \/ pc[t] = "complete" /\ to = "exit" /\ n = i[t] /\ n = Loops
  <2> USE ConcurrencyAssumption DEF IInv, TypeOK, ThreadPC, LoopBounds
  <2>1. i[t] \in 0 .. Loops /\ i = [i EXCEPT ![t] = i[t]]
    OBVIOUS
  <2>2. CASE Enter(t)
    BY <2>1, <2>2 DEF Enter
  <2>3. CASE Load(t)
    BY <2>1, <2>3 DEF Load
  <2>4. CASE Store(t)
    BY <2>1, <2>4 DEF Store
  <2>5. CASE Leave(t)
    <3>1. i[t] < Loops /\ i[t] + 1 \in 0 .. Loops
      BY <2>1, <2>5 DEF Leave
    <3>2. i' = [i EXCEPT ![t] = i[t] + 1] /\ pc[t] = "unlock"
      BY <2>5 DEF Leave
    <3>3. CASE i[t] + 1 < Loops
      <4>1. pc' = [pc EXCEPT ![t] = "loop"]
        BY <2>5, <3>3 DEF Leave
      <4>2. QED
        BY <3>1, <3>2, <4>1
    <3>4. CASE ~(i[t] + 1 < Loops)
      <4>1. pc' = [pc EXCEPT ![t] = "complete"]
        BY <2>5, <3>4 DEF Leave
      <4>2. i[t] + 1 = Loops
        BY <3>1, <3>4
      <4>3. QED
        BY <3>1, <3>2, <4>1, <4>2
    <3>5. QED
      BY <3>3, <3>4
  <2>6. CASE Complete(t)
    BY <2>1, <2>6 DEF Complete
  <2>7. QED
    BY <2>2, <2>3, <2>4, <2>5, <2>6 DEF ThreadFunc
<1>2. /\ pc'[t] = to /\ i'[t] = n
      /\ \A s \in Threads \ {t} : pc'[s] = pc[s] /\ i'[s] = i[s]
  BY <1>1 DEF IInv, TypeOK
<1>3. ThreadSteps(t)' = ThreadSteps(t) - 1
  <2>1. i[t] \in Int /\ n \in Int /\ Loops \in Int
    BY ConcurrencyAssumption DEF IInv, TypeOK
  <2>2. QED
    BY <1>1, <1>2, <2>1, AheadValues DEF ThreadSteps
<1>4. \A s \in Threads \ {t} : ThreadSteps(s)' = ThreadSteps(s)
  BY <1>2 DEF ThreadSteps
<1>5. UNCHANGED <<main, round>>
  BY DEF ThreadFunc, Enter, Load, Store, Leave, Complete
<1>6. QED
  BY <1>3, <1>4, <1>5

(* A step of init inside a round is one step less, counting the whole run of  *)
(* the thread it may start.                                                    *)
LEMMA RoundStepsDecrease ==
  ASSUME IInv, Main, main # "print"
  PROVE  /\ RoundSteps' + ThreadSteps(1)' + ThreadSteps(2)'
              = RoundSteps + ThreadSteps(1) + ThreadSteps(2) - 1
         /\ round' = round
         /\ main \notin {"loaded", "failed"} /\ main' \notin {"loaded", "failed"}
<1>0. /\ ThreadSteps(1) \in Nat /\ ThreadSteps(2) \in Nat
      /\ UNCHANGED thread => /\ ThreadSteps(1)' = ThreadSteps(1)
                             /\ ThreadSteps(2)' = ThreadSteps(2)
  BY ThreadStepsNat DEF Threads, thread, ThreadSteps
<1>1. /\ main' = "spawn1" => RoundSteps' = 5 + 2 * PerThread
      /\ main' = "spawn2" => RoundSteps' = 4 + PerThread
      /\ main' = "wait1"  => RoundSteps' = 3
      /\ main' = "wait2"  => RoundSteps' = 2
      /\ main' = "print"  => RoundSteps' = 1
  BY PerRoundNat DEF RoundSteps, MainAhead, ToStart
<1>2. CASE Reset
  BY <1>0, <1>1, <1>2, RoundStepsValues, PerRoundNat DEF Reset
<1>3. ASSUME NEW t \in Threads, NEW from, NEW to, Spawn(t, from, to), pc[t] \in {"none", "exit"}
      PROVE  /\ ThreadSteps(t) = 0 /\ ThreadSteps(t)' = PerThread
             /\ \A s \in Threads \ {t} : ThreadSteps(s)' = ThreadSteps(s)
  <2>1. /\ pc'[t] = "loop" /\ i'[t] = 0
        /\ \A s \in Threads \ {t} : pc'[s] = pc[s] /\ i'[s] = i[s]
    BY <1>3 DEF Spawn, IInv, TypeOK
  <2>2. Loops \in Nat
    BY ConcurrencyAssumption
  <2>3. QED
    BY <1>3, <2>1, <2>2, AheadValues DEF ThreadSteps, PerThread
<1>4. CASE Spawn(1, "spawn1", "spawn2")
  <2>1. pc[1] \in {"none", "exit"} /\ main = "spawn1" /\ main' = "spawn2" /\ round' = round
    BY <1>4 DEF IInv, Phases, NotStarted, Threads, Spawn
  <2>2. /\ ThreadSteps(1) = 0 /\ ThreadSteps(1)' = PerThread
        /\ ThreadSteps(2)' = ThreadSteps(2)
    BY <1>3, <1>4, <2>1 DEF Threads
  <2>3. QED
    BY <1>0, <1>1, <2>1, <2>2, RoundStepsValues, PerRoundNat
<1>5. CASE Spawn(2, "spawn2", "wait1")
  <2>1. pc[2] \in {"none", "exit"} /\ main = "spawn2" /\ main' = "wait1" /\ round' = round
    BY <1>5 DEF IInv, Phases, NotStarted, Threads, Spawn
  <2>2. /\ ThreadSteps(2) = 0 /\ ThreadSteps(2)' = PerThread
        /\ ThreadSteps(1)' = ThreadSteps(1)
    BY <1>3, <1>5, <2>1 DEF Threads
  <2>3. QED
    BY <1>0, <1>1, <2>1, <2>2, RoundStepsValues, PerRoundNat
<1>6. CASE Wait(1, "wait1", "wait2")
  BY <1>0, <1>1, <1>6, RoundStepsValues DEF Wait
<1>7. CASE Wait(2, "wait2", "print")
  BY <1>0, <1>1, <1>7, RoundStepsValues DEF Wait
<1>8. QED
  BY <1>2, <1>4, <1>5, <1>6, <1>7 DEF Main, Report

(* Reaching the end of a round takes one step and uncovers the next one. *)
LEMMA ReportDecreases ==
  ASSUME IInv, IInv', Report
  PROVE  MainSteps' = MainSteps - 1 /\ ThreadSteps(1)' = ThreadSteps(1)
         /\ ThreadSteps(2)' = ThreadSteps(2)
<1>1. /\ main = "print" /\ round' = round + 1 /\ round \in Nat /\ TestCnt \in Nat
      /\ round < TestCnt
  BY ConcurrencyAssumption DEF Report, IInv, TypeOK, RoundsLeft
<1>2. MainSteps = (TestCnt - round - 1) * PerRound + 1
  BY <1>1, RoundStepsValues DEF MainSteps
<1>3. CASE round + 1 < TestCnt
  <2>1. main' = "reset"
    BY <1>3 DEF Report
  <2>2. RoundSteps' = PerRound
    BY <2>1, PerRoundNat DEF RoundSteps, MainAhead, ToStart
  <2>3. MainSteps' = (TestCnt - (round + 1) - 1) * PerRound + PerRound
    BY <1>1, <2>1, <2>2 DEF MainSteps
  <2> DEFINE n == TestCnt - (round + 1) - 1
  <2>4. n \in Nat /\ TestCnt - round - 1 = n + 1
    BY <1>1, <1>3
  <2> HIDE DEF n
  <2>5. (n + 1) * PerRound = n * PerRound + PerRound /\ n * PerRound \in Nat
    BY <2>4, RoundsTimes
  <2>6. MainSteps = (n + 1) * PerRound + 1
    BY <1>2, <2>4
  <2>7. MainSteps' = n * PerRound + PerRound
    BY <2>3 DEF n
  <2>8. QED
    BY <2>5, <2>6, <2>7, PerRoundNat DEF Report, ThreadSteps, thread
<1>4. CASE ~(round + 1 < TestCnt)
  <2>1. main' = "loaded" /\ TestCnt - round - 1 = 0
    BY <1>1, <1>4 DEF Report
  <2>2. 0 * PerRound = 0
    BY PerRoundNat
  <2>3. MainSteps' = 0 /\ MainSteps = 1
    BY <1>2, <2>1, <2>2 DEF MainSteps
  <2>4. QED
    BY <2>3 DEF Report, ThreadSteps, thread
<1>5. QED
  BY <1>3, <1>4

(* A thread of this round is running, or init has something left to do. *)
LEMMA MainStepsPositive ==
  ASSUME IInv, main \notin {"loaded", "failed"} PROVE MainSteps >= 1
<1>1. TestCnt - round - 1 \in Nat
  BY ConcurrencyAssumption DEF IInv, TypeOK, RoundsLeft
<1>2. (TestCnt - round - 1) * PerRound \in Nat
  BY <1>1, RoundsTimes
<1>3. RoundSteps \in Nat /\ RoundSteps >= 1
  BY RoundStepsValues, PerRoundNat DEF IInv, TypeOK, MainPC
<1>4. QED
  BY <1>2, <1>3 DEF MainSteps

(* Every step but the failure of kthread_run is exactly one step less. *)
LEMMA WorkStep ==
  ASSUME IInv, IInv', Next
  PROVE  Work' < Work /\ (~SpawnFails => Work' = Work - 1)
<1>1. MainSteps \in Nat /\ ThreadSteps(1) \in Nat /\ ThreadSteps(2) \in Nat
  BY MainStepsNat, ThreadStepsNat DEF Threads
<1>2. CASE Report
  BY <1>1, <1>2, ReportDecreases DEF Work
<1>3. CASE Main /\ ~Report
  <2>1. main # "print"
    BY <1>3 DEF Main, Report, Reset, Spawn, Wait
  <2>2. /\ RoundSteps' + ThreadSteps(1)' + ThreadSteps(2)'
              = RoundSteps + ThreadSteps(1) + ThreadSteps(2) - 1
        /\ round' = round
        /\ main \notin {"loaded", "failed"} /\ main' \notin {"loaded", "failed"}
    BY <1>3, <2>1, RoundStepsDecrease
  <2> DEFINE left == (TestCnt - round - 1) * PerRound
  <2>3. left \in Nat
    <3>1. TestCnt - round - 1 \in Nat
      BY <2>2, ConcurrencyAssumption DEF IInv, TypeOK, RoundsLeft
    <3>2. QED
      BY <3>1, RoundsTimes
  <2>4. MainSteps = left + RoundSteps /\ MainSteps' = left + RoundSteps'
    BY <2>2 DEF MainSteps
  <2> HIDE DEF left
  <2>5. RoundSteps \in Nat /\ RoundSteps' \in Nat
    <3>1. RoundSteps \in Nat
      BY <2>2, RoundStepsNat
    <3>2. RoundSteps' \in Nat
      BY <2>2, PerRoundNat DEF RoundSteps, MainAhead, ToStart, IInv, TypeOK, MainPC
    <3>3. QED
      BY <3>1, <3>2
  <2>6. /\ Work  = left + RoundSteps  + ThreadSteps(1)  + ThreadSteps(2)
        /\ Work' = left + RoundSteps' + ThreadSteps(1)' + ThreadSteps(2)'
    BY <2>4 DEF Work
  <2>7. ThreadSteps(1)' \in Int /\ ThreadSteps(2)' \in Int
    BY ConcurrencyAssumption, AheadValues DEF IInv, TypeOK, ThreadSteps, Threads
  <2>8. QED
    BY <1>1, <2>2, <2>3, <2>5, <2>6, <2>7
<1>4. CASE SpawnFails
  <2>1. main \notin {"loaded", "failed"} /\ main' = "failed"
    BY <1>4 DEF SpawnFails
  <2>2. MainSteps' = 0 /\ MainSteps >= 1
    BY <2>1, MainStepsPositive DEF MainSteps
  <2>3. ThreadSteps(1)' = ThreadSteps(1) /\ ThreadSteps(2)' = ThreadSteps(2)
    BY <1>4 DEF SpawnFails, thread, ThreadSteps
  <2>4. QED
    BY <1>1, <1>4, <2>2, <2>3 DEF Work
<1>5. ASSUME NEW t \in Threads, ThreadFunc(t)
      PROVE  Work' = Work - 1
  <2>1. /\ ThreadSteps(t)' = ThreadSteps(t) - 1
        /\ \A s \in Threads \ {t} : ThreadSteps(s)' = ThreadSteps(s)
        /\ UNCHANGED <<main, round>>
    BY <1>5, ThreadStepsDecrease
  <2>2. MainSteps' = MainSteps
    BY <2>1 DEF MainSteps, RoundSteps
  <2>3. t = 1 \/ t = 2
    BY DEF Threads
  <2>4. QED
    BY <1>1, <2>1, <2>2, <2>3 DEF Work, Threads
<1>6. Work \in Nat
  BY WorkNat
<1>7. CASE \E t \in Threads : ThreadFunc(t)
  BY <1>5, <1>6, <1>7
<1>8. QED
  BY <1>2, <1>3, <1>4, <1>7 DEF Next

(* Loading takes a fixed number of steps, whatever the threads interleave: the *)
(* measure starts at 8 * Loops + 8 steps for each of the TestCnt rounds, every *)
(* step takes one off, and a failing kthread_run (lines 73-75) takes off the   *)
(* rest of init's: no schedule of the two threads runs forever (lines 38-82).  *)
THEOREM EveryStepCounts ==
  Spec => /\ Work = TestCnt * (8 * Loops + 8)
          /\ [][ /\ Work \in Nat /\ Work' \in Nat /\ Work' < Work
                 /\ ~SpawnFails => Work' = Work - 1 ]_vars
<1> DEFINE W == Work \in Nat
           A == /\ Work \in Nat /\ Work' \in Nat /\ Work' < Work
                /\ ~SpawnFails => Work' = Work - 1
<1>1. Init => Work = TestCnt * (8 * Loops + 8)
  <2> SUFFICES ASSUME Init PROVE Work = TestCnt * (8 * Loops + 8)
    OBVIOUS
  <2>1. main = "reset" /\ round = 0 /\ pc[1] = "none" /\ pc[2] = "none"
    BY DEF Init, Threads
  <2>2. ThreadSteps(1) = 0 /\ ThreadSteps(2) = 0
    BY <2>1, AheadValues DEF ThreadSteps
  <2>3. RoundSteps = PerRound
    BY <2>1, RoundStepsValues, PerRoundNat
  <2> DEFINE n == TestCnt - 1
  <2>4. n \in Nat /\ TestCnt = n + 1 /\ TestCnt - round - 1 = n
    BY <2>1, ConcurrencyAssumption
  <2>5. MainSteps = n * PerRound + PerRound
    BY <2>1, <2>3, <2>4 DEF MainSteps
  <2> HIDE DEF n
  <2>6. MainSteps = TestCnt * PerRound
    BY <2>4, <2>5, RoundsTimes
  <2>7. PerRound = 8 * Loops + 8
    BY ConcurrencyAssumption DEF PerRound, PerThread
  <2>8. TestCnt * PerRound \in Nat
    BY <2>4, RoundsTimes
  <2>9. QED
    BY <2>2, <2>6, <2>7, <2>8 DEF Work
<1>2. IInv => W
  BY WorkNat
<1>3. IInv /\ IInv' /\ W /\ W' /\ [Next]_vars => [A]_vars
  BY WorkStep
<1> HIDE DEF W, A
<1>4. Spec => [](IInv /\ Counted)
  BY Invariance
<1>5. Spec => [][A]_vars
  BY <1>2, <1>3, <1>4, PTL DEF Spec
<1>6. QED
  BY <1>1, <1>5 DEF Spec, A

(* Nobody waits for nobody: as long as init or a thread has a step left, one  *)
(* of them can execute its next statement.  A thread that waits for the lock   *)
(* finds its holder able to run, and init waits only for a completion that is  *)
(* there or that a thread able to run still makes (lines 40-52, 77-79).        *)
THEOREM NeverStuck == Spec => [](Work > 0 => CanRun)
<1>1. IInv => (Work > 0 => CanRun)
  <2> SUFFICES ASSUME IInv, Work > 0, ~CanRun PROVE FALSE
    OBVIOUS
  <2>1. Locked => holder = 0
    BY DEF IInv, TypeOK, MutualExclusion, InBody, CanRun
  <2>2. \A t \in Threads : pc[t] \in {"none", "exit"}
    BY <2>1 DEF IInv, TypeOK, ThreadPC, CanRun
  <2>3. ThreadSteps(1) = 0 /\ ThreadSteps(2) = 0
    BY <2>2, AheadValues DEF ThreadSteps, Threads
  <2>4. main \notin {"wait1", "wait2"}
    BY <2>2 DEF IInv, Phases, Started, Threads, CanRun
  <2>5. main \in {"loaded", "failed"}
    BY <2>4 DEF IInv, TypeOK, MainPC, CanRun
  <2>6. QED
    BY <2>3, <2>5 DEF Work, MainSteps
<1>2. QED
  BY <1>1, Invariance, PTL
=============================================================================
