--------------------------- MODULE ButtonIOProofs ---------------------------
(***************************************************************************)
(* Theorems about ButtonIO, for any sets of files, pollers and subscribers *)
(* and any number of threads in the middle of read and poll; and about     *)
(* FasyncTest, for one process with the SIGIO handler and any number of    *)
(* others that only watch the device.                                      *)
(***************************************************************************)
EXTENDS FasyncTest, TLAPS

(* Without subscribers line 121 never chooses kill_fasync. *)
NoKill == Subscribers = {} => handler # "kill"

-----------------------------------------------------------------------------
(* The steps, split once: what Next is made of. *)
LEMMA NextCases ==
  ASSUME Next
  PROVE  \/ Interrupt \/ Debounced \/ Bounce \/ ChooseNotification
         \/ KillFasync \/ WakeUp
         \/ \E f \in Files :
              \/ BeginRead(f) \/ ReadAgain(f) \/ ReadCheck(f) \/ PrepareToWait(f)
              \/ WaitSatisfied(f) \/ WaitInterrupted(f) \/ WaitSleep(f)
              \/ WaitWoken(f) \/ ReadTake(f) \/ ReadClear(f) \/ ReadFault(f)
              \/ BeginPoll(f) \/ PollWait(f) \/ PollReady(f) \/ PollInterrupted(f)
              \/ PollSleep(f) \/ PollTimeout(f) \/ Open(f) \/ Release(f)
              \/ (\E mode \in BOOLEAN : SetFasync(f, mode))
              \/ RaiseSignal(f) \/ EnterHandler(f) \/ LeaveHandler(f)
BY DEF Next, TimerHandler, Read, Poll, User

(* Type correctness: every variable stays in the range the C type and the     *)
(* call sequence give it.                                                      *)
THEOREM TypeCorrect == Spec => []TypeOK
<1>1. Init => TypeOK
  BY FilesAssumption DEF Init, TypeOK, PC
<1>2. TypeOK /\ [Next]_vars => TypeOK'
  <2> SUFFICES ASSUME TypeOK, [Next]_vars PROVE TypeOK'
    OBVIOUS
  <2> USE FilesAssumption DEF TypeOK, PC, EAGAIN, ERESTARTSYS, POLLIN, SizeofValue
  <2>1. CASE UNCHANGED vars
    BY <2>1 DEF vars
  <2>2. CASE Interrupt
    BY <2>2 DEF Interrupt, notify, call
  <2>3. CASE Debounced
    BY <2>3 DEF Debounced, notify, call
  <2>4. CASE Bounce
    BY <2>4 DEF Bounce, notify, call
  <2>5. CASE ChooseNotification
    BY <2>5 DEF ChooseNotification, notify, call
  <2>6. CASE KillFasync \/ WakeUp
    BY <2>6 DEF KillFasync, WakeUp, call
  <2>7. ASSUME NEW f \in Files,
               \/ BeginRead(f) \/ ReadAgain(f) \/ ReadCheck(f) \/ PrepareToWait(f)
               \/ WaitSatisfied(f) \/ WaitInterrupted(f) \/ WaitSleep(f)
        PROVE  TypeOK'
    BY <2>7 DEF BeginRead, ReadAgain, ReadCheck, PrepareToWait, WaitSatisfied,
                WaitInterrupted, WaitSleep, Goto, Return, device, notify, call
  <2>8. ASSUME NEW f \in Files,
               \/ WaitWoken(f) \/ ReadTake(f) \/ ReadClear(f) \/ ReadFault(f)
               \/ BeginPoll(f) \/ PollWait(f) \/ PollReady(f) \/ PollInterrupted(f)
        PROVE  TypeOK'
    BY <2>8 DEF WaitWoken, ReadTake, ReadClear, ReadFault, BeginPoll, PollWait, PollReady,
                PollInterrupted, Goto, Return, device, notify, call
  <2>9. ASSUME NEW f \in Files,
               \/ PollSleep(f) \/ PollTimeout(f) \/ Open(f) \/ Release(f)
               \/ RaiseSignal(f) \/ EnterHandler(f) \/ LeaveHandler(f)
        PROVE  TypeOK'
    BY <2>9 DEF PollSleep, PollTimeout, Open, Release, RaiseSignal, EnterHandler,
                LeaveHandler, Goto, Return, device, notify, call
  <2>10. ASSUME NEW f \in Files, NEW mode \in BOOLEAN, SetFasync(f, mode)
         PROVE  TypeOK'
    BY <2>10 DEF SetFasync, device, call
  <2>11. QED
    BY <2>1, <2>2, <2>3, <2>4, <2>5, <2>6, <2>7, <2>8, <2>9, <2>10, NextCases
<1>3. QED
  BY <1>1, <1>2, PTL DEF Spec

-----------------------------------------------------------------------------
(* No lost wake-up: without FASYNC subscribers nobody sleeps on the queue     *)
(* while key_value is set and the timer handler has nothing left to do.  The  *)
(* order that matters is queue-then-test in the waiters (lines 62 and 80-82)  *)
(* against set-then-wake in the handler (lines 120-124).                      *)
THEOREM NoLostWakeupHolds == Spec => []NoLostWakeup
<1> DEFINE Inv == NoKill /\ NoLostWakeup
<1>1. Init => Inv
  BY DEF Init, NoKill, NoLostWakeup
<1>2. TypeOK /\ Inv /\ [Next]_vars => Inv'
  <2> SUFFICES ASSUME TypeOK, Inv, [Next]_vars, Subscribers = {} PROVE Inv'
    BY DEF NoKill, NoLostWakeup
  <2>0. /\ fasync = {}
        /\ handler # "kill"
        /\ \A f \in wq : Sleeping(f) /\ key_value = 1 => handler # "idle"
    BY DEF TypeOK, NoKill, NoLostWakeup
  <2> SUFFICES /\ handler' # "kill"
               /\ \A f \in wq' : Sleeping(f)' /\ key_value' = 1 => handler' # "idle"
    BY DEF NoKill, NoLostWakeup
  <2> USE <2>0 DEF Sleeping, TypeOK
  <2>1. CASE UNCHANGED vars
    BY <2>1 DEF vars
  <2>2. CASE Interrupt
    BY <2>2 DEF Interrupt, notify
  <2>3. CASE Debounced
    BY <2>3 DEF Debounced, notify
  <2>4. CASE Bounce
    BY <2>4 DEF Bounce, notify
  <2>5. CASE ChooseNotification
    BY <2>5 DEF ChooseNotification, notify
  <2>6. CASE KillFasync
    BY <2>6 DEF KillFasync
  <2>7. CASE WakeUp
    BY <2>7 DEF WakeUp
  <2>8. ASSUME NEW f \in Files,
               \/ BeginRead(f) \/ ReadAgain(f) \/ ReadCheck(f) \/ PrepareToWait(f)
               \/ WaitSatisfied(f) \/ WaitInterrupted(f) \/ WaitSleep(f)
        PROVE  /\ handler' # "kill"
               /\ \A g \in wq' : Sleeping(g)' /\ key_value' = 1 => handler' # "idle"
    BY <2>8 DEF BeginRead, ReadAgain, ReadCheck, PrepareToWait, WaitSatisfied,
                WaitInterrupted, WaitSleep, Goto, Return, device, notify
  <2>9. ASSUME NEW f \in Files,
               \/ WaitWoken(f) \/ ReadTake(f) \/ ReadClear(f) \/ ReadFault(f)
               \/ BeginPoll(f) \/ PollWait(f) \/ PollReady(f) \/ PollInterrupted(f)
        PROVE  /\ handler' # "kill"
               /\ \A g \in wq' : Sleeping(g)' /\ key_value' = 1 => handler' # "idle"
    BY <2>9 DEF WaitWoken, ReadTake, ReadClear, ReadFault, BeginPoll, PollWait, PollReady,
                PollInterrupted, Goto, Return, device, notify
  <2>10. ASSUME NEW f \in Files,
               \/ PollSleep(f) \/ PollTimeout(f) \/ Open(f) \/ Release(f)
               \/ RaiseSignal(f) \/ EnterHandler(f) \/ LeaveHandler(f)
               \/ \E mode \in BOOLEAN : SetFasync(f, mode)
        PROVE  /\ handler' # "kill"
               /\ \A g \in wq' : Sleeping(g)' /\ key_value' = 1 => handler' # "idle"
    BY <2>10 DEF PollSleep, PollTimeout, Open, Release, RaiseSignal, EnterHandler,
                 LeaveHandler, SetFasync, Goto, Return, device, notify
  <2>11. QED
    BY <2>1, <2>2, <2>3, <2>4, <2>5, <2>6, <2>7, <2>8, <2>9, <2>10, NextCases
<1>3. QED
  BY <1>1, <1>2, TypeCorrect, PTL DEF Spec

-----------------------------------------------------------------------------
(* What a check promised holds until a read clears it, whatever the other     *)
(* threads, the timer and the signals do meanwhile (lines 45-83).             *)
LEMMA PromiseKeptStep == ASSUME TypeOK, PromiseKept, [Next]_vars PROVE PromiseKept'
<1> USE DEF TypeOK, PromiseKept
<1>1. CASE UNCHANGED vars
  BY <1>1 DEF vars
<1>2. CASE Interrupt
  BY <1>2 DEF Interrupt, call
<1>3. CASE Debounced
  BY <1>3 DEF Debounced, call
<1>4. CASE Bounce
  BY <1>4 DEF Bounce, call
<1>5. CASE ChooseNotification
  BY <1>5 DEF ChooseNotification, call
<1>6. CASE KillFasync \/ WakeUp
  BY <1>6 DEF KillFasync, WakeUp, call
<1>7. ASSUME NEW f \in Files,
             \/ BeginRead(f) \/ ReadAgain(f) \/ ReadCheck(f) \/ PrepareToWait(f)
             \/ WaitSatisfied(f) \/ WaitInterrupted(f) \/ WaitSleep(f)
      PROVE  PromiseKept'
  BY <1>7 DEF BeginRead, ReadAgain, ReadCheck, PrepareToWait, WaitSatisfied,
              WaitInterrupted, WaitSleep, Goto, Return, device, call
<1>8. ASSUME NEW f \in Files,
             \/ WaitWoken(f) \/ ReadTake(f) \/ ReadClear(f) \/ ReadFault(f)
             \/ BeginPoll(f) \/ PollWait(f) \/ PollReady(f) \/ PollInterrupted(f)
      PROVE  PromiseKept'
  BY <1>8 DEF WaitWoken, ReadTake, ReadClear, ReadFault, BeginPoll, PollWait, PollReady,
              PollInterrupted, Goto, Return, device, call
<1>9. ASSUME NEW f \in Files,
             \/ PollSleep(f) \/ PollTimeout(f) \/ Open(f) \/ Release(f)
             \/ RaiseSignal(f) \/ EnterHandler(f) \/ LeaveHandler(f)
             \/ \E mode \in BOOLEAN : SetFasync(f, mode)
      PROVE  PromiseKept'
  BY <1>9 DEF PollSleep, PollTimeout, Open, Release, RaiseSignal, EnterHandler,
              LeaveHandler, SetFasync, Goto, Return, device, call
<1>10. QED
  BY <1>1, <1>2, <1>3, <1>4, <1>5, <1>6, <1>7, <1>8, <1>9, NextCases

THEOREM PromiseKeptHolds == Spec => []PromiseKept
<1>1. Init => PromiseKept
  BY DEF Init, PromiseKept
<1>2. QED
  BY <1>1, PromiseKeptStep, TypeCorrect, PTL DEF Spec

(* A recorded press leaves the latch only through the clear of a read that     *)
(* reports it or that another read overtook (line 70).                         *)
THEOREM NoPressDroppedHolds == Spec => NoPressDropped
<1> DEFINE A == key_value = 1 /\ key_value' = 0 =>
                  \E f \in Files : /\ pc[f] = "clear"
                                   /\ f \notin BadBuffers =>
                                        ret'[f] = 0 /\ (value'[f] = 1 \/ f \notin fresh)
<1>1. TypeOK /\ PromiseKept /\ [Next]_vars => [A]_vars
  <2> SUFFICES ASSUME TypeOK, PromiseKept, Next, key_value = 1, key_value' = 0
               PROVE  A
    OBVIOUS
  <2>1. ~(Interrupt \/ Debounced \/ Bounce)
    BY DEF Interrupt, Debounced, Bounce
  <2>2. ~(ChooseNotification \/ KillFasync \/ WakeUp)
    BY DEF ChooseNotification, KillFasync, WakeUp
  <2>3. PICK f \in Files : ReadClear(f) \/ ReadFault(f)
    BY <2>1, <2>2, NextCases
    DEF BeginRead, ReadAgain, ReadCheck, PrepareToWait, WaitSatisfied,
        WaitInterrupted, WaitSleep, WaitWoken, ReadTake, BeginPoll, PollWait,
        PollReady, PollInterrupted, PollSleep, PollTimeout, Open, Release,
        RaiseSignal, EnterHandler, LeaveHandler, SetFasync, device
  <2>4. /\ pc[f] = "clear"
        /\ f \notin BadBuffers => ret'[f] = 0 /\ value'[f] = value[f]
    BY <2>3 DEF ReadClear, ReadFault, Return, Goto, TypeOK
  <2>5. f \in fresh => value[f] = 1
    BY <2>4 DEF PromiseKept
  <2>6. QED
    BY <2>4, <2>5
<1>2. QED
  BY <1>1, TypeCorrect, PromiseKeptHolds, PTL DEF Spec, NoPressDropped

-----------------------------------------------------------------------------
(* One reading thread.                                                         *)

(* Between its check and its clear the only reader still owns the promise. *)
OwnsPromise == \A f \in Files : pc[f] \in {"take", "clear"} => f \in fresh

LEMMA OwnsPromiseStep ==
  ASSUME NEW r, Files = {r}, TypeOK, OwnsPromise, [Next]_vars
  PROVE  OwnsPromise'
<1> USE DEF TypeOK, OwnsPromise
<1>1. CASE UNCHANGED vars
  BY <1>1 DEF vars
<1>2. CASE Interrupt
  BY <1>2 DEF Interrupt
<1>3. CASE Debounced
  BY <1>3 DEF Debounced
<1>4. CASE Bounce
  BY <1>4 DEF Bounce
<1>5. CASE ChooseNotification
  BY <1>5 DEF ChooseNotification
<1>6. CASE KillFasync \/ WakeUp
  BY <1>6 DEF KillFasync, WakeUp
<1>7. ASSUME NEW f \in Files,
             \/ BeginRead(f) \/ ReadAgain(f) \/ ReadCheck(f) \/ PrepareToWait(f)
             \/ WaitSatisfied(f) \/ WaitInterrupted(f) \/ WaitSleep(f)
      PROVE  OwnsPromise'
  BY <1>7 DEF BeginRead, ReadAgain, ReadCheck, PrepareToWait, WaitSatisfied,
              WaitInterrupted, WaitSleep, Goto, Return
<1>8. ASSUME NEW f \in Files,
             \/ WaitWoken(f) \/ ReadTake(f) \/ ReadClear(f) \/ ReadFault(f)
             \/ BeginPoll(f) \/ PollWait(f) \/ PollReady(f) \/ PollInterrupted(f)
      PROVE  OwnsPromise'
  BY <1>8 DEF WaitWoken, ReadTake, ReadClear, ReadFault, BeginPoll, PollWait, PollReady,
              PollInterrupted, Goto, Return
<1>9. ASSUME NEW f \in Files,
             \/ PollSleep(f) \/ PollTimeout(f) \/ Open(f) \/ Release(f)
             \/ RaiseSignal(f) \/ EnterHandler(f) \/ LeaveHandler(f)
             \/ \E mode \in BOOLEAN : SetFasync(f, mode)
      PROVE  OwnsPromise'
  BY <1>9 DEF PollSleep, PollTimeout, Open, Release, RaiseSignal, EnterHandler,
              LeaveHandler, SetFasync, Goto, Return
<1>10. QED
  BY <1>1, <1>2, <1>3, <1>4, <1>5, <1>6, <1>7, <1>8, <1>9, NextCases

(* With one reading thread every step of the driver is a step of the atomic    *)
(* latch or leaves it alone: the separate atomic_read and atomic_set of lines  *)
(* 69-70 behave as one take.                                                   *)
THEOREM OneReaderImplementsLatch ==
  ASSUME NEW r, Files = {r}, BadBuffers = {}
  PROVE  Spec => Latch!SafeSpec
<1> USE DEF TypeOK, InCall
<1>1. Init => Latch!Init
  BY DEF Init, Latch!Init
<1>2. TypeOK /\ PromiseKept /\ OwnsPromise /\ [Next]_vars => [Latch!Next]_(Latch!vars)
  <2> SUFFICES ASSUME TypeOK, PromiseKept, OwnsPromise, [Next]_vars
               PROVE  Latch!Next \/ UNCHANGED Latch!vars
    OBVIOUS
  <2>1. CASE UNCHANGED vars
    BY <2>1 DEF vars, Latch!vars
  <2>2. CASE Interrupt
    BY <2>2 DEF Interrupt, call, Latch!vars
  <2>3. CASE Debounced
    <3>1. Latch!Press
      BY <2>3 DEF Debounced, call, Latch!Press
    <3>2. QED
      BY <3>1 DEF Latch!Next
  <2>4. CASE Bounce
    BY <2>4 DEF Bounce, call, Latch!vars
  <2>5. CASE ChooseNotification
    BY <2>5 DEF ChooseNotification, call, Latch!vars
  <2>6. CASE KillFasync \/ WakeUp
    BY <2>6 DEF KillFasync, WakeUp, call, Latch!vars
  <2>7. ASSUME NEW f \in Files, BeginRead(f) \/ BeginPoll(f) PROVE Latch!Next
    <3>1. Latch!Call(f)
      BY <2>7 DEF BeginRead, BeginPoll, InUserSpace, Goto, device, Latch!Call
    <3>2. QED
      BY <3>1 DEF Latch!Next
  <2>8. ASSUME NEW f \in Files,
               \/ ReadAgain(f) \/ WaitInterrupted(f) \/ PollReady(f)
               \/ PollInterrupted(f) \/ PollTimeout(f)
        PROVE  Latch!Next
    <3>1. PICK from \in {"check", "test", "polltest", "pollsleep"}, code \in {0, -11, -512, 1} :
            Return(f, from, code, 0) /\ key_value' = key_value
      BY <2>8 DEF ReadAgain, WaitInterrupted, PollReady, PollInterrupted, PollTimeout,
                  device, EAGAIN, ERESTARTSYS, POLLIN
    <3>2. Latch!GiveUp(f)
      BY <3>1 DEF Return, Goto, EAGAIN, ERESTARTSYS, POLLIN, Latch!GiveUp
    <3>3. QED
      BY <3>2 DEF Latch!Next
  <2>9. ASSUME NEW f \in Files, ReadClear(f) PROVE Latch!Next
    <3>1. pc[f] = "clear" /\ f \in fresh /\ key_value = 1 /\ value[f] = 1
      BY <2>9 DEF ReadClear, Return, Goto, OwnsPromise, PromiseKept
    <3>2. /\ pc' = [pc EXCEPT ![f] = "open"] /\ ret' = [ret EXCEPT ![f] = 0]
          /\ value' = value /\ key_value' = 0
      BY <2>9, <3>1 DEF ReadClear, Return, Goto
    <3>3. Latch!Deliver(f)
      BY <3>1, <3>2 DEF Latch!Deliver
    <3>4. QED
      BY <3>3 DEF Latch!Next
  <2>10. ASSUME NEW f \in Files,
                \/ ReadFault(f) \/ ReadCheck(f) \/ PrepareToWait(f) \/ WaitSatisfied(f)
                \/ WaitSleep(f) \/ WaitWoken(f) \/ PollWait(f) \/ PollSleep(f)
         PROVE  UNCHANGED Latch!vars
    BY <2>10 DEF ReadFault, ReadCheck, PrepareToWait, WaitSatisfied, WaitSleep, WaitWoken,
                 PollWait, PollSleep, Goto, device, call, Latch!vars
  <2>11. ASSUME NEW f \in Files, ReadTake(f) PROVE UNCHANGED Latch!vars
    BY <2>11 DEF ReadTake, Goto, device, Latch!vars
  <2>12. ASSUME NEW f \in Files, Open(f) \/ Release(f) PROVE UNCHANGED Latch!vars
    BY <2>12 DEF Open, Release, Goto, device, call, Latch!vars
  <2>13. ASSUME NEW f \in Files,
                \/ RaiseSignal(f) \/ EnterHandler(f) \/ LeaveHandler(f)
                \/ \E mode \in BOOLEAN : SetFasync(f, mode)
         PROVE  UNCHANGED Latch!vars
    BY <2>13 DEF RaiseSignal, EnterHandler, LeaveHandler, SetFasync, device, call,
                 Latch!vars
  <2>14. QED
    BY <2>1, <2>2, <2>3, <2>4, <2>5, <2>6, <2>7, <2>8, <2>9, <2>10, <2>11, <2>12,
       <2>13, NextCases
<1>3. Init => OwnsPromise
  BY DEF Init, OwnsPromise
<1>4. QED
  BY <1>1, <1>2, <1>3, OwnsPromiseStep, TypeCorrect, PromiseKeptHolds, PTL
     DEF Spec, Latch!SafeSpec

-----------------------------------------------------------------------------
(* The test program fasyncio_test.c: one process p with a SIGIO handler.     *)

(* The handler of f has made its read, and has its result. *)
Done(f) == f \in didRead /\ pc[f] = "open"

(* The handler of f runs and its read is still to be made or in progress. *)
Answering(f) == f \in masked /\ ~Done(f)

(* When presses are spaced out, a press is at any time with the timer handler, *)
(* or with the signal, or with p's signal handler, never with two of them, and *)
(* until p's read has taken it the latch holds it.                             *)
OnePress(p) ==
  /\ sig \subseteq {p} /\ masked \subseteq {p}
  /\ handler \in {"notify", "kill"} \/ sig # {} \/ Answering(p) => key_value = 1
  /\ handler \in {"notify", "kill"} => sig = {} /\ ~Answering(p)
  /\ sig # {} \/ Answering(p) => handler = "idle"
  /\ sig # {} => ~Answering(p)

(* Where the threads are: p reads only in its handler and never waits there,  *)
(* the others do not read.                                                     *)
Places(p) ==
  /\ \A f \in Files \ {p} : pc[f] \in {"closed", "open", "pollwait", "polltest", "pollsleep"}
  /\ pc[p] \in {"closed", "open", "check", "take", "clear"}
  /\ pc[p] \in {"check", "take", "clear"} => p \in masked /\ p \in didRead
  /\ pc[p] = "closed" => p \notin fasync \cup masked \cup sig

(* What p's handler has read. *)
Reported(p) ==
  /\ pc[p] = "clear" => value[p] = 1
  /\ p \in masked /\ Done(p) => ret[p] = 0 /\ value[p] = 1

TestInv(p) == OnePress(p) /\ Places(p) /\ Reported(p)

(* The test program does only what a user of the driver may do. *)
LEMMA TestIsUse == TestSpec => Spec
<1>1. TestInit => Init
  BY DEF TestInit
<1>2. [TestNext]_testVars => [Next]_vars
  <2> SUFFICES ASSUME TestNext PROVE Next
    BY DEF testVars
  <2>1. CASE Driver
    BY <2>1 DEF Driver, Next, TimerHandler
  <2>2. ASSUME NEW f \in Files, Watch(f) \/ Setup(f) PROVE Next
    BY <2>2 DEF Watch, Setup, Next, User, Poll
  <2>3. ASSUME NEW f \in Files, SigAction(f) \/ HandlerRead(f) \/ HandlerReturn(f) PROVE Next
    BY <2>3 DEF SigAction, HandlerRead, HandlerReturn, Next, User
  <2>4. QED
    BY <2>1, <2>2, <2>3 DEF TestNext
<1>3. QED
  BY <1>1, <1>2, PTL DEF TestSpec, Spec

LEMMA TestInvInit == ASSUME NEW p \in Files PROVE TestInit => TestInv(p)
BY DEF TestInit, Init, TestInv, OnePress, Places, Reported, Answering, Done

(* The steps of the interrupt, the timer and its handler. *)
LEMMA TestInvTimer ==
  ASSUME NEW p \in Files, Spaced, Subscribers = {p}, TypeOK, TestInv(p), UNCHANGED didRead,
         \/ Interrupt \/ (Quiet /\ Debounced) \/ Bounce
         \/ ChooseNotification \/ KillFasync \/ WakeUp
  PROVE  TestInv(p)'
<1> USE DEF TypeOK, TestInv, OnePress, Places, Reported, Answering, Done
<1>1. CASE Interrupt
  BY <1>1 DEF Interrupt, notify, call
<1>2. CASE Quiet /\ Debounced
  BY <1>2 DEF Quiet, Debounced, notify, call
<1>3. CASE Bounce
  BY <1>3 DEF Bounce, notify, call
<1>4. CASE ChooseNotification
  BY <1>4 DEF ChooseNotification, notify, call
<1>5. CASE KillFasync
  <2>1. p \notin masked \/ Done(p)
    BY <1>5 DEF KillFasync
  <2>2. fasync \subseteq {p} /\ (pc[p] = "closed" => p \notin fasync)
    OBVIOUS
  <2>3. QED
    BY <1>5, <2>1, <2>2 DEF KillFasync, call
<1>6. CASE WakeUp
  BY <1>6 DEF WakeUp, call
<1>7. QED
  BY <1>1, <1>2, <1>3, <1>4, <1>5, <1>6

(* The steps of p's read, which finds the press in the latch at every one. *)
LEMMA TestInvRead ==
  ASSUME NEW p \in Files, p \notin BadBuffers, TypeOK, TestInv(p), UNCHANGED didRead,
         NEW f \in Files, Read(f)
  PROVE  TestInv(p)'
<1> USE DEF TypeOK, TestInv, OnePress, Places, Reported, Answering, Done
<1>1. pc[f] \in {"check", "prepare", "test", "asleep", "take", "clear"}
  BY DEF Read, ReadAgain, ReadCheck, PrepareToWait, WaitSatisfied, WaitInterrupted,
         WaitSleep, WaitWoken, ReadTake, ReadClear, ReadFault, Return, Goto
<1>2. /\ f = p /\ pc[p] \in {"check", "take", "clear"}
      /\ p \in masked /\ p \in didRead
      /\ key_value = 1 /\ sig = {} /\ handler = "idle"
  BY <1>1
<1>3. CASE ReadCheck(p)
  BY <1>2, <1>3 DEF ReadCheck, Goto, device, notify, call
<1>4. CASE ReadTake(p)
  BY <1>2, <1>4 DEF ReadTake, Goto, device, notify
<1>5. CASE ReadClear(p)
  BY <1>2, <1>5 DEF ReadClear, Return, Goto, notify
<1>6. QED
  BY <1>2, <1>3, <1>4, <1>5 DEF Read, ReadAgain, PrepareToWait, WaitSatisfied,
     WaitInterrupted, WaitSleep, WaitWoken, ReadFault, Return, Goto

(* The steps of the program, and of the processes that only watch. *)
LEMMA TestInvProgram ==
  ASSUME NEW p \in Files, Subscribers = {p}, TypeOK, TestInv(p), NEW f \in Files,
         Watch(f) \/ Setup(f) \/ SigAction(f) \/ HandlerRead(f) \/ HandlerReturn(f)
  PROVE  TestInv(p)'
<1> USE DEF TypeOK, TestInv, OnePress, Places, Reported, Answering, Done
<1>1. CASE Watch(f)
  <2>1. f # p /\ UNCHANGED <<handler, key_value, fasync, sig, masked, didRead>>
    BY <1>1 DEF Watch, Open, BeginPoll, Poll, PollTimeout, PollWait, PollReady,
                PollInterrupted, PollSleep, device, notify
  <2>2. /\ pc'[p] = pc[p] /\ value'[p] = value[p] /\ ret'[p] = ret[p]
        /\ \A g \in Files \ {f} : pc'[g] = pc[g]
        /\ pc'[f] \in {"open", "pollwait", "polltest", "pollsleep"}
    BY <1>1, <2>1 DEF Watch, Open, BeginPoll, Poll, PollTimeout, PollWait, PollReady,
                PollInterrupted, PollSleep, Goto, Return, call
  <2>3. QED
    BY <2>1, <2>2
<1>2. CASE Setup(f)
  <2>1. f = p /\ p \notin masked
    BY <1>2 DEF Setup, Open, Goto
  <2>2. CASE Open(p)
    BY <1>2, <2>1, <2>2 DEF Setup, Open, Goto, device, notify, call
  <2>3. CASE SetFasync(p, TRUE)
    BY <1>2, <2>1, <2>3 DEF Setup, SetFasync, InUserSpace, device, call
  <2>4. QED
    BY <1>2, <2>1, <2>2, <2>3 DEF Setup
<1>3. CASE SigAction(f)
  <2>1. f = p /\ p \in sig /\ pc[p] = "open" /\ key_value = 1 /\ handler = "idle"
    BY <1>3 DEF SigAction, EnterHandler, SignalPending
  <2>2. sig' = {} /\ masked' = {p} /\ p \notin didRead'
    BY <1>3, <2>1 DEF SigAction, EnterHandler
  <2>3. QED
    BY <1>3, <2>1, <2>2 DEF SigAction, EnterHandler, device, call
<1>4. CASE HandlerRead(f)
  <2>1. f = p /\ pc[p] = "open" /\ key_value = 1 /\ handler = "idle" /\ sig = {}
    BY <1>4 DEF HandlerRead, BeginRead, InUserSpace
  <2>2. QED
    BY <1>4, <2>1 DEF HandlerRead, BeginRead, Goto, device, notify
<1>5. CASE HandlerReturn(f)
  <2>1. f = p /\ pc[p] = "open" /\ masked' = {} /\ p \in didRead
    BY <1>5 DEF HandlerReturn, LeaveHandler
  <2>2. QED
    BY <1>5, <2>1 DEF HandlerReturn, LeaveHandler, device, call
<1>6. QED
  BY <1>1, <1>2, <1>3, <1>4, <1>5

LEMMA TestInvariance ==
  ASSUME NEW p, Spaced, Subscribers = {p}, p \notin BadBuffers
  PROVE  TestSpec => [](TypeOK /\ TestInv(p))
<1>1. p \in Files
  BY FilesAssumption
<1>2. TestInit => TestInv(p)
  BY <1>1, TestInvInit
<1>3. TypeOK /\ TestInv(p) /\ [TestNext]_testVars => TestInv(p)'
  <2> SUFFICES ASSUME TypeOK, TestInv(p), [TestNext]_testVars PROVE TestInv(p)'
    OBVIOUS
  <2>1. CASE UNCHANGED testVars
    BY <2>1 DEF testVars, vars, TestInv, OnePress, Places, Reported, Answering, Done
  <2>2. CASE Driver
    <3>1. CASE \E f \in Files : Read(f)
      BY <1>1, <2>2, <3>1, TestInvRead DEF Driver
    <3>2. CASE ~\E f \in Files : Read(f)
      BY <1>1, <2>2, <3>2, TestInvTimer DEF Driver
    <3>3. QED
      BY <3>1, <3>2
  <2>3. ASSUME NEW f \in Files,
               Watch(f) \/ Setup(f) \/ SigAction(f) \/ HandlerRead(f) \/ HandlerReturn(f)
        PROVE  TestInv(p)'
    BY <1>1, <2>3, TestInvProgram
  <2>4. QED
    BY <2>1, <2>2, <2>3 DEF TestNext
<1>4. QED
  BY <1>2, <1>3, TestIsUse, TypeCorrect, PTL DEF TestSpec

(* When presses are spaced out, each run of the one signal handler reads the   *)
(* press it was woken for and prints it (fasyncio_test.c:18-26 on              *)
(* fasync_io.c:45-72, 117-124), whatever the other files do and whether or not *)
(* the file was opened with O_NONBLOCK.                                         *)
THEOREM HandlerReportsPressHolds ==
  ASSUME NEW p, Spaced, Subscribers = {p}, p \notin BadBuffers
  PROVE  TestSpec => HandlerReportsPress
<1> DEFINE A == \A f \in Files : f \in masked /\ f \notin masked' => ret[f] = 0 /\ value[f] = 1
<1>1. TypeOK /\ TestInv(p) /\ [TestNext]_testVars => [A]_testVars
  <2> SUFFICES ASSUME TypeOK, TestInv(p), TestNext,
                      NEW f \in Files, f \in masked, f \notin masked'
               PROVE  ret[f] = 0 /\ value[f] = 1
    OBVIOUS
  <2>1. f = p
    BY DEF TestInv, OnePress
  <2>2. HandlerReturn(p)
    <3>1. ~Driver
      BY DEF Driver, Interrupt, Debounced, Bounce, ChooseNotification, KillFasync, WakeUp,
             Read, ReadAgain, ReadCheck, PrepareToWait, WaitSatisfied, WaitInterrupted,
             WaitSleep, WaitWoken, ReadTake, ReadClear, ReadFault, device, notify
    <3>2. PICK g \in Files : HandlerReturn(g)
      BY <3>1 DEF TestNext, Watch, Setup, SigAction, HandlerRead, Open, BeginPoll, Poll,
                  PollWait, PollReady, PollInterrupted, PollSleep, PollTimeout, SetFasync,
                  EnterHandler, BeginRead, device, notify
    <3>3. g = p
      BY <2>1, <3>2 DEF HandlerReturn, LeaveHandler
    <3>4. QED
      BY <3>2, <3>3
  <2>3. Done(p)
    BY <2>2 DEF HandlerReturn, LeaveHandler, Done
  <2>4. QED
    BY <2>1, <2>3 DEF TestInv, Reported
<1>2. QED
  BY <1>1, TestInvariance, PTL DEF TestSpec, HandlerReportsPress

(* The same program never sleeps in its signal handler, and the handler can   *)
(* always take its next step: make its read, find the press at the check, take *)
(* and clear it, or return.  The read blocks nobody although it is a blocking  *)
(* one and SIGIO is masked around it (fasyncio_test.c:18-26).                  *)
THEOREM HandlerNeverSleeps ==
  ASSUME NEW p, Spaced, Subscribers = {p}, p \notin BadBuffers
  PROVE  TestSpec => [](\A f \in masked :
                          \/ f \notin didRead /\ InUserSpace(f)
                          \/ pc[f] = "check" /\ key_value = 1
                          \/ pc[f] \in {"take", "clear"}
                          \/ Done(f))
<1>1. TypeOK /\ TestInv(p) =>
        \A f \in masked : \/ f \notin didRead /\ InUserSpace(f)
                          \/ pc[f] = "check" /\ key_value = 1
                          \/ pc[f] \in {"take", "clear"}
                          \/ Done(f)
  BY DEF TestInv, OnePress, Places, Answering, Done, InUserSpace, SignalPending
<1>2. QED
  BY <1>1, TestInvariance, PTL
=============================================================================
