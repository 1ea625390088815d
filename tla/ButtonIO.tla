------------------------------ MODULE ButtonIO ------------------------------
(***************************************************************************)
(* The GPIO button character device, in its three variants: block_io.c,    *)
(* nonblock_io.c (adds poll) and fasync_io.c (adds SIGIO).  Line numbers   *)
(* are those of fasync_io.c; block_io.c has Pollers = Subscribers = {},    *)
(* nonblock_io.c has Subscribers = {}.  Each open file is used by one      *)
(* thread, named after the file; every atomic access to key_value, every   *)
(* queueing and every wake-up is a step of its own.                        *)
(***************************************************************************)
EXTENDS Integers, FiniteSets

CONSTANTS
  Files,        \* open files of the device, each with its thread
  NonBlocking,  \* the files opened with O_NONBLOCK
  Pollers,      \* the files that are passed to select()/poll()
  Subscribers,  \* the files that may be put in FASYNC mode
  BadBuffers    \* the files read into memory that cannot be written

ASSUME FilesAssumption ==
  /\ NonBlocking \subseteq Files
  /\ Pollers     \subseteq Files
  /\ Subscribers \subseteq Files
  /\ BadBuffers  \subseteq Files

EAGAIN      == 11
ERESTARTSYS == 512
POLLIN      == 1
SizeofValue == 4

VARIABLES
  timer,      \* the debounce timer is pending
  handler,    \* debounce_timer_handler: "idle", or the call it is about to make
  key_value,  \* p->key_value
  fasync,     \* p->fasync: the files on the asynchronous notification list
  wq,         \* p->wq: waiters that the next wake-up makes runnable
  sig,        \* threads with a signal pending
  masked,     \* threads inside their signal handler, where it is blocked
  pc,         \* where each thread is in its system call
  value,      \* the local `value', and what the caller's buffer receives
  ret,        \* the result of the last call
  fresh       \* history: who saw key_value = 1 that no read has cleared since

vars == <<timer, handler, key_value, fasync, wq, sig, masked, pc, value, ret, fresh>>

device == <<timer, handler, key_value>>
notify == <<fasync, wq, sig, masked>>
call   == <<value, ret>>

PC == {"closed", "open", "check", "prepare", "test", "asleep", "take", "clear",
       "pollwait", "polltest", "pollsleep"}

TypeOK ==
  /\ timer     \in BOOLEAN
  /\ handler   \in {"idle", "notify", "kill", "wake"}
  /\ key_value \in {0, 1}
  /\ fasync    \subseteq Subscribers
  /\ wq        \subseteq Files
  /\ sig       \subseteq Files
  /\ masked    \subseteq Files
  /\ pc        \in [Files -> PC]
  /\ value     \in [Files -> {0, 1}]
  /\ ret       \in [Files -> {0, -EAGAIN, -ERESTARTSYS, POLLIN, SizeofValue}]
  /\ fresh     \subseteq Files

Init ==
  /\ timer     = FALSE
  /\ handler   = "idle"
  /\ key_value = 0
  /\ fasync    = {}
  /\ wq        = {}
  /\ sig       = {}
  /\ masked    = {}
  /\ pc        = [f \in Files |-> "closed"]
  /\ value     = [f \in Files |-> 0]
  /\ ret       = [f \in Files |-> 0]
  /\ fresh     = {}

-----------------------------------------------------------------------------
(* Interrupt and debounce timer.                                           *)

(* gpio_interrupt_handler: mod_timer arms the timer, or moves a pending one. *)
Interrupt ==
  /\ timer' = TRUE
  /\ UNCHANGED <<handler, key_value, notify, pc, call, fresh>>

(* The timer expires and the level read back is 0: the press is recorded.  *)
(* A timer never runs on two CPUs at once, but may be re-armed meanwhile.   *)
Debounced ==
  /\ timer /\ handler = "idle"
  /\ timer'     = FALSE
  /\ key_value' = 1
  /\ handler'   = "notify"
  /\ UNCHANGED <<notify, pc, call, fresh>>

(* Mutation: a bounce clears the latch. *)
BounceClears ==
  /\ timer /\ handler = "idle"
  /\ timer'     = FALSE
  /\ key_value' = 0
  /\ UNCHANGED <<handler, notify, pc, call, fresh>>

(* Mutation: a bounce notifies although it records nothing. *)
BounceNotifies ==
  /\ timer /\ handler = "idle"
  /\ timer'   = FALSE
  /\ handler' = "notify"
  /\ UNCHANGED <<key_value, notify, pc, call, fresh>>

(* The timer expires and the level is 1: a bounce, nothing is recorded. *)
Bounce ==
  /\ timer /\ handler = "idle"
  /\ timer' = FALSE
  /\ UNCHANGED <<handler, key_value, notify, pc, call, fresh>>

(* Mutation: without subscribers nobody is woken up. *)
ChooseNoWakeUp ==
  /\ handler = "notify"
  /\ handler' = IF fasync # {} THEN "kill" ELSE "idle"
  /\ UNCHANGED <<timer, key_value, notify, pc, call, fresh>>

(* Line 121: the list is tested once; what it decides is done in a later step. *)
ChooseNotification ==
  /\ handler = "notify"
  /\ handler' = IF fasync # {} THEN "kill" ELSE "wake"
  /\ UNCHANGED <<timer, key_value, notify, pc, call, fresh>>

(* kill_fasync: SIGIO to every subscriber; a thread that blocks the signal  *)
(* keeps sleeping.                                                          *)
KillFasync ==
  /\ handler = "kill"
  /\ handler' = "idle"
  /\ sig' = sig \cup fasync
  /\ wq'  = wq \ (fasync \ masked)
  /\ UNCHANGED <<timer, key_value, fasync, masked, pc, call, fresh>>

(* wake_up_interruptible: waits are not exclusive, everybody is woken. *)
WakeUp ==
  /\ handler = "wake"
  /\ handler' = "idle"
  /\ wq' = {}
  /\ UNCHANGED <<timer, key_value, fasync, sig, masked, pc, call, fresh>>

-----------------------------------------------------------------------------
(* Helpers for the threads.                                                *)

Goto(f, from, to) ==
  /\ pc[f] = from
  /\ pc' = [pc EXCEPT ![f] = to]

(* Back to user space with result r and buffer content v. *)
Return(f, from, r, v) ==
  /\ Goto(f, from, "open")
  /\ ret'   = [ret EXCEPT ![f] = r]
  /\ value' = [value EXCEPT ![f] = v]

SignalPending(f) == f \in sig \ masked

(* A thread starts a call only once its pending signals are handled. *)
InUserSpace(f) == pc[f] = "open" /\ ~SignalPending(f)

-----------------------------------------------------------------------------
(* char_dev_read.                                                          *)

BeginRead(f) ==
  /\ InUserSpace(f)
  /\ Goto(f, "open", "check")
  /\ value' = [value EXCEPT ![f] = 0]
  /\ ret'   = [ret EXCEPT ![f] = 0]
  /\ UNCHANGED <<device, notify, fresh>>

(* Lines 45-49 with an empty latch on a file opened with O_NONBLOCK. *)
ReadAgain(f) ==
  /\ key_value = 0
  /\ f \in NonBlocking
  /\ Return(f, "check", -EAGAIN, 0)
  /\ UNCHANGED <<device, notify, fresh>>

(* Lines 45-46, the other outcomes. *)
ReadCheck(f) ==
  /\ \/ /\ key_value = 1
        /\ Goto(f, "check", "take")
        /\ fresh' = fresh \cup {f}
     \/ /\ key_value = 0
        /\ f \notin NonBlocking
        /\ Goto(f, "check", "prepare")
        /\ UNCHANGED fresh
  /\ UNCHANGED <<device, notify, call>>

(* wait_event_interruptible: queue first, unless a signal is pending ... *)
PrepareToWait(f) ==
  /\ Goto(f, "prepare", "test")
  /\ wq' = IF SignalPending(f) THEN wq ELSE wq \cup {f}
  /\ UNCHANGED <<device, fasync, sig, masked, call, fresh>>

(* ... then test the condition: it wins over a signal ... *)
WaitSatisfied(f) ==
  /\ key_value = 1
  /\ Goto(f, "test", "take")
  /\ wq'    = wq \ {f}
  /\ fresh' = fresh \cup {f}
  /\ UNCHANGED <<device, fasync, sig, masked, call>>

(* ... else a signal ends the wait, and else the thread sleeps.  A signal   *)
(* that came after the queueing is seen by the next round.                  *)
WaitInterrupted(f) ==
  /\ key_value = 0
  /\ SignalPending(f) /\ f \notin wq
  /\ Return(f, "test", -ERESTARTSYS, 0)
  /\ UNCHANGED <<device, notify, fresh>>

(* Mutation: the sleep of lines 51-56 (#if 0), which tests nothing once the *)
(* thread is queued.                                                        *)
WaitSleepUntested(f) ==
  /\ f \in wq \/ ~SignalPending(f)
  /\ Goto(f, "test", "asleep")
  /\ UNCHANGED <<device, notify, call, fresh>>

WaitSleep(f) ==
  /\ key_value = 0
  /\ f \in wq \/ ~SignalPending(f)
  /\ Goto(f, "test", "asleep")
  /\ UNCHANGED <<device, notify, call, fresh>>

WaitWoken(f) ==
  /\ f \notin wq
  /\ Goto(f, "asleep", "prepare")
  /\ UNCHANGED <<device, notify, call, fresh>>

(* Mutation: lines 69 and 70 swapped. *)
ReadTakeAfterClear(f) ==
  /\ Goto(f, "take", "clear")
  /\ key_value' = 0
  /\ value' = [value EXCEPT ![f] = 0]
  /\ UNCHANGED <<timer, handler, notify, ret, fresh>>

(* Line 69. *)
ReadTake(f) ==
  /\ Goto(f, "take", "clear")
  /\ value' = [value EXCEPT ![f] = key_value]
  /\ UNCHANGED <<device, notify, ret, fresh>>

(* Mutation: line 70 is missing. *)
ReadKeeps(f) ==
  /\ f \notin BadBuffers
  /\ Return(f, "clear", 0, value[f])
  /\ fresh' = {}
  /\ UNCHANGED <<device, notify>>

(* Lines 70-72: the latch is emptied, then the value copied out. *)
ReadClear(f) ==
  /\ f \notin BadBuffers
  /\ Return(f, "clear", 0, value[f])
  /\ key_value' = 0
  /\ fresh' = {}
  /\ UNCHANGED <<timer, handler, notify>>

(* copy_to_user fails: the result is the number of bytes it left uncopied. *)
ReadFault(f) ==
  /\ f \in BadBuffers
  /\ Return(f, "clear", SizeofValue, 0)
  /\ key_value' = 0
  /\ fresh' = {}
  /\ UNCHANGED <<timer, handler, notify>>

-----------------------------------------------------------------------------
(* char_dev_poll, under select().                                          *)

BeginPoll(f) ==
  /\ f \in Pollers
  /\ InUserSpace(f)
  /\ Goto(f, "open", "pollwait")
  /\ value' = [value EXCEPT ![f] = 0]
  /\ ret'   = [ret EXCEPT ![f] = 0]
  /\ UNCHANGED <<device, notify, fresh>>

(* Line 80, poll_wait; a later round re-arms the same queue entry. *)
PollWait(f) ==
  /\ \/ Goto(f, "pollwait", "polltest")
     \/ f \notin wq /\ Goto(f, "pollsleep", "polltest")
  /\ wq' = wq \cup {f}
  /\ UNCHANGED <<device, fasync, sig, masked, call, fresh>>

(* Mutation: poll takes the press it reports. *)
PollReadyTakes(f) ==
  /\ key_value = 1
  /\ Return(f, "polltest", POLLIN, 0)
  /\ key_value' = 0
  /\ wq'    = wq \ {f}
  /\ fresh' = fresh \cup {f}
  /\ UNCHANGED <<timer, handler, fasync, sig, masked>>

(* Lines 82-83. *)
PollReady(f) ==
  /\ key_value = 1
  /\ Return(f, "polltest", POLLIN, 0)
  /\ wq'    = wq \ {f}
  /\ fresh' = fresh \cup {f}
  /\ UNCHANGED <<device, fasync, sig, masked>>

(* Line 87 with an empty mask: select() looks at signals, then sleeps. *)
PollInterrupted(f) ==
  /\ key_value = 0
  /\ SignalPending(f)
  /\ Return(f, "polltest", -ERESTARTSYS, 0)
  /\ wq' = wq \ {f}
  /\ UNCHANGED <<device, fasync, sig, masked, fresh>>

(* Mutation: the key is tested before poll_wait, not after it. *)
PollSleepUntested(f) ==
  /\ ~SignalPending(f)
  /\ Goto(f, "polltest", "pollsleep")
  /\ UNCHANGED <<device, notify, call, fresh>>

PollSleep(f) ==
  /\ key_value = 0
  /\ ~SignalPending(f)
  /\ Goto(f, "polltest", "pollsleep")
  /\ UNCHANGED <<device, notify, call, fresh>>

(* select()'s timeout (1.5 s in nonblockio_test.c); it polls a last time. *)
PollTimeout(f) ==
  /\ IF key_value = 1
     THEN Return(f, "pollsleep", POLLIN, 0) /\ fresh' = fresh \cup {f}
     ELSE Return(f, "pollsleep", 0, 0) /\ UNCHANGED fresh
  /\ wq' = wq \ {f}
  /\ UNCHANGED <<device, fasync, sig, masked>>

-----------------------------------------------------------------------------
(* open, fcntl(F_SETFL), close, and signals.                               *)

Open(f) ==
  /\ Goto(f, "closed", "open")
  /\ UNCHANGED <<device, notify, call, fresh>>

(* char_dev_fasync(fd, file, mode). *)
SetFasync(f, mode) ==
  /\ f \in Subscribers
  /\ InUserSpace(f)
  /\ fasync' = IF mode THEN fasync \cup {f} ELSE fasync \ {f}
  /\ UNCHANGED <<device, wq, sig, masked, pc, call, fresh>>

(* Mutation: release clears the latch. *)
ReleaseClears(f) ==
  /\ InUserSpace(f) /\ f \notin masked /\ f \notin sig
  /\ Goto(f, "open", "closed")
  /\ key_value' = 0
  /\ fasync' = fasync \ {f}
  /\ UNCHANGED <<timer, handler, wq, sig, masked, call, fresh>>

(* char_dev_release takes the file off the list. *)
Release(f) ==
  /\ InUserSpace(f) /\ f \notin masked /\ f \notin sig
  /\ Goto(f, "open", "closed")
  /\ fasync' = fasync \ {f}
  /\ UNCHANGED <<device, wq, sig, masked, call, fresh>>

(* Somebody else signals the thread (SIGCHLD in blockio_test.c). *)
RaiseSignal(f) ==
  /\ pc[f] # "closed"
  /\ sig' = sig \cup {f}
  /\ wq'  = IF f \in masked THEN wq ELSE wq \ {f}
  /\ UNCHANGED <<device, fasync, masked, pc, call, fresh>>

EnterHandler(f) ==
  /\ pc[f] = "open" /\ SignalPending(f)
  /\ sig'    = sig \ {f}
  /\ masked' = masked \cup {f}
  /\ UNCHANGED <<device, fasync, wq, pc, call, fresh>>

LeaveHandler(f) ==
  /\ pc[f] = "open" /\ f \in masked
  /\ masked' = masked \ {f}
  /\ UNCHANGED <<device, fasync, wq, sig, pc, call, fresh>>

-----------------------------------------------------------------------------
TimerHandler == Debounced \/ Bounce \/ ChooseNotification \/ KillFasync \/ WakeUp

(* What the kernel does on behalf of a thread that is inside a call. *)
Read(f) == ReadAgain(f) \/ ReadCheck(f) \/ PrepareToWait(f) \/ WaitSatisfied(f)
           \/ WaitInterrupted(f) \/ WaitSleep(f) \/ WaitWoken(f)
           \/ ReadTake(f) \/ ReadClear(f) \/ ReadFault(f)

Poll(f) == PollWait(f) \/ PollReady(f) \/ PollInterrupted(f) \/ PollSleep(f)

(* What the thread itself chooses to do. *)
User(f) == Open(f) \/ BeginRead(f) \/ BeginPoll(f) \/ Release(f) \/ LeaveHandler(f)
           \/ \E mode \in BOOLEAN : SetFasync(f, mode)

Next ==
  \/ Interrupt
  \/ TimerHandler
  \/ \E f \in Files : Read(f) \/ Poll(f) \/ PollTimeout(f)
                      \/ User(f) \/ RaiseSignal(f) \/ EnterHandler(f)

Spec == Init /\ [][Next]_vars

(* Pending timers expire, a running handler finishes, and a thread inside a *)
(* call that can run is scheduled.  Nobody owes us a press, a call or a     *)
(* signal, and select()'s timeout is not relied upon.                       *)
Fairness ==
  /\ WF_vars(TimerHandler)
  /\ \A f \in Files : WF_vars(Read(f)) /\ WF_vars(Poll(f))

FairSpec == Spec /\ Fairness

-----------------------------------------------------------------------------
(* Properties.                                                             *)

Sleeping(f) == pc[f] \in {"asleep", "pollsleep"}

(* A reader or poller never sleeps through a recorded press: if key_value is  *)
(* set while it is asleep and queued, the handler that set it still has its   *)
(* wake_up_interruptible call to make (without FASYNC subscribers, lines      *)
(* 120-124 against the queue-then-test order of lines 62 and 80-82).          *)
NoLostWakeup ==
  Subscribers = {} =>
    \A f \in wq : Sleeping(f) /\ key_value = 1 => handler # "idle"

(* What a check promises holds until some read clears it: a thread that was   *)
(* told the key is down (read's test at 45 or 62, POLLIN at 83) and that no   *)
(* read overtook still finds key_value = 1, and the value it takes is 1.      *)
PromiseKept ==
  \A f \in fresh :
    /\ key_value = 1
    /\ pc[f] = "clear" => value[f] = 1

(* A recorded press leaves the latch only through the clear at line 70 of a   *)
(* read that reports it, or of one overtaken by another read between its      *)
(* check and its clear (then two readers raced): it is never dropped by       *)
(* -EAGAIN, by an interrupted wait, by poll or by a bounce.  The exception is *)
(* a read into a bad buffer, which loses it at line 72.                       *)
NoPressDropped ==
  [][ key_value = 1 /\ key_value' = 0 =>
        \E f \in Files : /\ pc[f] = "clear"
                         /\ f \notin BadBuffers =>
                              ret'[f] = 0 /\ (value'[f] = 1 \/ f \notin fresh) ]_vars

(* A thread blocked in read or poll while the key is recorded gets out of its *)
(* call, unless another reader takes the press (wake_up at line 124).         *)
BlockedThreadServed ==
  \A f \in Files :
    (Sleeping(f) /\ key_value = 1) ~> (pc[f] = "open" \/ key_value = 0)

(* With a single reading thread the non-atomic read-then-clear of lines 69-70 *)
(* is indistinguishable from an atomic latch (with a good buffer).            *)
InCall(f) == pc[f] \notin {"open", "closed"}

Latch == INSTANCE KeyLatch WITH
           Readers  <- Files,
           pressed  <- key_value,
           reading  <- {f \in Files : InCall(f)},
           reported <- {f \in Files : ~InCall(f) /\ ret[f] = 0 /\ value[f] = 1}

ImplementsLatch == Latch!Spec
=============================================================================
