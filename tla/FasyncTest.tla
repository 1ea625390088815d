----------------------------- MODULE FasyncTest -----------------------------
(***************************************************************************)
(* The test program fasyncio_test.c running on the fasync_io driver: each  *)
(* process opens the device, asks for SIGIO and then only sleeps; its      *)
(* SIGIO handler reads the key with a blocking read, because the file was  *)
(* opened without O_NONBLOCK, and SIGIO is blocked while the handler runs. *)
(***************************************************************************)
EXTENDS ButtonIO

CONSTANT Spaced  \* TRUE: a press comes only after the read for the previous one

ASSUME SpacedAssumption == Spaced \in BOOLEAN

VARIABLE didRead  \* the processes whose handler has made its read

testVars == <<vars, didRead>>

TestInit == Init /\ didRead = {}

(* Another process only watches the device with select(). *)
Watch(f) ==
  /\ f \notin Subscribers
  /\ Open(f) \/ BeginPoll(f) \/ Poll(f) \/ PollTimeout(f)
  /\ UNCHANGED didRead

(* main: open, then fcntl(F_SETFL, flags | FASYNC); it never closes. *)
Setup(f) ==
  /\ f \in Subscribers
  /\ \/ Open(f)
     \/ SetFasync(f, TRUE) /\ f \notin masked /\ f \notin fasync
  /\ UNCHANGED didRead

(* sig_action runs, with SIGIO blocked. *)
SigAction(f) ==
  /\ EnterHandler(f)
  /\ didRead' = didRead \ {f}

(* Line 20: the handler reads. *)
HandlerRead(f) ==
  /\ f \in masked /\ f \notin didRead
  /\ BeginRead(f)
  /\ didRead' = didRead \cup {f}

HandlerReturn(f) ==
  /\ f \in didRead
  /\ LeaveHandler(f)
  /\ UNCHANGED didRead

(* No SIGIO is waiting for its handler, and no handler for its read. *)
Quiet == sig = {} /\ \A f \in masked : f \in didRead /\ pc[f] = "open"

Driver ==
  /\ \/ Interrupt
     \/ (Spaced => Quiet) /\ Debounced
     \/ Bounce \/ ChooseNotification \/ KillFasync \/ WakeUp
     \/ \E f \in Files : Read(f)
  /\ UNCHANGED didRead

TestNext ==
  \/ Driver
  \/ \E f \in Files : Watch(f) \/ Setup(f) \/ SigAction(f) \/ HandlerRead(f) \/ HandlerReturn(f)

(* The processes run, the handler of the timer finishes. *)
TestFairness ==
  /\ WF_testVars(ChooseNotification /\ UNCHANGED didRead)
  /\ WF_testVars((KillFasync \/ WakeUp) /\ UNCHANGED didRead)
  /\ \A f \in Files : /\ WF_testVars(Read(f) /\ UNCHANGED didRead)
                      /\ WF_testVars(SigAction(f))
                      /\ WF_testVars(HandlerRead(f))
                      /\ WF_testVars(HandlerReturn(f))

TestSpec == TestInit /\ [][TestNext]_testVars /\ TestFairness

(* A user who never stops pressing the button: even that wakes nobody up. *)
PressingSpec ==
  /\ TestSpec
  /\ WF_testVars(Interrupt /\ UNCHANGED didRead)
  /\ SF_testVars(Debounced /\ UNCHANGED didRead)

(* fasyncio_test.c:18-20 takes POLL_IN as `a read will not block': once its   *)
(* handler runs, it reports the key and returns.                              *)
HandlerReturns == \A f \in Files : (f \in masked) ~> (f \notin masked)

(* The same, and it reports the press it was woken for: when presses are      *)
(* spaced out, each handler run ends with `key press' printed (line 26).      *)
HandlerReportsPress ==
  [][ \A f \in Files : f \in masked /\ f \notin masked' => ret[f] = 0 /\ value[f] = 1 ]_testVars
=============================================================================
