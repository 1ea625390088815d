------------------------------ MODULE KThread ------------------------------
(***************************************************************************)
(* kthread.c: a thread that sleeps a second at a time until it is told to  *)
(* stop.  It tests kthread_should_stop before it announces that it is      *)
(* going to sleep, so the wake-up of kthread_stop may come in between;     *)
(* only the timeout of the sleep then lets rmmod return.                   *)
(***************************************************************************)
EXTENDS Integers

VARIABLES
  module,       \* "init", "failed", "loaded", "exiting", "waiting", "unloaded"
  task,         \* the thread's next step, "gone" when kthread_fn has returned
  task_state,   \* what the scheduler knows of it: "running" or "interruptible"
  should_stop,  \* KTHREAD_SHOULD_STOP
  timeout       \* the timer of schedule_timeout is pending

vars == <<module, task, task_state, should_stop, timeout>>

TypeOK ==
  /\ module      \in {"init", "failed", "loaded", "exiting", "waiting", "unloaded"}
  /\ task        \in {"none", "test", "announce", "schedule", "asleep", "gone"}
  /\ task_state  \in {"running", "interruptible"}
  /\ should_stop \in BOOLEAN
  /\ timeout     \in BOOLEAN

Init ==
  /\ module      = "init"
  /\ task        = "none"
  /\ task_state  = "running"
  /\ should_stop = FALSE
  /\ timeout     = FALSE

(* kthread_run, which may find no memory for the thread. *)
ModuleInit ==
  /\ module = "init"
  /\ \/ module' = "loaded" /\ task' = "test"
     \/ module' = "failed" /\ task' = "none"
  /\ UNCHANGED <<task_state, should_stop, timeout>>

Test ==
  /\ task = "test"
  /\ task' = IF should_stop THEN "gone" ELSE "announce"
  /\ UNCHANGED <<module, task_state, should_stop, timeout>>

Announce ==
  /\ task = "announce"
  /\ task' = "schedule"
  /\ task_state' = "interruptible"
  /\ UNCHANGED <<module, should_stop, timeout>>

(* Mutation: schedule() instead of schedule_timeout(HZ). *)
ScheduleUntimed ==
  /\ task = "schedule"
  /\ task' = IF task_state = "interruptible" THEN "asleep" ELSE "test"
  /\ UNCHANGED <<module, task_state, should_stop, timeout>>

(* schedule_timeout(HZ); a wake-up since the announcement keeps it awake. *)
Schedule ==
  /\ task = "schedule"
  /\ \/ task_state = "interruptible" /\ task' = "asleep" /\ timeout' = TRUE
     \/ task_state = "running" /\ task' = "test" /\ UNCHANGED timeout
  /\ UNCHANGED <<module, task_state, should_stop>>

TimeoutExpires ==
  /\ task = "asleep" /\ timeout
  /\ task' = "test"
  /\ task_state' = "running"
  /\ timeout' = FALSE
  /\ UNCHANGED <<module, should_stop>>

(* kthread_stop: the flag first, *)
ModuleExit ==
  /\ module = "loaded"
  /\ module' = "exiting"
  /\ should_stop' = TRUE
  /\ UNCHANGED <<task, task_state, timeout>>

(* then wake_up_process, which ends a sleep or undoes its announcement, *)
WakeUp ==
  /\ module = "exiting"
  /\ module' = "waiting"
  /\ task_state' = "running"
  /\ task' = IF task = "asleep" THEN "test" ELSE task
  /\ timeout' = FALSE
  /\ UNCHANGED should_stop

(* and the wait for the thread to return. *)
StopReturned ==
  /\ module = "waiting" /\ task = "gone"
  /\ module' = "unloaded"
  /\ UNCHANGED <<task, task_state, should_stop, timeout>>

Thread == Test \/ Announce \/ Schedule \/ TimeoutExpires
Module == WakeUp \/ StopReturned

Next == ModuleInit \/ ModuleExit \/ Thread \/ Module

(* The scheduler runs whoever is awake, timers expire, rmmod is not left   *)
(* halfway; nobody has to call it.                                         *)
Spec == Init /\ [][Next]_vars /\ WF_vars(Thread) /\ WF_vars(Module)
-----------------------------------------------------------------------------
(* rmmod returns, wherever in its loop the thread is when it is told to    *)
(* stop, and the module's code goes only after kthread_fn has returned.    *)
ExitReturns == module = "exiting" ~> module = "unloaded" /\ task = "gone"
=============================================================================
