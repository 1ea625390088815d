----------------------------- MODULE Lifecycle -----------------------------
(***************************************************************************)
(* How every driver of the repository comes and goes: a probe (or module   *)
(* init) acquires resources one by one and may fail at each, unwinding     *)
(* what it has; a remove (or module exit) releases them; managed (devm_)   *)
(* resources are released by the driver core afterwards, last first.       *)
(* Meanwhile everything registered so far may be called: interrupts,       *)
(* timers, opens, ...  The drivers are data (module DriverTables); this    *)
(* module is the machine that runs them, against every failure and every   *)
(* interleaving with their own entry points.                               *)
(*                                                                         *)
(* A driver is a record:                                                   *)
(*   steps   its probe, a sequence of records                              *)
(*             gets   what the step acquires, a set of resources           *)
(*             arms   the asynchronous activities it starts                *)
(*             kind   "owned", "managed" (devm_), or "fact": an            *)
(*                    initialisation, that goes with the memory it is in   *)
(*             fails  "never", "error", "success" (the probe gives up but  *)
(*                    returns a value that is no error) or "unnoticed"     *)
(*             undo   what the probe releases when the step fails          *)
(*   remove  what its remove function releases, in order                   *)
(*   calls   its entry points: name, via (the resource or the activity     *)
(*           through which it is reached), uses, arms                      *)
(*   needs   pairs <<r, s>>: r must not outlive s                          *)
(*   pins    the activities that hold a reference on the module            *)
(***************************************************************************)
EXTENDS Naturals, SequencesExt

CONSTANTS
  Drivers,     \* the drivers: a function from names to records
  KnownEarly,  \* entry points reachable too early: pairs <<driver, call>>
  KnownLate,   \* entry points reachable too late: pairs <<driver, call>>
  KnownLeaks,  \* resources left behind: pairs <<driver, resource>>
  KnownStrays, \* released without being held: pairs <<driver, resource>>
  KnownGaps,   \* missing in a bound driver: pairs <<driver, resource>>
  KnownOrphans \* outliving what they need: pairs <<driver, resource>>

VARIABLES
  driver,  \* the driver that is loaded
  phase,   \* where it is in its life
  pc,      \* the next step of its probe
  todo,    \* what the function that runs still has to release
  held,    \* the resources it has acquired and not released
  devres,  \* the managed ones, in the order they were acquired
  armed,   \* asynchronous activities: pending timers, queued work, ...
  result   \* what the probe returns

vars == <<driver, phase, pc, todo, held, devres, armed, result>>

this == Drivers[driver]

(* Of a driver d. *)
Steps(d) == Drivers[d].steps
Calls(d) == Drivers[d].calls

Resources(d)  == UNION {Steps(d)[i].gets : i \in DOMAIN Steps(d)}
Activities(d) ==
  UNION ({Steps(d)[i].arms : i \in DOMAIN Steps(d)} \cup {c.arms : c \in Calls(d)})
Facts(d) ==
  UNION {Steps(d)[i].gets : i \in {j \in DOMAIN Steps(d) : Steps(d)[j].kind = "fact"}}

(* What a call on an error path or in a remove function may be given: what *)
(* the driver has, or what is known to be released without being held.     *)
Releasable(d) ==
  Resources(d) \cup Activities(d) \cup {p[2] : p \in {q \in KnownStrays : q[1] = d}}

Phases == {"absent", "probing", "unwinding", "up", "removing", "releasing", "gone"}

TypeOK ==
  /\ driver \in DOMAIN Drivers
  /\ phase  \in Phases
  /\ pc     \in 1..(Len(Steps(driver)) + 1)
  /\ todo   \in Seq(Releasable(driver))
  /\ held   \subseteq Resources(driver)
  /\ devres \in Seq(Resources(driver))
  /\ armed  \subseteq Activities(driver)
  /\ result \in {"none", "error", "success"}

Init ==
  /\ driver \in DOMAIN Drivers
  /\ phase  = "absent"
  /\ pc     = 1
  /\ todo   = <<>>
  /\ held   = {}
  /\ devres = <<>>
  /\ armed  = {}
  /\ result = "none"

(* The bus finds a device for the driver, or insmod runs the module's init. *)
Load ==
  /\ phase  = "absent"
  /\ phase' = "probing"
  /\ UNCHANGED <<driver, pc, todo, held, devres, armed, result>>

step == Steps(driver)[pc]

(* A step succeeds. *)
Acquire ==
  /\ phase = "probing"
  /\ pc <= Len(Steps(driver))
  /\ held'   = held \cup step.gets
  /\ armed'  = armed \cup step.arms
  /\ devres' = IF step.kind = "managed" THEN devres \o SetToSeq(step.gets) ELSE devres
  /\ pc'     = pc + 1
  /\ UNCHANGED <<driver, phase, todo, result>>

(* A step fails, and the probe jumps to its error label. *)
Fail ==
  /\ phase = "probing"
  /\ pc <= Len(Steps(driver))
  /\ step.fails \in {"error", "success"}
  /\ phase'  = "unwinding"
  /\ todo'   = step.undo
  /\ result' = step.fails
  /\ UNCHANGED <<driver, pc, held, devres, armed>>

(* A step fails, and the probe does not look. *)
FailUnnoticed ==
  /\ phase = "probing"
  /\ pc <= Len(Steps(driver))
  /\ step.fails = "unnoticed"
  /\ pc' = pc + 1
  /\ UNCHANGED <<driver, phase, todo, held, devres, armed, result>>

Bind ==
  /\ phase = "probing"
  /\ pc > Len(Steps(driver))
  /\ phase'  = "up"
  /\ result' = "success"
  /\ UNCHANGED <<driver, pc, todo, held, devres, armed>>

(* The driver releases something: a call on an error path or in its remove function. *)
Release ==
  /\ phase \in {"unwinding", "removing"}
  /\ todo # <<>>
  /\ held'  = held \ {Head(todo)}
  /\ armed' = armed \ {Head(todo)}
  /\ todo'  = Tail(todo)
  /\ UNCHANGED <<driver, phase, pc, devres, result>>

(* The probe returns from its error path; the core believes what it returns. *)
Unwound ==
  /\ phase = "unwinding"
  /\ todo = <<>>
  /\ phase' = IF result = "success" THEN "up" ELSE "releasing"
  /\ UNCHANGED <<driver, pc, todo, held, devres, armed, result>>

(* The device goes away, or rmmod, which a reference refuses, runs the     *)
(* module's exit function.                                                 *)
Unbind ==
  /\ phase = "up"
  /\ armed \cap this.pins = {}
  /\ phase' = "removing"
  /\ todo'  = this.remove
  /\ UNCHANGED <<driver, pc, held, devres, armed, result>>

Removed ==
  /\ phase = "removing"
  /\ todo = <<>>
  /\ phase' = "releasing"
  /\ UNCHANGED <<driver, pc, todo, held, devres, armed, result>>

(* The driver core releases the managed resource that was acquired last. *)
ReleaseManaged ==
  /\ phase = "releasing"
  /\ devres # <<>>
  /\ held'   = held \ {Last(devres)}
  /\ devres' = Front(devres)
  /\ UNCHANGED <<driver, phase, pc, todo, armed, result>>

Gone ==
  /\ phase = "releasing"
  /\ devres = <<>>
  /\ phase' = "gone"
  /\ held'  = held \ Facts(driver)
  /\ UNCHANGED <<driver, pc, todo, devres, armed, result>>

Reachable(c) == c.via \in held \cup armed

(* An entry point of the driver runs; a timer that fires is not pending any more. *)
Call ==
  /\ \E c \in Calls(driver) :
       /\ Reachable(c)
       /\ armed' = (armed \ {c.via}) \cup c.arms
  /\ UNCHANGED <<driver, phase, pc, todo, held, devres, result>>

Next ==
  \/ Load
  \/ Acquire
  \/ Fail
  \/ FailUnnoticed
  \/ Bind
  \/ Release
  \/ Unwound
  \/ Unbind
  \/ Removed
  \/ ReleaseManaged
  \/ Gone
  \/ Call

Spec == Init /\ [][Next]_vars

-----------------------------------------------------------------------------
(* The driver may be entered only through what is set up: whatever an      *)
(* entry point uses is there whenever it can be reached, in the middle of  *)
(* a probe (register last), of an error path and of a removal (stop the    *)
(* timer after what arms it and before what it uses).                      *)
ReadyWhenCalled ==
  \A c \in Calls(driver) :
    Reachable(c) /\ ~ c.uses \subseteq held
      => <<driver, c.name>> \in
           IF phase = "probing" THEN KnownEarly ELSE KnownLate

(* A probe that fails after any prefix of its steps, and a removal, leave  *)
(* nothing behind.                                                         *)
NothingLeaks ==
  phase = "gone" => \A r \in held : <<driver, r>> \in KnownLeaks

(* No error label and no remove function releases what is not held: no     *)
(* double free, no unregistering of what was never registered.             *)
NoStrayRelease ==
  todo # <<>> /\ Head(todo) \notin held \cup Activities(driver)
    => <<driver, Head(todo)>> \in KnownStrays

(* A driver whose probe returned success has everything its probe acquires. *)
BoundMeansComplete ==
  phase = "up" => \A r \in Resources(driver) \ held : <<driver, r>> \in KnownGaps

(* Nothing outlives what it is built on, at any point of a probe, an error *)
(* path, a removal or the release of the managed resources.                *)
DependentsFirst ==
  \A p \in this.needs :
    p[1] \in held => p[2] \in held \/ <<driver, p[1]>> \in KnownOrphans
=============================================================================
