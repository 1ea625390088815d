------------------------------ MODULE FakeIio ------------------------------
(***************************************************************************)
(* fake_iiodev.c: a light sensor simulated by a timer.  The timer counts   *)
(* the first channel up, derives the second from it, pushes an event for   *)
(* each enabled threshold that is met, and starts itself again.  A trigger *)
(* copies both channels into the buffer; sysfs reads and writes the        *)
(* thresholds and the period.  priv->lock is taken by the timer as well,   *)
(* which the kernel forbids in a timer: here it waits like anybody else.   *)
(***************************************************************************)
EXTENDS Integers

CONSTANTS
  Levels,    \* the values of an unsigned char: 256
  Periods,   \* the integers sysfs hands to write_raw
  Values     \* the integers it hands to write_event_value

VARIABLES
  current_lux,   \* of each channel
  event,         \* whether each channel reports events
  high_thresh, low_thresh,
  freq,          \* the period; an unsigned int, any request goes into it
  lock,          \* who holds priv->lock: "nobody", "timer" or "trigger"
  armed,         \* the timer is pending
  timer,         \* the callback's next step
  trigger,       \* the trigger handler's next step
  data,          \* its local copy of both channels
  events         \* what the timer's last run reported: <<channel, direction>>

settings == <<event, high_thresh, low_thresh, freq>>

vars == <<current_lux, settings, lock, armed, timer, trigger, data, events>>

Channels == {0, 1}
Level    == 0 .. Levels - 1

TypeOK ==
  /\ current_lux \in [Channels -> Level]
  /\ event       \in [Channels -> BOOLEAN]
  /\ high_thresh \in [Channels -> Level]
  /\ low_thresh  \in [Channels -> Level]
  /\ freq        \in Periods \cup {1}
  /\ lock        \in {"nobody", "timer", "trigger"}
  /\ armed       \in BOOLEAN
  /\ timer       \in {"idle", "lock", "count", "derive", "report"}
  /\ trigger     \in {"idle", "lock", "copy 0", "copy 1", "unlock", "push"}
  /\ data        \in [Channels -> Level]
  /\ events      \subseteq Channels \X {"rising", "falling"}

(* The private data is zeroed; the probe sets the period and the timer. *)
Init ==
  /\ current_lux = [c \in Channels |-> 0]
  /\ event       = [c \in Channels |-> FALSE]
  /\ high_thresh = [c \in Channels |-> 0]
  /\ low_thresh  = [c \in Channels |-> 0]
  /\ freq        = 1
  /\ lock        = "nobody"
  /\ armed       = TRUE
  /\ timer       = "idle"
  /\ trigger     = "idle"
  /\ data        = [c \in Channels |-> 0]
  /\ events      = {}
-----------------------------------------------------------------------------
(* lux_auto_change.  It may run at any time after it was armed: a period   *)
(* of 0 or less, which write_raw accepts, is over at once.                 *)
TimerFires ==
  /\ armed /\ timer = "idle"
  /\ armed' = FALSE
  /\ timer' = "lock"
  /\ UNCHANGED <<current_lux, settings, lock, trigger, data, events>>

TimerLocks ==
  /\ timer = "lock" /\ lock = "nobody"
  /\ timer' = "count"
  /\ lock' = "timer"
  /\ events' = {}
  /\ UNCHANGED <<current_lux, settings, armed, trigger, data>>

(* Mutation: the channels are ints. *)
TimerCountsWide ==
  /\ timer = "count"
  /\ timer' = "derive"
  /\ current_lux' = [current_lux EXCEPT ![0] = @ + 1]
  /\ UNCHANGED <<settings, lock, armed, trigger, data, events>>

(* current_lux[0]++, in an unsigned char. *)
TimerCounts ==
  /\ timer = "count"
  /\ timer' = "derive"
  /\ current_lux' = [current_lux EXCEPT ![0] = (@ + 1) % Levels]
  /\ UNCHANGED <<settings, lock, armed, trigger, data, events>>

TimerDerives ==
  /\ timer = "derive"
  /\ timer' = "report"
  /\ current_lux' = [current_lux EXCEPT ![1] = current_lux[0] \div 2]
  /\ UNCHANGED <<settings, lock, armed, trigger, data, events>>

(* Mutation: only a value beyond the threshold reports it. *)
MetBeyond(thresh, direction) ==
  {<<c, direction>> : c \in {d \in Channels : event[d] /\ current_lux[d] > thresh[d]}}

(* A channel reports a threshold it equals, whichever way it got there. *)
Met(thresh, direction) ==
  {<<c, direction>> : c \in {d \in Channels : event[d] /\ current_lux[d] = thresh[d]}}

(* The events, mod_timer and the unlock. *)
TimerReports ==
  /\ timer = "report"
  /\ events' = Met(high_thresh, "rising") \cup Met(low_thresh, "falling")
  /\ armed' = TRUE
  /\ timer' = "idle"
  /\ lock' = "nobody"
  /\ UNCHANGED <<current_lux, settings, trigger, data>>
-----------------------------------------------------------------------------
(* fake_iiodev_trigger_handler, one run at a time. *)
Triggered ==
  /\ trigger = "idle"
  /\ trigger' = "lock"
  /\ UNCHANGED <<current_lux, settings, lock, armed, timer, data, events>>

(* Mutation: the handler does not take the lock. *)
TriggerBarges ==
  /\ trigger = "lock"
  /\ trigger' = "copy 0"
  /\ UNCHANGED <<current_lux, settings, lock, armed, timer, data, events>>

TriggerLocks ==
  /\ trigger = "lock" /\ lock = "nobody"
  /\ trigger' = "copy 0"
  /\ lock' = "trigger"
  /\ UNCHANGED <<current_lux, settings, armed, timer, data, events>>

TriggerCopies(c, from, to) ==
  /\ trigger = from
  /\ trigger' = to
  /\ data' = [data EXCEPT ![c] = current_lux[c]]
  /\ UNCHANGED <<current_lux, settings, lock, armed, timer, events>>

TriggerUnlocks ==
  /\ trigger = "unlock"
  /\ trigger' = "push"
  /\ lock' = "nobody"
  /\ UNCHANGED <<current_lux, settings, armed, timer, data, events>>

(* The sample is pushed after the lock is released. *)
TriggerPushes ==
  /\ trigger = "push"
  /\ trigger' = "idle"
  /\ data' = [c \in Channels |-> 0]
  /\ UNCHANGED <<current_lux, settings, lock, armed, timer, events>>
-----------------------------------------------------------------------------
(* fake_iiodev_write_raw: the range test sets ret, which nobody looks at.  *)
(* mod_timer starts the timer even while its callback waits for the lock.  *)
WriteRaw(val) ==
  /\ lock = "nobody"
  /\ freq' = val
  /\ armed' = TRUE
  /\ UNCHANGED <<current_lux, event, high_thresh, low_thresh, lock, timer, trigger, data, events>>

WriteEventConfig(c, state) ==
  /\ lock = "nobody"
  /\ event' = [event EXCEPT ![c] = state]
  /\ UNCHANGED <<current_lux, high_thresh, low_thresh, freq, lock, armed, timer, trigger, data, events>>

(* fake_iiodev_write_event_value keeps the low byte of the value. *)
WriteEventValue(c, val) ==
  /\ lock = "nobody"
  /\ \/ high_thresh' = [high_thresh EXCEPT ![c] = val % Levels] /\ UNCHANGED low_thresh
     \/ low_thresh' = [low_thresh EXCEPT ![c] = val % Levels] /\ UNCHANGED high_thresh
  /\ UNCHANGED <<current_lux, event, freq, lock, armed, timer, trigger, data, events>>

Next ==
  \/ TimerFires \/ TimerLocks \/ TimerCounts \/ TimerDerives \/ TimerReports
  \/ Triggered \/ TriggerLocks \/ TriggerCopies(0, "copy 0", "copy 1")
  \/ TriggerCopies(1, "copy 1", "unlock") \/ TriggerUnlocks \/ TriggerPushes
  \/ \E val \in Periods : WriteRaw(val)
  \/ \E c \in Channels, state \in BOOLEAN : WriteEventConfig(c, state)
  \/ \E c \in Channels, val \in Values : WriteEventValue(c, val)

Spec == Init /\ [][Next]_vars
-----------------------------------------------------------------------------
(* The timer changes the two channels one after the other, and the handler *)
(* pushes its copies after it has let go of the lock: what it pushes is    *)
(* still a pair that was on show at one moment.                            *)
PushedSampleConsistent == trigger = "push" => data[1] = data[0] \div 2

(* The value a channel had before the timer's present run. *)
Before(c) ==
  LET first == (current_lux[0] - 1) % Levels
  IN  IF c = 0 THEN first ELSE first \div 2

(* No enabled channel climbs to or past its upper threshold in silence,    *)
(* though the code only tests for equality and the thresholds change       *)
(* between runs, and are cut to a byte.                                    *)
NoSilentRise ==
  [][ timer = "report" /\ timer' = "idle" =>
        \A c \in Channels :
          event[c] /\ Before(c) < high_thresh[c] /\ high_thresh[c] <= current_lux[c]
            => <<c, "rising">> \in events' ]_vars
=============================================================================
