------------------------------ MODULE SoftDog -------------------------------
(***************************************************************************)
(* The software watchdogs of soft_wdt.c under the watchdog core: an armed  *)
(* fire timer holds a reference on the module (softdog_ping takes it,      *)
(* softdog_stop or softdog_fire gives it back), an open file holds another *)
(* one (the core's), and the module can be removed when there are none.    *)
(* The core (open, release, magic close, ioctls, one call at a time on a   *)
(* device; its reboot notifier) is external; time is counted in seconds.   *)
(***************************************************************************)
EXTENDS Integers, FiniteSets

CONSTANTS
  SoftdogNum,   \* module parameter softdog_num
  Nowayout,     \* module parameter nowayout
  Timeouts,     \* the timeouts that WDIOC_SETTIMEOUT is called with, for each device
  SoftMargin    \* module parameter soft_margin

MinTimeout == 1
MaxTimeout == 65535

ASSUME SoftDogAssumption ==
  /\ SoftdogNum \in Nat \ {0}
  /\ Nowayout \in BOOLEAN
  /\ Timeouts \in [1 .. SoftdogNum -> SUBSET (MinTimeout .. MaxTimeout)]
  /\ SoftMargin \in Nat

Dogs == 1 .. SoftdogNum

(* watchdog_init_timeout refuses a margin out of range; line 113 ignores the *)
(* error and the zero of kcalloc stays.                                      *)
InitialTimeout == IF SoftMargin \in MinTimeout .. MaxTimeout THEN SoftMargin ELSE 0

(* A timeout of zero less a pretimeout wraps (line 61): 2^32 jiffies, in seconds *)
(* at 1000 a second.                                                             *)
Wrapped == 4294967

Off == -1   \* a timer that is not pending

VARIABLES
  module,      \* "loading", "live", "going" (rmmod has begun), "exited" or "failed"
  registered,  \* how many devices softdog_init has registered
  refs,        \* the module's reference count
  fire,        \* fire_timer: seconds left, or Off
  pre,         \* pre_timer: seconds left, or Off
  firing,      \* softdog_fire: "no", "put" (entered), "restart" (after line 40)
  isopen,      \* the core's _WDOG_DEV_OPEN
  active,      \* the core's WDOG_ACTIVE
  magic,       \* the core's _WDOG_ALLOW_RELEASE: the last write held a `V'
  timeout, pretimeout,   \* the fields of wdd
  stage,       \* the statement a driver call in progress will execute next
  cont,        \* what the core does when that call returns
  halt,        \* the core's reboot notifier of the device: "no" (not called), "next",
               \* "put", "delpre" (in softdog_stop), "told" (returned)
  restarted    \* emergency_restart has been called

vars == <<module, registered, refs, fire, pre, firing, isopen, active, magic,
          timeout, pretimeout, stage, cont, halt, restarted>>

timers == <<fire, pre, firing>>
core   == <<isopen, active, magic>>
config == <<timeout, pretimeout>>
init   == <<module, registered, halt, restarted>>
op     == <<stage, cont>>

TypeOK ==
  /\ module     \in {"loading", "live", "going", "exited", "failed"}
  /\ registered \in 0 .. SoftdogNum
  /\ refs       \in Nat
  /\ fire       \in [Dogs -> Nat \cup {Off}]
  /\ pre        \in [Dogs -> Nat \cup {Off}]
  /\ firing     \in [Dogs -> {"no", "put", "restart"}]
  /\ isopen     \in [Dogs -> BOOLEAN]
  /\ active     \in [Dogs -> BOOLEAN]
  /\ magic      \in [Dogs -> BOOLEAN]
  /\ timeout    \in [Dogs -> 0 .. MaxTimeout]
  /\ pretimeout \in [Dogs -> 0 .. MaxTimeout]
  /\ stage      \in [Dogs -> {"idle", "mod", "get", "pre", "del", "put", "delpre"}]
  /\ cont       \in [Dogs -> {"none", "start", "stop", "close"}]
  /\ halt       \in [Dogs -> {"no", "next", "put", "delpre", "told"}]
  /\ restarted  \in BOOLEAN

Init ==
  /\ module     = "loading"
  /\ registered = 0
  /\ refs       = 0
  /\ fire       = [d \in Dogs |-> Off]
  /\ pre        = [d \in Dogs |-> Off]
  /\ firing     = [d \in Dogs |-> "no"]
  /\ isopen     = [d \in Dogs |-> FALSE]
  /\ active     = [d \in Dogs |-> FALSE]
  /\ magic      = [d \in Dogs |-> FALSE]
  /\ timeout    = [d \in Dogs |-> InitialTimeout]
  /\ pretimeout = [d \in Dogs |-> 0]
  /\ stage      = [d \in Dogs |-> "idle"]
  /\ cont       = [d \in Dogs |-> "none"]
  /\ halt       = [d \in Dogs |-> "no"]
  /\ restarted  = FALSE

Running == ~restarted

(* The reboot notifier chain is running: nobody can join or leave it. *)
Notifying == \E d \in Dogs : halt[d] \in {"next", "put", "delpre"}

(* softdog_init waits for the chain, to add the notifier (line 115) of a device *)
(* that can already be used.                                                    *)
InitWaits == Notifying /\ registered > 0 /\ halt[registered] = "no"

-----------------------------------------------------------------------------
(* Module load and unload.                                                 *)

(* One round of the loop of softdog_init; the device is usable at once. *)
Register ==
  /\ Running /\ module = "loading"
  /\ registered < SoftdogNum /\ ~InitWaits
  /\ registered' = registered + 1
  /\ module' = IF registered' = SoftdogNum THEN "live" ELSE module
  /\ UNCHANGED <<refs, timers, core, config, op, halt, restarted>>

(* watchdog_register_device fails: lines 137-143 unregister the devices of     *)
(* the earlier rounds (waiting for a call or a notifier chain in progress) and *)
(* free everything.                                                            *)
RegisterFails ==
  /\ Running /\ module = "loading"
  /\ registered < SoftdogNum
  /\ \A d \in Dogs : stage[d] = "idle"
  /\ ~Notifying
  /\ module' = "failed"
  /\ registered' = 0
  /\ UNCHANGED <<refs, timers, core, config, op, halt, restarted>>

(* rmmod: refused while there are references; from now on no open succeeds. *)
Unload ==
  /\ Running /\ module = "live"
  /\ refs = 0 /\ ~InitWaits
  /\ module' = "going"
  /\ UNCHANGED <<registered, refs, timers, core, config, op, halt, restarted>>

(* softdog_exit unregisters (waiting as above) and frees, and touches no timer. *)
Exit ==
  /\ Running /\ module = "going"
  /\ \A d \in Dogs : stage[d] = "idle"
  /\ ~Notifying
  /\ module' = "exited"
  /\ registered' = 0
  /\ UNCHANGED <<refs, timers, core, config, op, halt, restarted>>

-----------------------------------------------------------------------------
(* softdog_ping and softdog_stop, one statement at a time.                 *)

Usable(d) == Running /\ d <= registered

(* The driver call returns and the core finishes what it was doing: it sets *)
(* or clears WDOG_ACTIVE, and drops the file's reference at the end of a    *)
(* release.                                                                 *)
Done(d, isActive) ==
  /\ stage'  = [stage  EXCEPT ![d] = "idle"]
  /\ cont'   = [cont   EXCEPT ![d] = "none"]
  /\ active' = [active EXCEPT ![d] = isActive]
  /\ isopen' = [isopen EXCEPT ![d] = cont[d] # "close"]
  /\ refs'   = IF cont[d] = "close" THEN refs - 1 ELSE refs
  /\ UNCHANGED magic

(* Mutation: a reference for every ping, whether or not the timer was pending. *)
PingAlwaysGets(d) ==
  /\ Usable(d) /\ stage[d] = "mod"
  /\ fire'  = [fire  EXCEPT ![d] = timeout[d]]
  /\ stage' = [stage EXCEPT ![d] = "get"]
  /\ UNCHANGED <<init, refs, pre, firing, core, config, cont>>

(* Mutation: no reference for an armed timer. *)
PingNeverGets(d) ==
  /\ Usable(d) /\ stage[d] = "mod"
  /\ fire'  = [fire  EXCEPT ![d] = timeout[d]]
  /\ stage' = [stage EXCEPT ![d] = "pre"]
  /\ UNCHANGED <<init, refs, pre, firing, core, config, cont>>

(* Line 57: mod_timer tells whether the timer was pending. *)
PingModTimer(d) ==
  /\ Usable(d) /\ stage[d] = "mod"
  /\ fire'  = [fire  EXCEPT ![d] = timeout[d]]
  /\ stage' = [stage EXCEPT ![d] = IF fire[d] = Off THEN "get" ELSE "pre"]
  /\ UNCHANGED <<init, refs, pre, firing, core, config, cont>>

(* Line 58. *)
PingModuleGet(d) ==
  /\ Usable(d) /\ stage[d] = "get"
  /\ refs'  = refs + 1
  /\ stage' = [stage EXCEPT ![d] = "pre"]
  /\ UNCHANGED <<init, timers, core, config, cont>>

(* Line 61. With a timeout of zero the unsigned delay wraps: it is in the past *)
(* where long has 32 bits, weeks ahead where it has 64.                        *)
PreDelays(d) ==
  IF timeout[d] # 0 THEN {timeout[d] - pretimeout[d]} ELSE {0, Wrapped - pretimeout[d]}

(* Mutation: lines 63-64 are missing. *)
PingKeepsPretimer(d) ==
  /\ Usable(d) /\ stage[d] = "pre"
  /\ \E s \in PreDelays(d) : pre' = [pre EXCEPT ![d] = IF pretimeout[d] # 0 THEN s ELSE @]
  /\ Done(d, TRUE)
  /\ UNCHANGED <<init, fire, firing, config>>

(* Lines 60-66. *)
PingPretimeout(d) ==
  /\ Usable(d) /\ stage[d] = "pre"
  /\ \E s \in PreDelays(d) : pre' = [pre EXCEPT ![d] = IF pretimeout[d] # 0 THEN s ELSE Off]
  /\ Done(d, TRUE)
  /\ UNCHANGED <<init, fire, firing, config>>

(* Mutation: the reference is put even when the timer was not pending. *)
StopAlwaysPuts(d) ==
  /\ Usable(d) /\ stage[d] = "del"
  /\ fire'  = [fire  EXCEPT ![d] = Off]
  /\ stage' = [stage EXCEPT ![d] = "put"]
  /\ UNCHANGED <<init, refs, pre, firing, core, config, cont>>

(* Line 73: del_timer tells whether the timer was pending; a handler that  *)
(* has already started is neither stopped nor waited for.                   *)
StopDelTimer(d) ==
  /\ Usable(d) /\ stage[d] = "del"
  /\ fire'  = [fire  EXCEPT ![d] = Off]
  /\ stage' = [stage EXCEPT ![d] = IF fire[d] # Off THEN "put" ELSE "delpre"]
  /\ UNCHANGED <<init, refs, pre, firing, core, config, cont>>

(* Line 74. *)
StopModulePut(d) ==
  /\ Usable(d) /\ stage[d] = "put"
  /\ refs'  = refs - 1
  /\ stage' = [stage EXCEPT ![d] = "delpre"]
  /\ UNCHANGED <<init, timers, core, config, cont>>

(* Lines 76-78. *)
StopPretimeout(d) ==
  /\ Usable(d) /\ stage[d] = "delpre"
  /\ pre' = [pre EXCEPT ![d] = Off]
  /\ Done(d, FALSE)
  /\ UNCHANGED <<init, fire, firing, config>>

-----------------------------------------------------------------------------
(* An orderly shutdown (restart or halt): the core has a reboot notifier for *)
(* every device, because of watchdog_stop_on_reboot (line 115).  They are    *)
(* called once, in the order of registration, and call softdog_stop without  *)
(* the lock of the device's other calls, whatever nowayout says.  What comes *)
(* after them calls nothing of the driver: no step ends the system.          *)

HaltBegins ==
  /\ Running /\ registered > 0
  /\ \A d \in Dogs : halt[d] = "no"
  /\ halt' = [d \in Dogs |-> IF d <= registered THEN "next" ELSE "no"]
  /\ UNCHANGED <<module, registered, refs, timers, core, config, op, restarted>>

(* The watchdog is stopped if it is active, and stays so for the core: line 73. *)
HaltDelTimer(d) ==
  /\ Running /\ halt[d] = "next"
  /\ \A e \in 1 .. d - 1 : halt[e] = "told"
  /\ fire' = [fire EXCEPT ![d] = IF active[d] THEN Off ELSE @]
  /\ halt' = [halt EXCEPT ![d] = IF ~active[d] THEN "told"
                                 ELSE IF fire[d] # Off THEN "put" ELSE "delpre"]
  /\ UNCHANGED <<module, registered, refs, pre, firing, core, config, op, restarted>>

(* Line 74. *)
HaltModulePut(d) ==
  /\ Running /\ halt[d] = "put"
  /\ refs' = refs - 1
  /\ halt' = [halt EXCEPT ![d] = "delpre"]
  /\ UNCHANGED <<module, registered, timers, core, config, op, restarted>>

(* Lines 76-78. *)
HaltPretimeout(d) ==
  /\ Running /\ halt[d] = "delpre"
  /\ pre'  = [pre  EXCEPT ![d] = Off]
  /\ halt' = [halt EXCEPT ![d] = "told"]
  /\ UNCHANGED <<module, registered, refs, fire, firing, core, config, op, restarted>>

-----------------------------------------------------------------------------
(* The timers.                                                             *)

(* A second passes.  Due timers have run before, and a driver call takes    *)
(* less than a second.                                                      *)
Tick ==
  /\ Running
  /\ \A d \in Dogs : /\ fire[d] # 0 /\ pre[d] # 0
                     /\ stage[d] = "idle" /\ halt[d] \notin {"put", "delpre"}
  /\ \E d \in Dogs : fire[d] # Off
  /\ fire' = [d \in Dogs |-> IF fire[d] = Off THEN Off ELSE fire[d] - 1]
  /\ pre'  = [d \in Dogs |-> IF pre[d]  = Off THEN Off ELSE pre[d] - 1]
  /\ UNCHANGED <<init, refs, firing, core, config, op>>

(* softdog_pretimeout: the core is notified. *)
PreExpires(d) ==
  /\ Running /\ pre[d] = 0
  /\ pre' = [pre EXCEPT ![d] = Off]
  /\ UNCHANGED <<init, refs, fire, firing, core, config, op>>

(* Mutation: the timer function does nothing. *)
FireForgets(d) ==
  /\ Running /\ fire[d] = 0 /\ firing[d] = "no"
  /\ fire' = [fire EXCEPT ![d] = Off]
  /\ UNCHANGED <<init, refs, pre, firing, core, config, op>>

(* softdog_fire is entered.  A timer with an earlier expiry runs first. *)
FireExpires(d) ==
  /\ Running /\ fire[d] = 0 /\ firing[d] = "no"
  /\ fire'   = [fire   EXCEPT ![d] = Off]
  /\ firing' = [firing EXCEPT ![d] = "put"]
  /\ UNCHANGED <<init, refs, pre, core, config, op>>

(* Line 40. *)
FireModulePut(d) ==
  /\ Running /\ firing[d] = "put"
  /\ refs'   = refs - 1
  /\ firing' = [firing EXCEPT ![d] = "restart"]
  /\ UNCHANGED <<init, fire, pre, core, config, op>>

(* Line 42. *)
FireRestart(d) ==
  /\ Running /\ firing[d] = "restart"
  /\ restarted' = TRUE
  /\ UNCHANGED <<module, registered, halt, refs, timers, core, config, op>>

-----------------------------------------------------------------------------
(* The watchdog core, on behalf of the process that has the device open.   *)

Begin(d, first, then) ==
  /\ stage' = [stage EXCEPT ![d] = first]
  /\ cont'  = [cont  EXCEPT ![d] = then]

(* watchdog_open: one opener at a time; takes a reference (none is given once *)
(* rmmod has begun) and starts the watchdog unless it still runs from an       *)
(* earlier open.                                                               *)
Open(d) ==
  /\ Usable(d) /\ stage[d] = "idle" /\ ~isopen[d]
  /\ module \in {"loading", "live"}
  /\ refs'   = refs + 1
  /\ isopen' = [isopen EXCEPT ![d] = TRUE]
  /\ IF active[d] THEN UNCHANGED op ELSE Begin(d, "mod", "start")
  /\ UNCHANGED <<init, timers, active, magic, config>>

Call(d) == Usable(d) /\ stage[d] = "idle" /\ isopen[d]

(* watchdog_ping does nothing on a watchdog that is not active. *)
PingIfActive(d) ==
  IF active[d] THEN Begin(d, "mod", "none") ELSE UNCHANGED op

(* write(): looks for the magic character, then pings. *)
Write(d, v) ==
  /\ Call(d)
  /\ magic' = [magic EXCEPT ![d] = v]
  /\ PingIfActive(d)
  /\ UNCHANGED <<init, refs, timers, isopen, active, config>>

(* WDIOC_KEEPALIVE. *)
Keepalive(d) ==
  /\ Call(d) /\ active[d]
  /\ PingIfActive(d)
  /\ UNCHANGED <<init, refs, timers, core, config>>

(* WDIOC_SETTIMEOUT: a pretimeout that no longer fits is dropped, then ping. *)
SetTimeout(d, t) ==
  /\ Call(d)
  /\ timeout'    = [timeout    EXCEPT ![d] = t]
  /\ pretimeout' = [pretimeout EXCEPT ![d] = IF @ >= t THEN 0 ELSE @]
  /\ PingIfActive(d)
  /\ UNCHANGED <<init, refs, timers, core>>

(* WDIOC_SETPRETIMEOUT: takes effect with the next ping.  With a timeout of  *)
(* zero the core accepts any.                                                *)
SetPretimeout(d, t) ==
  /\ Call(d)
  /\ t = 0 \/ timeout[d] = 0 \/ t < timeout[d]
  /\ pretimeout' = [pretimeout EXCEPT ![d] = t]
  /\ UNCHANGED <<init, refs, timers, core, timeout, op>>

(* Mutation: nowayout is not set in the watchdog (line 114). *)
DisableDespiteNowayout(d) ==
  /\ Call(d) /\ active[d]
  /\ Begin(d, "del", "stop")
  /\ UNCHANGED <<init, refs, timers, core, config>>

(* WDIOC_SETOPTIONS with WDIOS_DISABLECARD or WDIOS_ENABLECARD. *)
Disable(d) ==
  /\ Call(d) /\ active[d] /\ ~Nowayout
  /\ Begin(d, "del", "stop")
  /\ UNCHANGED <<init, refs, timers, core, config>>

Enable(d) ==
  /\ Call(d) /\ ~active[d]
  /\ Begin(d, "mod", "start")
  /\ UNCHANGED <<init, refs, timers, core, config>>

(* watchdog_release: stopped after the magic character, else left running   *)
(* with one last ping.                                                      *)
Release(d) ==
  /\ Call(d)
  /\ IF ~active[d]
     THEN /\ isopen' = [isopen EXCEPT ![d] = FALSE]
          /\ refs'   = refs - 1
          /\ UNCHANGED <<op, magic>>
     ELSE /\ Begin(d, IF magic[d] /\ ~Nowayout THEN "del" ELSE "mod", "close")
          /\ magic' = [magic EXCEPT ![d] = FALSE]
          /\ UNCHANGED <<isopen, refs>>
  /\ UNCHANGED <<init, timers, active, config>>

-----------------------------------------------------------------------------
DriverCall(d) ==
  \/ PingModTimer(d) \/ PingModuleGet(d) \/ PingPretimeout(d)
  \/ StopDelTimer(d) \/ StopModulePut(d) \/ StopPretimeout(d)

HaltStop(d) == HaltModulePut(d) \/ HaltPretimeout(d)

TimerStep(d) == PreExpires(d) \/ FireExpires(d) \/ FireModulePut(d) \/ FireRestart(d)

CoreCall(d) ==
  \/ Open(d) \/ Keepalive(d) \/ Disable(d) \/ Enable(d) \/ Release(d)
  \/ \E v \in BOOLEAN : Write(d, v)
  \/ \E t \in Timeouts[d] : SetTimeout(d, t)
  \/ \E t \in Timeouts[d] \cup {0} : SetPretimeout(d, t)

Next ==
  \/ Register \/ RegisterFails \/ Unload \/ Exit \/ HaltBegins \/ Tick
  \/ \E d \in Dogs : HaltDelTimer(d) \/ HaltStop(d)
  \/ \E d \in Dogs : DriverCall(d) \/ TimerStep(d) \/ CoreCall(d)

Spec == Init /\ [][Next]_vars

(* Time passes, due timers run and a driver call that has begun is executed, *)
(* the notifier's as well; no process owes the watchdog a call, and nobody a *)
(* shutdown.                                                                 *)
Fairness ==
  /\ WF_vars(Tick)
  /\ \A d \in Dogs : WF_vars(DriverCall(d)) /\ WF_vars(HaltStop(d)) /\ WF_vars(TimerStep(d))

FairSpec == Spec /\ Fairness

-----------------------------------------------------------------------------
(* Properties.                                                             *)

(* The notifier of an orderly shutdown has got to this watchdog. *)
Told(d) == halt[d] \notin {"no", "next"}

(* Who is entitled to a reference on the module: every open file, every armed *)
(* fire timer (until the module_put after it was deleted by a call or by the  *)
(* notifier), and every softdog_fire that has not put it yet.                 *)
TimerHolds(d) == fire[d] # Off \/ stage[d] = "put"

Holders ==
  { <<"file",  d>> : d \in {e \in Dogs : isopen[e]} } \cup
  { <<"timer", d>> : d \in {e \in Dogs : TimerHolds(e)} } \cup
  { <<"halt",  d>> : d \in {e \in Dogs : halt[e] = "put"} } \cup
  { <<"fire",  d>> : d \in {e \in Dogs : firing[e] = "put"} }

(* A ping that has armed the timer has its __module_get still to make. *)
Owed == { d \in Dogs : stage[d] = "get" }

(* The reference count is exactly what the holders are entitled to, less what *)
(* is still owed, whatever races between a ping or a stop, the notifier's     *)
(* stop, which no lock keeps from them, and the timer's expiry (lines 40,     *)
(* 57-58, 73-74): none is leaked and none is put twice.                       *)
RefsExact == refs + Cardinality(Owed) = Cardinality(Holders)

(* rmmod never frees a watchdog that is armed, warned about, open, or whose   *)
(* handler still has to drop its reference: softdog_exit (148-158) deletes no *)
(* timer and relies on the references alone.  A watchdog that an orderly      *)
(* shutdown has reached is left out: its notifier may put the reference of a  *)
(* ping (74) before that ping gets it (58), and an rmmod in between finds     *)
(* none while the file is open; or it may stop both timers before a closing   *)
(* ping sets pre_timer (61), which no reference stands for.                   *)
ExitFindsNothingArmed ==
  module = "exited" =>
    \A d \in Dogs : halt[d] = "no" =>
      fire[d] = Off /\ pre[d] = Off /\ firing[d] # "put" /\ ~isopen[d]

(* The pretimeout warning is never left behind by the reboot it announces:   *)
(* when softdog_fire starts, pre_timer is not pending, even after the        *)
(* timeout or the pretimeout was changed while the timers were armed, or a   *)
(* ping raced with the notifier's stop (lines 60-64, 73-76).                 *)
WarnsBeforeFire ==
  [][ \A d \in Dogs : firing[d] = "no" /\ firing'[d] = "put" => pre[d] = Off ]_vars

(* With nowayout an armed watchdog is disarmed by nothing but its expiry and, *)
(* once, the notifier of an orderly shutdown (line 115); no call of a process *)
(* does, before, during or after it.                                          *)
NowayoutHolds ==
  [][ Nowayout => \A d \in Dogs :
        fire[d] # Off /\ fire'[d] = Off =>
          firing'[d] = "put" \/ (~Told(d) /\ Told(d)') ]_vars

(* A watchdog that was closed without the magic character, or with nowayout,  *)
(* reboots the system unless somebody opens it again or the notifier of an    *)
(* orderly shutdown gets to it (release pings, 53-67).                        *)
AbandonedDogFires ==
  \A d \in Dogs : (active[d] /\ ~isopen[d]) ~> (restarted \/ isopen[d] \/ Told(d))
=============================================================================
