---------------------------- MODULE SoftDogProofs -----------------------------
(***************************************************************************)
(* Theorems about SoftDog, for any number of watchdogs, any timeouts, with *)
(* and without nowayout.                                                   *)
(***************************************************************************)
EXTENDS SoftDog, FiniteSetTheorems, TLAPS

-----------------------------------------------------------------------------
(* The inductive invariant.                                                *)

(* A driver call is made on behalf of an open file. *)
CallsHaveFile == \A d \in Dogs : stage[d] # "idle" => isopen[d]

(* A margin in the range that the parameter's description gives. *)
MarginInRange == SoftMargin \in MinTimeout .. MaxTimeout

TimeoutsPositive == MarginInRange => \A d \in Dogs : timeout[d] # 0

(* After line 57 the timer runs with the full timeout; only a timeout of zero  *)
(* lets it expire before the call is over, and only the notifier deletes it.   *)
PingArms ==
  \A d \in Dogs : stage[d] \in {"get", "pre"} =>
    fire[d] = timeout[d] \/ (fire[d] = Off /\ (timeout[d] = 0 \/ Told(d)))

(* After line 73 the timer stays deleted. *)
StopDisarms == \A d \in Dogs : stage[d] \in {"put", "delpre"} => fire[d] = Off

(* The core accepts no pretimeout that does not fit, except with a timeout of *)
(* zero.                                                                      *)
PretimeoutFits ==
  \A d \in Dogs : pretimeout[d] = 0 \/ pretimeout[d] < timeout[d] \/ timeout[d] = 0

(* Except between lines 57 and 66 and lines 73 and 78, a pending warning comes *)
(* before the expiry that it announces, unless the notifier called that off.   *)
WarnFirst ==
  MarginInRange =>
    \A d \in Dogs : pre[d] # Off /\ stage[d] \in {"idle", "mod", "del"} =>
      (fire[d] = Off /\ Told(d)) \/ (fire[d] # Off /\ pre[d] < fire[d])

NeverStopping ==
  Nowayout => \A d \in Dogs : stage[d] \notin {"del", "put", "delpre"}

IInv ==
  /\ TypeOK
  /\ CallsHaveFile
  /\ TimeoutsPositive
  /\ PingArms
  /\ StopDisarms
  /\ PretimeoutFits
  /\ WarnFirst
  /\ NeverStopping

(* The references, counted by their kind. *)
Files  == { d \in Dogs : isopen[d] }
Timers == { d \in Dogs : TimerHolds(d) }
Halts  == { d \in Dogs : halt[d] = "put" }
Fires  == { d \in Dogs : firing[d] = "put" }

RefsCounted ==
  refs = Cardinality(Files) + Cardinality(Timers) + Cardinality(Halts) + Cardinality(Fires)
           - Cardinality(Owed)

-----------------------------------------------------------------------------
(* What the constants can be: a timeout is zero only after a soft_margin out of *)
(* range.                                                                       *)
LEMMA Limits ==
  /\ MinTimeout = 1
  /\ MaxTimeout \in Nat \ {0}
  /\ Wrapped \in Nat
  /\ MaxTimeout < Wrapped
BY SMT DEF MinTimeout, MaxTimeout, Wrapped

LEMMA ConstantRanges ==
  /\ SoftdogNum \in Nat \ {0}
  /\ InitialTimeout \in 0 .. MaxTimeout
  /\ MarginInRange => InitialTimeout # 0
  /\ \A d \in Dogs : \A t \in Timeouts[d] : t \in 1 .. MaxTimeout
<1>1. SoftdogNum \in Nat \ {0}
  BY SoftDogAssumption
<1>2. InitialTimeout \in 0 .. MaxTimeout /\ (MarginInRange => InitialTimeout # 0)
  BY SoftDogAssumption, Limits DEF InitialTimeout, MarginInRange
<1>3. \A d \in Dogs : \A t \in Timeouts[d] : t \in 1 .. MaxTimeout
  BY SoftDogAssumption, Limits DEF Dogs
<1>4. QED
  BY <1>1, <1>2, <1>3

LEMMA InitIInv == Init => IInv
<1> SUFFICES ASSUME Init PROVE IInv
  OBVIOUS
<1>1. TypeOK
  <2>1. /\ module \in {"loading", "live", "going", "exited", "failed"}
        /\ registered \in 0 .. SoftdogNum
        /\ refs \in Nat
    BY ConstantRanges DEF Init
  <2>2. fire \in [Dogs -> Nat \cup {Off}] /\ pre \in [Dogs -> Nat \cup {Off}]
    BY DEF Init
  <2>3. firing \in [Dogs -> {"no", "put", "restart"}]
    BY DEF Init
  <2>4. /\ isopen \in [Dogs -> BOOLEAN] /\ active \in [Dogs -> BOOLEAN]
        /\ magic \in [Dogs -> BOOLEAN] /\ restarted \in BOOLEAN
    BY Zenon DEF Init
  <2>5. timeout \in [Dogs -> 0 .. MaxTimeout] /\ pretimeout \in [Dogs -> 0 .. MaxTimeout]
    BY ConstantRanges, Limits DEF Init
  <2>6. /\ stage \in [Dogs -> {"idle", "mod", "get", "pre", "del", "put", "delpre"}]
        /\ cont  \in [Dogs -> {"none", "start", "stop", "close"}]
        /\ halt  \in [Dogs -> {"no", "next", "put", "delpre", "told"}]
    BY DEF Init
  <2>7. QED
    BY <2>1, <2>2, <2>3, <2>4, <2>5, <2>6 DEF TypeOK
<1>2. QED
  BY <1>1, ConstantRanges
  DEF Init, Off, IInv, CallsHaveFile, TimeoutsPositive, PingArms, StopDisarms,
      PretimeoutFits, WarnFirst, NeverStopping

LEMMA NextCallsHaveFile == IInv /\ [Next]_vars => CallsHaveFile'
<1> SUFFICES ASSUME IInv, [Next]_vars PROVE CallsHaveFile'
  OBVIOUS
<1> USE DEF IInv, TypeOK, CallsHaveFile, Done, Begin, Call, Usable, PingIfActive,
        op, core
<1>1. CASE UNCHANGED vars
  BY <1>1 DEF vars, op, core, config, timers, init
<1>2. CASE Register
  BY <1>2 DEF Register
<1>3. CASE RegisterFails
  BY <1>3 DEF RegisterFails
<1>4. CASE Unload
  BY <1>4 DEF Unload
<1>5. CASE Tick
  BY <1>5 DEF Tick
<1>6. ASSUME NEW d \in Dogs, PingModTimer(d) PROVE CallsHaveFile'
  BY <1>6 DEF PingModTimer
<1>7. ASSUME NEW d \in Dogs, PingModuleGet(d) PROVE CallsHaveFile'
  BY <1>7 DEF PingModuleGet
<1>8. ASSUME NEW d \in Dogs, PingPretimeout(d) PROVE CallsHaveFile'
  BY <1>8 DEF PingPretimeout
<1>9. ASSUME NEW d \in Dogs, StopDelTimer(d) PROVE CallsHaveFile'
  BY <1>9 DEF StopDelTimer
<1>10. ASSUME NEW d \in Dogs, StopModulePut(d) PROVE CallsHaveFile'
  BY <1>10 DEF StopModulePut
<1>11. ASSUME NEW d \in Dogs, StopPretimeout(d) PROVE CallsHaveFile'
  BY <1>11 DEF StopPretimeout
<1>12. ASSUME NEW d \in Dogs, PreExpires(d) PROVE CallsHaveFile'
  BY <1>12 DEF PreExpires
<1>13. ASSUME NEW d \in Dogs, FireExpires(d) PROVE CallsHaveFile'
  BY <1>13 DEF FireExpires
<1>14. ASSUME NEW d \in Dogs, FireModulePut(d) PROVE CallsHaveFile'
  BY <1>14 DEF FireModulePut
<1>15. ASSUME NEW d \in Dogs, FireRestart(d) PROVE CallsHaveFile'
  BY <1>15 DEF FireRestart
<1>16. ASSUME NEW d \in Dogs, Open(d) PROVE CallsHaveFile'
  BY <1>16 DEF Open
<1>17. ASSUME NEW d \in Dogs, Keepalive(d) PROVE CallsHaveFile'
  BY <1>17 DEF Keepalive
<1>18. ASSUME NEW d \in Dogs, Disable(d) PROVE CallsHaveFile'
  BY <1>18 DEF Disable
<1>19. ASSUME NEW d \in Dogs, Enable(d) PROVE CallsHaveFile'
  BY <1>19 DEF Enable
<1>20. ASSUME NEW d \in Dogs, Release(d) PROVE CallsHaveFile'
  BY <1>20 DEF Release
<1>21. ASSUME NEW d \in Dogs, NEW v \in BOOLEAN, Write(d, v) PROVE CallsHaveFile'
  BY <1>21 DEF Write
<1>22. ASSUME NEW d \in Dogs, NEW t \in Timeouts[d], SetTimeout(d, t) PROVE CallsHaveFile'
  BY <1>22 DEF SetTimeout
<1>23. ASSUME NEW d \in Dogs, NEW t \in Timeouts[d] \cup {0}, SetPretimeout(d, t)
       PROVE  CallsHaveFile'
  BY <1>23 DEF SetPretimeout
<1>24. CASE Exit
  BY <1>24 DEF Exit
<1>25. CASE HaltBegins
  BY <1>25 DEF HaltBegins
<1>26. ASSUME NEW d \in Dogs, HaltDelTimer(d) PROVE CallsHaveFile'
  BY <1>26 DEF HaltDelTimer
<1>27. ASSUME NEW d \in Dogs, HaltModulePut(d) PROVE CallsHaveFile'
  BY <1>27 DEF HaltModulePut
<1>28. ASSUME NEW d \in Dogs, HaltPretimeout(d) PROVE CallsHaveFile'
  BY <1>28 DEF HaltPretimeout
<1>29. QED
  BY <1>1, <1>2, <1>3, <1>4, <1>5, <1>6, <1>7, <1>8, <1>9, <1>10, <1>11, <1>12, <1>13,
     <1>14, <1>15, <1>16, <1>17, <1>18, <1>19, <1>20, <1>21, <1>22, <1>23, <1>24, <1>25,
     <1>26, <1>27, <1>28
  DEF Next, DriverCall, HaltStop, TimerStep, CoreCall

(* What line 61 computes. *)
LEMMA DelaysFit ==
  ASSUME IInv, NEW d \in Dogs, NEW s \in PreDelays(d)
  PROVE  s \in Nat /\ (timeout[d] # 0 /\ pretimeout[d] # 0 => s < timeout[d])
<1>1. timeout[d] \in 0 .. MaxTimeout /\ pretimeout[d] \in 0 .. MaxTimeout
  BY DEF IInv, TypeOK
<1>2. pretimeout[d] = 0 \/ pretimeout[d] < timeout[d] \/ timeout[d] = 0
  BY DEF IInv, PretimeoutFits
<1>3. QED
  BY <1>1, <1>2, Limits DEF PreDelays

(* The module's reference count is handled apart. *)
LEMMA NextTypeOK == IInv /\ [Next]_vars /\ refs' \in Nat => TypeOK'
<1> SUFFICES ASSUME IInv, [Next]_vars, refs' \in Nat PROVE TypeOK'
  OBVIOUS
<1> USE ConstantRanges, Limits
    DEF IInv, TypeOK, Done, Begin, Call, Usable, PingIfActive, Off,
        op, core, config, timers, init
<1>1. CASE UNCHANGED vars
  BY <1>1 DEF vars, op, core, config, timers, init
<1>2. CASE Register
  BY <1>2 DEF Register
<1>3. CASE RegisterFails
  BY <1>3 DEF RegisterFails
<1>4. CASE Unload
  BY <1>4 DEF Unload
<1>5. CASE Tick
  <2>1. ASSUME NEW t \in Nat \cup {Off}, t # 0
        PROVE  (IF t = Off THEN Off ELSE t - 1) \in Nat \cup {Off}
    BY <2>1
  <2>2. fire' \in [Dogs -> Nat \cup {Off}] /\ pre' \in [Dogs -> Nat \cup {Off}]
    BY <1>5, <2>1 DEF Tick
  <2>3. UNCHANGED <<init, refs, firing, core, config, op>>
    BY <1>5 DEF Tick
  <2>4. QED
    BY <2>1, <2>2, <2>3
<1>6. ASSUME NEW d \in Dogs, PingModTimer(d) PROVE TypeOK'
  BY <1>6 DEF PingModTimer
<1>7. ASSUME NEW d \in Dogs, PingModuleGet(d) PROVE TypeOK'
  BY <1>7 DEF PingModuleGet
<1>8. ASSUME NEW d \in Dogs, PingPretimeout(d) PROVE TypeOK'
  BY <1>8, DelaysFit DEF PingPretimeout
<1>9. ASSUME NEW d \in Dogs, StopDelTimer(d) PROVE TypeOK'
  BY <1>9 DEF StopDelTimer
<1>10. ASSUME NEW d \in Dogs, StopModulePut(d) PROVE TypeOK'
  BY <1>10 DEF StopModulePut
<1>11. ASSUME NEW d \in Dogs, StopPretimeout(d) PROVE TypeOK'
  BY <1>11 DEF StopPretimeout
<1>12. ASSUME NEW d \in Dogs, PreExpires(d) PROVE TypeOK'
  BY <1>12 DEF PreExpires
<1>13. ASSUME NEW d \in Dogs, FireExpires(d) PROVE TypeOK'
  BY <1>13 DEF FireExpires
<1>14. ASSUME NEW d \in Dogs, FireModulePut(d) PROVE TypeOK'
  BY <1>14 DEF FireModulePut
<1>15. ASSUME NEW d \in Dogs, FireRestart(d) PROVE TypeOK'
  BY <1>15 DEF FireRestart
<1>16. ASSUME NEW d \in Dogs, Open(d) PROVE TypeOK'
  BY <1>16 DEF Open
<1>17. ASSUME NEW d \in Dogs, Keepalive(d) PROVE TypeOK'
  BY <1>17 DEF Keepalive
<1>18. ASSUME NEW d \in Dogs, Disable(d) PROVE TypeOK'
  BY <1>18 DEF Disable
<1>19. ASSUME NEW d \in Dogs, Enable(d) PROVE TypeOK'
  BY <1>19 DEF Enable
<1>20. ASSUME NEW d \in Dogs, Release(d) PROVE TypeOK'
  <2>1. isopen' \in [Dogs -> BOOLEAN]
    <3>1. isopen' = isopen \/ isopen' = [isopen EXCEPT ![d] = FALSE]
      BY <1>20, Zenon DEF Release
    <3>2. QED
      BY <3>1, Zenon
  <2>2. magic' \in [Dogs -> BOOLEAN]
    <3>1. magic' = magic \/ magic' = [magic EXCEPT ![d] = FALSE]
      BY <1>20, Zenon DEF Release
    <3>2. QED
      BY <3>1, Zenon
  <2>3. stage' \in [Dogs -> {"idle", "mod", "get", "pre", "del", "put", "delpre"}]
    BY <1>20 DEF Release
  <2>4. cont' \in [Dogs -> {"none", "start", "stop", "close"}]
    BY <1>20 DEF Release
  <2>5. UNCHANGED <<init, timers, active, config>>
    BY <1>20 DEF Release
  <2>6. QED
    BY <2>1, <2>2, <2>3, <2>4, <2>5
<1>21. ASSUME NEW d \in Dogs, NEW v \in BOOLEAN, Write(d, v) PROVE TypeOK'
  BY <1>21 DEF Write
<1>22. ASSUME NEW d \in Dogs, NEW t \in Timeouts[d], SetTimeout(d, t) PROVE TypeOK'
  BY <1>22 DEF SetTimeout
<1>23. ASSUME NEW d \in Dogs, NEW t \in Timeouts[d] \cup {0}, SetPretimeout(d, t)
       PROVE  TypeOK'
  BY <1>23 DEF SetPretimeout
<1>24. CASE Exit
  BY <1>24 DEF Exit
<1>25. CASE HaltBegins
  BY <1>25 DEF HaltBegins
<1>26. ASSUME NEW d \in Dogs, HaltDelTimer(d) PROVE TypeOK'
  BY <1>26 DEF HaltDelTimer
<1>27. ASSUME NEW d \in Dogs, HaltModulePut(d) PROVE TypeOK'
  BY <1>27 DEF HaltModulePut
<1>28. ASSUME NEW d \in Dogs, HaltPretimeout(d) PROVE TypeOK'
  BY <1>28 DEF HaltPretimeout
<1>29. QED
  BY <1>1, <1>2, <1>3, <1>4, <1>5, <1>6, <1>7, <1>8, <1>9, <1>10, <1>11, <1>12, <1>13,
     <1>14, <1>15, <1>16, <1>17, <1>18, <1>19, <1>20, <1>21, <1>22, <1>23, <1>24, <1>25,
     <1>26, <1>27, <1>28
  DEF Next, DriverCall, HaltStop, TimerStep, CoreCall

(* Nothing but WDIOC_SETTIMEOUT changes a timeout. *)
LEMMA TimeoutChanges ==
  [Next]_vars =>
    timeout' = timeout \/ \E d \in Dogs : \E t \in Timeouts[d] : SetTimeout(d, t)
<1> SUFFICES ASSUME [Next]_vars, \A d \in Dogs : \A t \in Timeouts[d] : ~SetTimeout(d, t)
             PROVE  timeout' = timeout
  BY Zenon
<1>1. CASE UNCHANGED vars
  BY <1>1 DEF vars
<1>2. CASE Register \/ RegisterFails \/ Unload \/ Exit \/ HaltBegins \/ Tick
  BY <1>2, Zenon DEF Register, RegisterFails, Unload, Exit, HaltBegins, Tick, config
<1>3. ASSUME NEW d \in Dogs, HaltDelTimer(d) \/ HaltStop(d) PROVE timeout' = timeout
  BY <1>3, Zenon DEF HaltDelTimer, HaltStop, HaltModulePut, HaltPretimeout, config
<1>4. ASSUME NEW d \in Dogs, DriverCall(d) \/ TimerStep(d) PROVE timeout' = timeout
  <2>1. CASE DriverCall(d)
    BY <2>1, Zenon DEF DriverCall, PingModTimer, PingModuleGet, PingPretimeout, StopDelTimer,
       StopModulePut, StopPretimeout, config
  <2>2. CASE TimerStep(d)
    BY <2>2, Zenon DEF TimerStep, PreExpires, FireExpires, FireModulePut, FireRestart, config
  <2>3. QED
    BY <1>4, <2>1, <2>2
<1>5. ASSUME NEW d \in Dogs, CoreCall(d) PROVE timeout' = timeout
  BY <1>5, Zenon DEF CoreCall, Open, Keepalive, Disable, Enable, Release, Write, SetPretimeout,
     config
<1>6. QED
  BY <1>1, <1>2, <1>3, <1>4, <1>5, Zenon DEF Next

LEMMA NextTimeoutsPositive == IInv /\ [Next]_vars => TimeoutsPositive'
BY TimeoutChanges, ConstantRanges, Limits DEF IInv, TypeOK, TimeoutsPositive, SetTimeout

LEMMA NextPingArms == IInv /\ [Next]_vars => PingArms'
<1> SUFFICES ASSUME IInv, [Next]_vars PROVE PingArms'
  OBVIOUS
<1> USE DEF IInv, TypeOK, PingArms, Told, Done, Begin, Call, Usable, PingIfActive, Off,
        op, init, timers, config
<1>1. CASE UNCHANGED vars
  BY <1>1 DEF vars, op, core, config, timers, init
<1>2. CASE Register
  BY <1>2 DEF Register
<1>3. CASE RegisterFails
  BY <1>3 DEF RegisterFails
<1>4. CASE Unload
  BY <1>4 DEF Unload
<1>5. CASE Tick
  BY <1>5 DEF Tick
<1>6. ASSUME NEW d \in Dogs, PingModTimer(d) PROVE PingArms'
  BY <1>6 DEF PingModTimer
<1>7. ASSUME NEW d \in Dogs, PingModuleGet(d) PROVE PingArms'
  BY <1>7 DEF PingModuleGet
<1>8. ASSUME NEW d \in Dogs, PingPretimeout(d) PROVE PingArms'
  BY <1>8 DEF PingPretimeout
<1>9. ASSUME NEW d \in Dogs, StopDelTimer(d) PROVE PingArms'
  BY <1>9 DEF StopDelTimer
<1>10. ASSUME NEW d \in Dogs, StopModulePut(d) PROVE PingArms'
  BY <1>10 DEF StopModulePut
<1>11. ASSUME NEW d \in Dogs, StopPretimeout(d) PROVE PingArms'
  BY <1>11 DEF StopPretimeout
<1>12. ASSUME NEW d \in Dogs, PreExpires(d) PROVE PingArms'
  BY <1>12 DEF PreExpires
<1>13. ASSUME NEW d \in Dogs, FireExpires(d) PROVE PingArms'
  BY <1>13 DEF FireExpires
<1>14. ASSUME NEW d \in Dogs, FireModulePut(d) PROVE PingArms'
  BY <1>14 DEF FireModulePut
<1>15. ASSUME NEW d \in Dogs, FireRestart(d) PROVE PingArms'
  BY <1>15 DEF FireRestart
<1>16. ASSUME NEW d \in Dogs, Open(d) PROVE PingArms'
  BY <1>16 DEF Open
<1>17. ASSUME NEW d \in Dogs, Keepalive(d) PROVE PingArms'
  BY <1>17 DEF Keepalive
<1>18. ASSUME NEW d \in Dogs, Disable(d) PROVE PingArms'
  BY <1>18 DEF Disable
<1>19. ASSUME NEW d \in Dogs, Enable(d) PROVE PingArms'
  BY <1>19 DEF Enable
<1>20. ASSUME NEW d \in Dogs, Release(d) PROVE PingArms'
  BY <1>20 DEF Release
<1>21. ASSUME NEW d \in Dogs, NEW v \in BOOLEAN, Write(d, v) PROVE PingArms'
  BY <1>21 DEF Write
<1>22. ASSUME NEW d \in Dogs, NEW t \in Timeouts[d], SetTimeout(d, t) PROVE PingArms'
  BY <1>22 DEF SetTimeout
<1>23. ASSUME NEW d \in Dogs, NEW t \in Timeouts[d] \cup {0}, SetPretimeout(d, t)
       PROVE  PingArms'
  BY <1>23 DEF SetPretimeout
<1>24. CASE Exit
  BY <1>24 DEF Exit
<1>25. CASE HaltBegins
  BY <1>25 DEF HaltBegins
<1>26. ASSUME NEW d \in Dogs, HaltDelTimer(d) PROVE PingArms'
  BY <1>26 DEF HaltDelTimer
<1>27. ASSUME NEW d \in Dogs, HaltModulePut(d) PROVE PingArms'
  BY <1>27 DEF HaltModulePut
<1>28. ASSUME NEW d \in Dogs, HaltPretimeout(d) PROVE PingArms'
  BY <1>28 DEF HaltPretimeout
<1>29. QED
  BY <1>1, <1>2, <1>3, <1>4, <1>5, <1>6, <1>7, <1>8, <1>9, <1>10, <1>11, <1>12, <1>13,
     <1>14, <1>15, <1>16, <1>17, <1>18, <1>19, <1>20, <1>21, <1>22, <1>23, <1>24, <1>25,
     <1>26, <1>27, <1>28
  DEF Next, DriverCall, HaltStop, TimerStep, CoreCall

LEMMA NextStopDisarms == IInv /\ [Next]_vars => StopDisarms'
<1> SUFFICES ASSUME IInv, [Next]_vars PROVE StopDisarms'
  OBVIOUS
<1> USE DEF IInv, TypeOK, StopDisarms, Done, Begin, Call, Usable, PingIfActive,
        Off, op, timers
<1>1. CASE UNCHANGED vars
  BY <1>1 DEF vars, op, core, config, timers, init
<1>2. CASE Register
  BY <1>2 DEF Register
<1>3. CASE RegisterFails
  BY <1>3 DEF RegisterFails
<1>4. CASE Unload
  BY <1>4 DEF Unload
<1>5. CASE Tick
  BY <1>5 DEF Tick
<1>6. ASSUME NEW d \in Dogs, PingModTimer(d) PROVE StopDisarms'
  BY <1>6 DEF PingModTimer
<1>7. ASSUME NEW d \in Dogs, PingModuleGet(d) PROVE StopDisarms'
  BY <1>7 DEF PingModuleGet
<1>8. ASSUME NEW d \in Dogs, PingPretimeout(d) PROVE StopDisarms'
  BY <1>8 DEF PingPretimeout
<1>9. ASSUME NEW d \in Dogs, StopDelTimer(d) PROVE StopDisarms'
  BY <1>9 DEF StopDelTimer
<1>10. ASSUME NEW d \in Dogs, StopModulePut(d) PROVE StopDisarms'
  BY <1>10 DEF StopModulePut
<1>11. ASSUME NEW d \in Dogs, StopPretimeout(d) PROVE StopDisarms'
  BY <1>11 DEF StopPretimeout
<1>12. ASSUME NEW d \in Dogs, PreExpires(d) PROVE StopDisarms'
  BY <1>12 DEF PreExpires
<1>13. ASSUME NEW d \in Dogs, FireExpires(d) PROVE StopDisarms'
  BY <1>13 DEF FireExpires
<1>14. ASSUME NEW d \in Dogs, FireModulePut(d) PROVE StopDisarms'
  BY <1>14 DEF FireModulePut
<1>15. ASSUME NEW d \in Dogs, FireRestart(d) PROVE StopDisarms'
  BY <1>15 DEF FireRestart
<1>16. ASSUME NEW d \in Dogs, Open(d) PROVE StopDisarms'
  BY <1>16 DEF Open
<1>17. ASSUME NEW d \in Dogs, Keepalive(d) PROVE StopDisarms'
  BY <1>17 DEF Keepalive
<1>18. ASSUME NEW d \in Dogs, Disable(d) PROVE StopDisarms'
  BY <1>18 DEF Disable
<1>19. ASSUME NEW d \in Dogs, Enable(d) PROVE StopDisarms'
  BY <1>19 DEF Enable
<1>20. ASSUME NEW d \in Dogs, Release(d) PROVE StopDisarms'
  BY <1>20 DEF Release
<1>21. ASSUME NEW d \in Dogs, NEW v \in BOOLEAN, Write(d, v) PROVE StopDisarms'
  BY <1>21 DEF Write
<1>22. ASSUME NEW d \in Dogs, NEW t \in Timeouts[d], SetTimeout(d, t) PROVE StopDisarms'
  BY <1>22 DEF SetTimeout
<1>23. ASSUME NEW d \in Dogs, NEW t \in Timeouts[d] \cup {0}, SetPretimeout(d, t)
       PROVE  StopDisarms'
  BY <1>23 DEF SetPretimeout
<1>24. CASE Exit
  BY <1>24 DEF Exit
<1>25. CASE HaltBegins
  BY <1>25 DEF HaltBegins
<1>26. ASSUME NEW d \in Dogs, HaltDelTimer(d) PROVE StopDisarms'
  BY <1>26 DEF HaltDelTimer
<1>27. ASSUME NEW d \in Dogs, HaltModulePut(d) PROVE StopDisarms'
  BY <1>27 DEF HaltModulePut
<1>28. ASSUME NEW d \in Dogs, HaltPretimeout(d) PROVE StopDisarms'
  BY <1>28 DEF HaltPretimeout
<1>29. QED
  BY <1>1, <1>2, <1>3, <1>4, <1>5, <1>6, <1>7, <1>8, <1>9, <1>10, <1>11, <1>12, <1>13,
     <1>14, <1>15, <1>16, <1>17, <1>18, <1>19, <1>20, <1>21, <1>22, <1>23, <1>24, <1>25,
     <1>26, <1>27, <1>28
  DEF Next, DriverCall, HaltStop, TimerStep, CoreCall

LEMMA NextPretimeoutFits == IInv /\ [Next]_vars => PretimeoutFits'
<1> SUFFICES ASSUME IInv, [Next]_vars PROVE PretimeoutFits'
  OBVIOUS
<1> USE ConstantRanges, Limits
    DEF IInv, TypeOK, PretimeoutFits, Off, timers, config
<1>1. CASE UNCHANGED vars
  BY <1>1 DEF vars, op, core, config, timers, init
<1>2. CASE Register
  BY <1>2 DEF Register
<1>3. CASE RegisterFails
  BY <1>3 DEF RegisterFails
<1>4. CASE Unload
  BY <1>4 DEF Unload
<1>5. CASE Tick
  BY <1>5 DEF Tick
<1>6. ASSUME NEW d \in Dogs, PingModTimer(d) PROVE PretimeoutFits'
  BY <1>6 DEF PingModTimer
<1>7. ASSUME NEW d \in Dogs, PingModuleGet(d) PROVE PretimeoutFits'
  BY <1>7 DEF PingModuleGet
<1>8. ASSUME NEW d \in Dogs, PingPretimeout(d) PROVE PretimeoutFits'
  BY <1>8 DEF PingPretimeout
<1>9. ASSUME NEW d \in Dogs, StopDelTimer(d) PROVE PretimeoutFits'
  BY <1>9 DEF StopDelTimer
<1>10. ASSUME NEW d \in Dogs, StopModulePut(d) PROVE PretimeoutFits'
  BY <1>10 DEF StopModulePut
<1>11. ASSUME NEW d \in Dogs, StopPretimeout(d) PROVE PretimeoutFits'
  BY <1>11 DEF StopPretimeout
<1>12. ASSUME NEW d \in Dogs, PreExpires(d) PROVE PretimeoutFits'
  BY <1>12 DEF PreExpires
<1>13. ASSUME NEW d \in Dogs, FireExpires(d) PROVE PretimeoutFits'
  BY <1>13 DEF FireExpires
<1>14. ASSUME NEW d \in Dogs, FireModulePut(d) PROVE PretimeoutFits'
  BY <1>14 DEF FireModulePut
<1>15. ASSUME NEW d \in Dogs, FireRestart(d) PROVE PretimeoutFits'
  BY <1>15 DEF FireRestart
<1>16. ASSUME NEW d \in Dogs, Open(d) PROVE PretimeoutFits'
  BY <1>16 DEF Open
<1>17. ASSUME NEW d \in Dogs, Keepalive(d) PROVE PretimeoutFits'
  BY <1>17 DEF Keepalive
<1>18. ASSUME NEW d \in Dogs, Disable(d) PROVE PretimeoutFits'
  BY <1>18 DEF Disable
<1>19. ASSUME NEW d \in Dogs, Enable(d) PROVE PretimeoutFits'
  BY <1>19 DEF Enable
<1>20. ASSUME NEW d \in Dogs, Release(d) PROVE PretimeoutFits'
  BY <1>20 DEF Release
<1>21. ASSUME NEW d \in Dogs, NEW v \in BOOLEAN, Write(d, v) PROVE PretimeoutFits'
  BY <1>21 DEF Write
<1>22. ASSUME NEW d \in Dogs, NEW t \in Timeouts[d], SetTimeout(d, t) PROVE PretimeoutFits'
  BY <1>22 DEF SetTimeout
<1>23. ASSUME NEW d \in Dogs, NEW t \in Timeouts[d] \cup {0}, SetPretimeout(d, t)
       PROVE  PretimeoutFits'
  BY <1>23 DEF SetPretimeout
<1>24. CASE Exit
  BY <1>24 DEF Exit
<1>25. CASE HaltBegins
  BY <1>25 DEF HaltBegins
<1>26. ASSUME NEW d \in Dogs, HaltDelTimer(d) PROVE PretimeoutFits'
  BY <1>26 DEF HaltDelTimer
<1>27. ASSUME NEW d \in Dogs, HaltModulePut(d) PROVE PretimeoutFits'
  BY <1>27 DEF HaltModulePut
<1>28. ASSUME NEW d \in Dogs, HaltPretimeout(d) PROVE PretimeoutFits'
  BY <1>28 DEF HaltPretimeout
<1>29. QED
  BY <1>1, <1>2, <1>3, <1>4, <1>5, <1>6, <1>7, <1>8, <1>9, <1>10, <1>11, <1>12, <1>13,
     <1>14, <1>15, <1>16, <1>17, <1>18, <1>19, <1>20, <1>21, <1>22, <1>23, <1>24, <1>25,
     <1>26, <1>27, <1>28
  DEF Next, DriverCall, HaltStop, TimerStep, CoreCall

LEMMA NextWarnFirst == IInv /\ [Next]_vars => WarnFirst'
<1> SUFFICES ASSUME IInv, [Next]_vars PROVE WarnFirst'
  OBVIOUS
<1> SUFFICES ASSUME MarginInRange, \A d \in Dogs : timeout[d] # 0 PROVE WarnFirst'
  BY DEF IInv, TimeoutsPositive, WarnFirst
<1> USE DEF IInv, TypeOK, WarnFirst, Told, PingArms, StopDisarms, Done, Begin, Call, Usable, PingIfActive, Off, op, init, timers, config
<1>1. CASE UNCHANGED vars
  BY <1>1 DEF vars, op, core, config, timers, init
<1>2. CASE Register
  BY <1>2 DEF Register
<1>3. CASE RegisterFails
  BY <1>3 DEF RegisterFails
<1>4. CASE Unload
  BY <1>4 DEF Unload
<1>5. CASE Tick
  BY <1>5 DEF Tick
<1>6. ASSUME NEW d \in Dogs, PingModTimer(d) PROVE WarnFirst'
  BY <1>6 DEF PingModTimer
<1>7. ASSUME NEW d \in Dogs, PingModuleGet(d) PROVE WarnFirst'
  BY <1>7 DEF PingModuleGet
<1>8. ASSUME NEW d \in Dogs, PingPretimeout(d) PROVE WarnFirst'
  BY <1>8, DelaysFit DEF PingPretimeout
<1>9. ASSUME NEW d \in Dogs, StopDelTimer(d) PROVE WarnFirst'
  BY <1>9 DEF StopDelTimer
<1>10. ASSUME NEW d \in Dogs, StopModulePut(d) PROVE WarnFirst'
  BY <1>10 DEF StopModulePut
<1>11. ASSUME NEW d \in Dogs, StopPretimeout(d) PROVE WarnFirst'
  BY <1>11 DEF StopPretimeout
<1>12. ASSUME NEW d \in Dogs, PreExpires(d) PROVE WarnFirst'
  BY <1>12 DEF PreExpires
<1>13. ASSUME NEW d \in Dogs, FireExpires(d) PROVE WarnFirst'
  BY <1>13 DEF FireExpires
<1>14. ASSUME NEW d \in Dogs, FireModulePut(d) PROVE WarnFirst'
  BY <1>14 DEF FireModulePut
<1>15. ASSUME NEW d \in Dogs, FireRestart(d) PROVE WarnFirst'
  BY <1>15 DEF FireRestart
<1>16. ASSUME NEW d \in Dogs, Open(d) PROVE WarnFirst'
  BY <1>16 DEF Open
<1>17. ASSUME NEW d \in Dogs, Keepalive(d) PROVE WarnFirst'
  BY <1>17 DEF Keepalive
<1>18. ASSUME NEW d \in Dogs, Disable(d) PROVE WarnFirst'
  BY <1>18 DEF Disable
<1>19. ASSUME NEW d \in Dogs, Enable(d) PROVE WarnFirst'
  BY <1>19 DEF Enable
<1>20. ASSUME NEW d \in Dogs, Release(d) PROVE WarnFirst'
  BY <1>20 DEF Release
<1>21. ASSUME NEW d \in Dogs, NEW v \in BOOLEAN, Write(d, v) PROVE WarnFirst'
  BY <1>21 DEF Write
<1>22. ASSUME NEW d \in Dogs, NEW t \in Timeouts[d], SetTimeout(d, t) PROVE WarnFirst'
  BY <1>22 DEF SetTimeout
<1>23. ASSUME NEW d \in Dogs, NEW t \in Timeouts[d] \cup {0}, SetPretimeout(d, t)
       PROVE  WarnFirst'
  BY <1>23 DEF SetPretimeout
<1>24. CASE Exit
  BY <1>24 DEF Exit
<1>25. CASE HaltBegins
  BY <1>25 DEF HaltBegins
<1>26. ASSUME NEW d \in Dogs, HaltDelTimer(d) PROVE WarnFirst'
  BY <1>26 DEF HaltDelTimer
<1>27. ASSUME NEW d \in Dogs, HaltModulePut(d) PROVE WarnFirst'
  BY <1>27 DEF HaltModulePut
<1>28. ASSUME NEW d \in Dogs, HaltPretimeout(d) PROVE WarnFirst'
  BY <1>28 DEF HaltPretimeout
<1>29. QED
  BY <1>1, <1>2, <1>3, <1>4, <1>5, <1>6, <1>7, <1>8, <1>9, <1>10, <1>11, <1>12, <1>13,
     <1>14, <1>15, <1>16, <1>17, <1>18, <1>19, <1>20, <1>21, <1>22, <1>23, <1>24, <1>25,
     <1>26, <1>27, <1>28
  DEF Next, DriverCall, HaltStop, TimerStep, CoreCall

LEMMA NextNeverStopping == IInv /\ [Next]_vars => NeverStopping'
<1> SUFFICES ASSUME IInv, [Next]_vars PROVE NeverStopping'
  OBVIOUS
<1> USE DEF IInv, TypeOK, NeverStopping, Done, Begin, Call, Usable, PingIfActive, op
<1>1. CASE UNCHANGED vars
  BY <1>1 DEF vars, op, core, config, timers, init
<1>2. CASE Register
  BY <1>2 DEF Register
<1>3. CASE RegisterFails
  BY <1>3 DEF RegisterFails
<1>4. CASE Unload
  BY <1>4 DEF Unload
<1>5. CASE Tick
  BY <1>5 DEF Tick
<1>6. ASSUME NEW d \in Dogs, PingModTimer(d) PROVE NeverStopping'
  BY <1>6 DEF PingModTimer
<1>7. ASSUME NEW d \in Dogs, PingModuleGet(d) PROVE NeverStopping'
  BY <1>7 DEF PingModuleGet
<1>8. ASSUME NEW d \in Dogs, PingPretimeout(d) PROVE NeverStopping'
  BY <1>8 DEF PingPretimeout
<1>9. ASSUME NEW d \in Dogs, StopDelTimer(d) PROVE NeverStopping'
  BY <1>9 DEF StopDelTimer
<1>10. ASSUME NEW d \in Dogs, StopModulePut(d) PROVE NeverStopping'
  BY <1>10 DEF StopModulePut
<1>11. ASSUME NEW d \in Dogs, StopPretimeout(d) PROVE NeverStopping'
  BY <1>11 DEF StopPretimeout
<1>12. ASSUME NEW d \in Dogs, PreExpires(d) PROVE NeverStopping'
  BY <1>12 DEF PreExpires
<1>13. ASSUME NEW d \in Dogs, FireExpires(d) PROVE NeverStopping'
  BY <1>13 DEF FireExpires
<1>14. ASSUME NEW d \in Dogs, FireModulePut(d) PROVE NeverStopping'
  BY <1>14 DEF FireModulePut
<1>15. ASSUME NEW d \in Dogs, FireRestart(d) PROVE NeverStopping'
  BY <1>15 DEF FireRestart
<1>16. ASSUME NEW d \in Dogs, Open(d) PROVE NeverStopping'
  BY <1>16 DEF Open
<1>17. ASSUME NEW d \in Dogs, Keepalive(d) PROVE NeverStopping'
  BY <1>17 DEF Keepalive
<1>18. ASSUME NEW d \in Dogs, Disable(d) PROVE NeverStopping'
  BY <1>18 DEF Disable
<1>19. ASSUME NEW d \in Dogs, Enable(d) PROVE NeverStopping'
  BY <1>19 DEF Enable
<1>20. ASSUME NEW d \in Dogs, Release(d) PROVE NeverStopping'
  BY <1>20 DEF Release
<1>21. ASSUME NEW d \in Dogs, NEW v \in BOOLEAN, Write(d, v) PROVE NeverStopping'
  BY <1>21 DEF Write
<1>22. ASSUME NEW d \in Dogs, NEW t \in Timeouts[d], SetTimeout(d, t) PROVE NeverStopping'
  BY <1>22 DEF SetTimeout
<1>23. ASSUME NEW d \in Dogs, NEW t \in Timeouts[d] \cup {0}, SetPretimeout(d, t)
       PROVE  NeverStopping'
  BY <1>23 DEF SetPretimeout
<1>24. CASE Exit
  BY <1>24 DEF Exit
<1>25. CASE HaltBegins
  BY <1>25 DEF HaltBegins
<1>26. ASSUME NEW d \in Dogs, HaltDelTimer(d) PROVE NeverStopping'
  BY <1>26 DEF HaltDelTimer
<1>27. ASSUME NEW d \in Dogs, HaltModulePut(d) PROVE NeverStopping'
  BY <1>27 DEF HaltModulePut
<1>28. ASSUME NEW d \in Dogs, HaltPretimeout(d) PROVE NeverStopping'
  BY <1>28 DEF HaltPretimeout
<1>29. QED
  BY <1>1, <1>2, <1>3, <1>4, <1>5, <1>6, <1>7, <1>8, <1>9, <1>10, <1>11, <1>12, <1>13,
     <1>14, <1>15, <1>16, <1>17, <1>18, <1>19, <1>20, <1>21, <1>22, <1>23, <1>24, <1>25,
     <1>26, <1>27, <1>28
  DEF Next, DriverCall, HaltStop, TimerStep, CoreCall

-----------------------------------------------------------------------------
(* Counting the references.                                                *)

LEMMA DogsFinite == IsFiniteSet(Dogs)
BY ConstantRanges, FS_Interval DEF Dogs

LEMMA CountNat ==
  ASSUME NEW S \in SUBSET Dogs
  PROVE  IsFiniteSet(S) /\ Cardinality(S) \in Nat
BY DogsFinite, FS_Subset, FS_CardinalityType

LEMMA CountAdd ==
  ASSUME NEW S \in SUBSET Dogs, NEW d \in Dogs, d \notin S
  PROVE  Cardinality(S \cup {d}) = Cardinality(S) + 1
BY CountNat, FS_AddElement

LEMMA CountRemove ==
  ASSUME NEW S \in SUBSET Dogs, NEW d \in S
  PROVE  Cardinality(S \ {d}) = Cardinality(S) - 1
BY CountNat, FS_RemoveElement

(* Tagging the members of a set changes nothing in their number. *)
LEMMA CountTagged ==
  ASSUME NEW S \in SUBSET Dogs, NEW k
  PROVE  /\ IsFiniteSet({ <<k, d>> : d \in S })
         /\ Cardinality({ <<k, d>> : d \in S }) = Cardinality(S)
<1> DEFINE T == { <<k, d>> : d \in S }
           f == [d \in S |-> <<k, d>>]
<1>1. f \in Bijection(S, T)
  BY DEF Bijection, Injection, Surjection, IsInjective
<1>2. ExistsBijection(S, T)
  BY <1>1 DEF ExistsBijection
<1>3. QED
  BY <1>2, CountNat, FS_Bijection

LEMMA CountUnion ==
  ASSUME NEW A, NEW B, IsFiniteSet(A), IsFiniteSet(B), A \cap B = {}
  PROVE  /\ IsFiniteSet(A \cup B)
         /\ Cardinality(A \cup B) = Cardinality(A) + Cardinality(B)
<1>1. Cardinality(A \cap B) = 0
  BY FS_EmptySet
<1>2. /\ IsFiniteSet(A \cup B)
      /\ Cardinality(A \cup B) = Cardinality(A) + Cardinality(B) - Cardinality(A \cap B)
  BY FS_Union
<1>3. Cardinality(A) \in Nat /\ Cardinality(B) \in Nat
  BY FS_CardinalityType
<1>4. QED
  BY <1>1, <1>2, <1>3

(* The four kinds of holders are apart, so their numbers add up. *)
LEMMA HoldersCount ==
  Cardinality(Holders) =
    Cardinality(Files) + Cardinality(Timers) + Cardinality(Halts) + Cardinality(Fires)
<1> DEFINE A == { <<"file",  d>> : d \in Files }
           B == { <<"timer", d>> : d \in Timers }
           C == { <<"halt",  d>> : d \in Halts }
           D == { <<"fire",  d>> : d \in Fires }
<1>1. /\ Files \in SUBSET Dogs /\ Timers \in SUBSET Dogs
      /\ Halts \in SUBSET Dogs /\ Fires \in SUBSET Dogs
  BY DEF Files, Timers, Halts, Fires
<1>2. IsFiniteSet(A) /\ Cardinality(A) = Cardinality(Files)
  BY <1>1, CountTagged, Zenon
<1>3. IsFiniteSet(B) /\ Cardinality(B) = Cardinality(Timers)
  BY <1>1, CountTagged, Zenon
<1>4. IsFiniteSet(C) /\ Cardinality(C) = Cardinality(Halts)
  BY <1>1, CountTagged, Zenon
<1>5. IsFiniteSet(D) /\ Cardinality(D) = Cardinality(Fires)
  BY <1>1, CountTagged, Zenon
<1>6. Holders = ((A \cup B) \cup C) \cup D
  BY DEF Holders, Files, Timers, Halts, Fires
<1>7. A \cap B = {} /\ (A \cup B) \cap C = {} /\ ((A \cup B) \cup C) \cap D = {}
  OBVIOUS
<1> HIDE DEF A, B, C, D
<1>8. IsFiniteSet(A \cup B) /\ Cardinality(A \cup B) = Cardinality(A) + Cardinality(B)
  BY <1>2, <1>3, <1>7, CountUnion
<1>9. /\ IsFiniteSet((A \cup B) \cup C)
      /\ Cardinality((A \cup B) \cup C) = Cardinality(A \cup B) + Cardinality(C)
  BY <1>4, <1>7, <1>8, CountUnion
<1>10. Cardinality(((A \cup B) \cup C) \cup D) = Cardinality((A \cup B) \cup C) + Cardinality(D)
  BY <1>5, <1>7, <1>9, CountUnion
<1>11. QED
  BY <1>2, <1>3, <1>4, <1>5, <1>6, <1>8, <1>9, <1>10

(* A step that changes no holder. *)
SameHolders ==
  /\ Files' = Files
  /\ Timers' = Timers
  /\ Halts' = Halts
  /\ Fires' = Fires
  /\ Owed' = Owed
  /\ refs' = refs

(* Every step keeps the count: each statement that takes or drops a reference  *)
(* makes or ends exactly one entitlement, and line 57 leaves one to be paid.   *)
LEMMA NextRefsCounted == IInv /\ RefsCounted /\ [Next]_vars => RefsCounted'
<1> SUFFICES ASSUME IInv, RefsCounted, [Next]_vars PROVE RefsCounted'
  OBVIOUS
<1>a. /\ Files \in SUBSET Dogs /\ Timers \in SUBSET Dogs /\ Halts \in SUBSET Dogs
      /\ Fires \in SUBSET Dogs /\ Owed \in SUBSET Dogs
  BY DEF Files, Timers, Halts, Fires, Owed
<1>b. /\ Cardinality(Files) \in Nat /\ Cardinality(Timers) \in Nat
      /\ Cardinality(Halts) \in Nat
      /\ Cardinality(Fires) \in Nat /\ Cardinality(Owed) \in Nat
  BY <1>a, CountNat
<1>c. SameHolders => RefsCounted'
  BY DEF SameHolders, RefsCounted
<1> USE DEF IInv, TypeOK, Done, Begin, PingIfActive, Off, op, core, config, timers, init,
            SameHolders, Files, Timers, Halts, Fires, Owed, TimerHolds
<1>1. CASE UNCHANGED vars
  BY <1>1, <1>c DEF vars
<1>2. CASE Register
  BY <1>2, <1>c DEF Register
<1>3. CASE RegisterFails
  BY <1>3, <1>c DEF RegisterFails
<1>4. CASE Unload
  BY <1>4, <1>c DEF Unload
<1>5. CASE Tick
  BY <1>5, <1>c DEF Tick
<1>6. ASSUME NEW d \in Dogs, PingModTimer(d) PROVE RefsCounted'
  <2>1. CASE fire[d] = Off
    <3>1. /\ Files' = Files
          /\ Timers' = Timers \cup {d} /\ d \notin Timers
          /\ Halts' = Halts
          /\ Fires' = Fires
          /\ Owed' = Owed \cup {d} /\ d \notin Owed
          /\ refs' = refs
      BY <1>6, <2>1, ConstantRanges DEF PingModTimer
    <3> HIDE DEF Files, Timers, Halts, Fires, Owed
    <3>2. QED
      BY <3>1, <1>a, <1>b, CountAdd DEF RefsCounted
  <2>2. CASE ~(fire[d] = Off)
    BY <1>6, <2>2, <1>c, ConstantRanges DEF PingModTimer
  <2>3. QED
    BY <2>1, <2>2
<1>7. ASSUME NEW d \in Dogs, PingModuleGet(d) PROVE RefsCounted'
  <2>1. /\ Files' = Files
        /\ Timers' = Timers
        /\ Halts' = Halts
        /\ Fires' = Fires
        /\ Owed' = Owed \ {d} /\ d \in Owed
        /\ refs' = refs + 1
    BY <1>7 DEF PingModuleGet
  <2> HIDE DEF Files, Timers, Halts, Fires, Owed
  <2>2. QED
    BY <2>1, <1>a, <1>b, CountRemove DEF RefsCounted
<1>8. ASSUME NEW d \in Dogs, PingPretimeout(d) PROVE RefsCounted'
  <2>1. CASE cont[d] = "close"
    <3>a. isopen' = [isopen EXCEPT ![d] = FALSE]
      BY <1>8, <2>1, Zenon DEF PingPretimeout, CallsHaveFile
    <3>1. /\ Files' = Files \ {d} /\ d \in Files
          /\ Timers' = Timers
          /\ Halts' = Halts
          /\ Fires' = Fires
          /\ Owed' = Owed
          /\ refs' = refs - 1
      BY <1>8, <2>1, <3>a DEF PingPretimeout, CallsHaveFile
    <3> HIDE DEF Files, Timers, Halts, Fires, Owed
    <3>2. QED
      BY <3>1, <1>a, <1>b, CountRemove DEF RefsCounted
  <2>2. CASE ~(cont[d] = "close")
    BY <1>8, <2>2, <1>c DEF PingPretimeout, CallsHaveFile
  <2>3. QED
    BY <2>1, <2>2
<1>9. ASSUME NEW d \in Dogs, StopDelTimer(d) PROVE RefsCounted'
  BY <1>9, <1>c DEF StopDelTimer
<1>10. ASSUME NEW d \in Dogs, StopModulePut(d) PROVE RefsCounted'
  <2>1. /\ Files' = Files
        /\ Timers' = Timers \ {d} /\ d \in Timers
        /\ Halts' = Halts
        /\ Fires' = Fires
        /\ Owed' = Owed
        /\ refs' = refs - 1
    BY <1>10 DEF StopModulePut, StopDisarms
  <2> HIDE DEF Files, Timers, Halts, Fires, Owed
  <2>2. QED
    BY <2>1, <1>a, <1>b, CountRemove DEF RefsCounted
<1>11. ASSUME NEW d \in Dogs, StopPretimeout(d) PROVE RefsCounted'
  <2>1. CASE cont[d] = "close"
    <3>a. isopen' = [isopen EXCEPT ![d] = FALSE]
      BY <1>11, <2>1, Zenon DEF StopPretimeout, CallsHaveFile
    <3>1. /\ Files' = Files \ {d} /\ d \in Files
          /\ Timers' = Timers
          /\ Halts' = Halts
          /\ Fires' = Fires
          /\ Owed' = Owed
          /\ refs' = refs - 1
      BY <1>11, <2>1, <3>a DEF StopPretimeout, CallsHaveFile
    <3> HIDE DEF Files, Timers, Halts, Fires, Owed
    <3>2. QED
      BY <3>1, <1>a, <1>b, CountRemove DEF RefsCounted
  <2>2. CASE ~(cont[d] = "close")
    BY <1>11, <2>2, <1>c DEF StopPretimeout, CallsHaveFile
  <2>3. QED
    BY <2>1, <2>2
<1>12. ASSUME NEW d \in Dogs, PreExpires(d) PROVE RefsCounted'
  BY <1>12, <1>c DEF PreExpires
<1>13. ASSUME NEW d \in Dogs, FireExpires(d) PROVE RefsCounted'
  <2>1. /\ Files' = Files
        /\ Timers' = Timers \ {d} /\ d \in Timers
        /\ Halts' = Halts
        /\ Fires' = Fires \cup {d} /\ d \notin Fires
        /\ Owed' = Owed
        /\ refs' = refs
    BY <1>13 DEF FireExpires, StopDisarms
  <2> HIDE DEF Files, Timers, Halts, Fires, Owed
  <2>2. QED
    BY <2>1, <1>a, <1>b, CountAdd, CountRemove DEF RefsCounted
<1>14. ASSUME NEW d \in Dogs, FireModulePut(d) PROVE RefsCounted'
  <2>1. /\ Files' = Files
        /\ Timers' = Timers
        /\ Halts' = Halts
        /\ Fires' = Fires \ {d} /\ d \in Fires
        /\ Owed' = Owed
        /\ refs' = refs - 1
    BY <1>14 DEF FireModulePut
  <2> HIDE DEF Files, Timers, Halts, Fires, Owed
  <2>2. QED
    BY <2>1, <1>a, <1>b, CountRemove DEF RefsCounted
<1>15. ASSUME NEW d \in Dogs, FireRestart(d) PROVE RefsCounted'
  BY <1>15, <1>c DEF FireRestart
<1>16. ASSUME NEW d \in Dogs, Open(d) PROVE RefsCounted'
  <2>1. /\ Files' = Files \cup {d} /\ d \notin Files
        /\ Timers' = Timers
        /\ Halts' = Halts
        /\ Fires' = Fires
        /\ Owed' = Owed
        /\ refs' = refs + 1
    BY <1>16 DEF Open
  <2> HIDE DEF Files, Timers, Halts, Fires, Owed
  <2>2. QED
    BY <2>1, <1>a, <1>b, CountAdd DEF RefsCounted
<1>17. ASSUME NEW d \in Dogs, Keepalive(d) PROVE RefsCounted'
  BY <1>17, <1>c DEF Keepalive, Call
<1>18. ASSUME NEW d \in Dogs, Disable(d) PROVE RefsCounted'
  BY <1>18, <1>c DEF Disable, Call
<1>19. ASSUME NEW d \in Dogs, Enable(d) PROVE RefsCounted'
  BY <1>19, <1>c DEF Enable, Call
<1>20. ASSUME NEW d \in Dogs, Release(d) PROVE RefsCounted'
  <2>1. CASE ~active[d]
    <3>1. /\ Files' = Files \ {d} /\ d \in Files
          /\ Timers' = Timers
          /\ Halts' = Halts
          /\ Fires' = Fires
          /\ Owed' = Owed
          /\ refs' = refs - 1
      BY <1>20, <2>1 DEF Release, Call
    <3> HIDE DEF Files, Timers, Halts, Fires, Owed
    <3>2. QED
      BY <3>1, <1>a, <1>b, CountRemove DEF RefsCounted
  <2>2. CASE ~(~active[d])
    BY <1>20, <2>2, <1>c DEF Release, Call
  <2>3. QED
    BY <2>1, <2>2
<1>21. ASSUME NEW d \in Dogs, NEW v \in BOOLEAN, Write(d, v) PROVE RefsCounted'
  BY <1>21, <1>c DEF Write, Call
<1>22. ASSUME NEW d \in Dogs, NEW t \in Timeouts[d], SetTimeout(d, t) PROVE RefsCounted'
  BY <1>22, <1>c DEF SetTimeout, Call
<1>23. ASSUME NEW d \in Dogs, NEW t \in Timeouts[d] \cup {0}, SetPretimeout(d, t)
       PROVE  RefsCounted'
  BY <1>23, <1>c DEF SetPretimeout, Call
<1>24. CASE Exit
  BY <1>24, <1>c DEF Exit
<1>25. CASE HaltBegins
  BY <1>25, <1>c DEF HaltBegins
<1>26. ASSUME NEW d \in Dogs, HaltDelTimer(d) PROVE RefsCounted'
  <2>1. CASE active[d] /\ fire[d] # Off
    <3>1. /\ Files' = Files
          /\ Timers' = Timers \ {d} /\ d \in Timers
          /\ Halts' = Halts \cup {d} /\ d \notin Halts
          /\ Fires' = Fires
          /\ Owed' = Owed
          /\ refs' = refs
      BY <1>26, <2>1 DEF HaltDelTimer, StopDisarms
    <3> HIDE DEF Files, Timers, Halts, Fires, Owed
    <3>2. QED
      BY <3>1, <1>a, <1>b, CountAdd, CountRemove DEF RefsCounted
  <2>2. CASE ~(active[d] /\ fire[d] # Off)
    BY <1>26, <2>2, <1>c DEF HaltDelTimer
  <2>3. QED
    BY <2>1, <2>2
<1>27. ASSUME NEW d \in Dogs, HaltModulePut(d) PROVE RefsCounted'
  <2>1. /\ Files' = Files
        /\ Timers' = Timers
        /\ Halts' = Halts \ {d} /\ d \in Halts
        /\ Fires' = Fires
        /\ Owed' = Owed
        /\ refs' = refs - 1
    BY <1>27 DEF HaltModulePut
  <2> HIDE DEF Files, Timers, Halts, Fires, Owed
  <2>2. QED
    BY <2>1, <1>a, <1>b, CountRemove DEF RefsCounted
<1>28. ASSUME NEW d \in Dogs, HaltPretimeout(d) PROVE RefsCounted'
  BY <1>28, <1>c DEF HaltPretimeout
<1>29. QED
  BY <1>1, <1>2, <1>3, <1>4, <1>5, <1>6, <1>7, <1>8, <1>9, <1>10, <1>11, <1>12, <1>13,
     <1>14, <1>15, <1>16, <1>17, <1>18, <1>19, <1>20, <1>21, <1>22, <1>23, <1>24, <1>25,
     <1>26, <1>27, <1>28
  DEF Next, DriverCall, HaltStop, TimerStep, CoreCall
(* The count is never negative: what a ping owes is covered by its file's reference. *)
LEMMA RefsNeverNegative ==
  ASSUME NEW F \in SUBSET Dogs, NEW T \in SUBSET Dogs, NEW H \in SUBSET Dogs,
         NEW P \in SUBSET Dogs, NEW O \in SUBSET F
  PROVE  Cardinality(F) + Cardinality(T) + Cardinality(H) + Cardinality(P) - Cardinality(O) \in Nat
<1>1. /\ Cardinality(F) \in Nat /\ IsFiniteSet(F)
      /\ Cardinality(T) \in Nat /\ Cardinality(H) \in Nat
      /\ Cardinality(P) \in Nat /\ Cardinality(O) \in Nat
  BY CountNat
<1>2. Cardinality(O) <= Cardinality(F)
  BY <1>1, FS_Subset
<1>3. QED
  BY <1>1, <1>2

LEMMA InitRefsCounted == Init => RefsCounted
<1> SUFFICES ASSUME Init PROVE RefsCounted
  OBVIOUS
<1>1. Files = {} /\ Timers = {} /\ Halts = {} /\ Fires = {} /\ Owed = {}
  BY DEF Init, Files, Timers, Halts, Fires, Owed, TimerHolds
<1>2. QED
  BY <1>1, FS_EmptySet DEF Init, RefsCounted

LEMMA Invariance == Spec => [](IInv /\ RefsCounted)
<1>1. IInv /\ RefsCounted /\ [Next]_vars => IInv' /\ RefsCounted'
  <2> SUFFICES ASSUME IInv, RefsCounted, [Next]_vars PROVE IInv' /\ RefsCounted'
    OBVIOUS
  <2>1. RefsCounted' /\ CallsHaveFile'
    BY NextRefsCounted, NextCallsHaveFile
  <2>2. /\ Files' \in SUBSET Dogs /\ Timers' \in SUBSET Dogs /\ Halts' \in SUBSET Dogs
        /\ Fires' \in SUBSET Dogs /\ Owed' \in SUBSET Files'
    BY <2>1 DEF CallsHaveFile, Files, Timers, Halts, Fires, Owed
  <2>3. refs' \in Nat
    BY <2>1, <2>2, RefsNeverNegative DEF RefsCounted
  <2>4. IInv'
    BY <2>3, NextCallsHaveFile, NextTypeOK, NextTimeoutsPositive, NextPingArms,
       NextStopDisarms, NextPretimeoutFits, NextWarnFirst, NextNeverStopping DEF IInv
  <2>5. QED
    BY <2>1, <2>4
<1>2. QED
  BY InitIInv, InitRefsCounted, <1>1, PTL DEF Spec

-----------------------------------------------------------------------------
(* Type correctness; in particular the reference count of the module is never *)
(* put below zero by lines 40 and 74.                                         *)
THEOREM TypeCorrect == Spec => []TypeOK
<1>1. IInv => TypeOK
  BY DEF IInv
<1>2. QED
  BY <1>1, Invariance, PTL

(* The module's reference count is exactly what open files, armed fire timers  *)
(* and running timer functions are entitled to (lines 40, 57-58, 73-74), for   *)
(* any number of watchdogs and any interleaving of pings, stops, expiries and  *)
(* the stop of the reboot notifier, which takes no lock of theirs.             *)
THEOREM RefsExactHolds == Spec => []RefsExact
<1>1. IInv /\ RefsCounted => RefsExact
  <2> SUFFICES ASSUME IInv, RefsCounted PROVE RefsExact
    OBVIOUS
  <2>1. /\ Files \in SUBSET Dogs /\ Timers \in SUBSET Dogs /\ Halts \in SUBSET Dogs
        /\ Fires \in SUBSET Dogs /\ Owed \in SUBSET Dogs
    BY DEF Files, Timers, Halts, Fires, Owed
  <2>2. /\ Cardinality(Files) \in Nat /\ Cardinality(Timers) \in Nat
        /\ Cardinality(Halts) \in Nat /\ Cardinality(Fires) \in Nat /\ Cardinality(Owed) \in Nat
    BY <2>1, CountNat
  <2>3. QED
    BY <2>2, HoldersCount DEF RefsCounted, RefsExact
<1>2. QED
  BY <1>1, Invariance, PTL

(* With nowayout no step but its own expiry and, once, the notifier of an      *)
(* orderly shutdown (line 115) disarms a watchdog: no call of a process        *)
(* reaches softdog_stop (lines 71-79), whatever was written before the         *)
(* release and whatever the notifier is doing.                                 *)
THEOREM NowayoutHoldsAlways == Spec => NowayoutHolds
<1> DEFINE Disarmed(d) == firing'[d] = "put" \/ (~Told(d) /\ Told(d)')
<1>1. IInv /\ [Next]_vars =>
        [Nowayout => \A d \in Dogs : fire[d] # Off /\ fire'[d] = Off => Disarmed(d)]_vars
  <2> SUFFICES ASSUME IInv, [Next]_vars, Nowayout, NEW e \in Dogs,
                      fire[e] # Off, fire'[e] = Off
               PROVE  Disarmed(e)
    OBVIOUS
  <2> USE ConstantRanges DEF IInv, TypeOK, NeverStopping, Told, Off, timers, config
  <2>1. CASE UNCHANGED vars
    BY <2>1 DEF vars, op, core, config, timers, init
  <2>2. CASE Register
    BY <2>2 DEF Register
  <2>3. CASE RegisterFails
    BY <2>3 DEF RegisterFails
  <2>4. CASE Unload
    BY <2>4 DEF Unload
  <2>5. CASE Tick
    BY <2>5 DEF Tick
  <2>6. ASSUME NEW d \in Dogs, PingModTimer(d) PROVE Disarmed(e)
    BY <2>6 DEF PingModTimer
  <2>7. ASSUME NEW d \in Dogs, PingModuleGet(d) PROVE Disarmed(e)
    BY <2>7 DEF PingModuleGet
  <2>8. ASSUME NEW d \in Dogs, PingPretimeout(d) PROVE Disarmed(e)
    BY <2>8 DEF PingPretimeout
  <2>9. ASSUME NEW d \in Dogs, StopDelTimer(d) PROVE Disarmed(e)
    BY <2>9 DEF StopDelTimer
  <2>10. ASSUME NEW d \in Dogs, StopModulePut(d) PROVE Disarmed(e)
    BY <2>10 DEF StopModulePut
  <2>11. ASSUME NEW d \in Dogs, StopPretimeout(d) PROVE Disarmed(e)
    BY <2>11 DEF StopPretimeout
  <2>12. ASSUME NEW d \in Dogs, PreExpires(d) PROVE Disarmed(e)
    BY <2>12 DEF PreExpires
  <2>13. ASSUME NEW d \in Dogs, FireExpires(d) PROVE Disarmed(e)
    BY <2>13 DEF FireExpires
  <2>14. ASSUME NEW d \in Dogs, FireModulePut(d) PROVE Disarmed(e)
    BY <2>14 DEF FireModulePut
  <2>15. ASSUME NEW d \in Dogs, FireRestart(d) PROVE Disarmed(e)
    BY <2>15 DEF FireRestart
  <2>16. ASSUME NEW d \in Dogs, Open(d) PROVE Disarmed(e)
    BY <2>16 DEF Open
  <2>17. ASSUME NEW d \in Dogs, Keepalive(d) PROVE Disarmed(e)
    BY <2>17 DEF Keepalive
  <2>18. ASSUME NEW d \in Dogs, Disable(d) PROVE Disarmed(e)
    BY <2>18 DEF Disable
  <2>19. ASSUME NEW d \in Dogs, Enable(d) PROVE Disarmed(e)
    BY <2>19 DEF Enable
  <2>20. ASSUME NEW d \in Dogs, Release(d) PROVE Disarmed(e)
    BY <2>20 DEF Release
  <2>21. ASSUME NEW d \in Dogs, NEW v \in BOOLEAN, Write(d, v) PROVE Disarmed(e)
    BY <2>21 DEF Write
  <2>22. ASSUME NEW d \in Dogs, NEW t \in Timeouts[d], SetTimeout(d, t)
         PROVE  Disarmed(e)
    BY <2>22 DEF SetTimeout
  <2>23. ASSUME NEW d \in Dogs, NEW t \in Timeouts[d] \cup {0}, SetPretimeout(d, t)
         PROVE  Disarmed(e)
    BY <2>23 DEF SetPretimeout
  <2>24. CASE Exit
    BY <2>24 DEF Exit
  <2>25. CASE HaltBegins
    BY <2>25 DEF HaltBegins
  <2>26. ASSUME NEW d \in Dogs, HaltDelTimer(d) PROVE Disarmed(e)
    BY <2>26 DEF HaltDelTimer
  <2>27. ASSUME NEW d \in Dogs, HaltModulePut(d) PROVE Disarmed(e)
    BY <2>27 DEF HaltModulePut
  <2>28. ASSUME NEW d \in Dogs, HaltPretimeout(d) PROVE Disarmed(e)
    BY <2>28 DEF HaltPretimeout
  <2>29. QED
    BY <2>1, <2>2, <2>3, <2>4, <2>5, <2>6, <2>7, <2>8, <2>9, <2>10, <2>11, <2>12, <2>13,
       <2>14, <2>15, <2>16, <2>17, <2>18, <2>19, <2>20, <2>21, <2>22, <2>23, <2>24, <2>25,
       <2>26, <2>27, <2>28
    DEF Next, DriverCall, HaltStop, TimerStep, CoreCall
<1>2. QED
  BY <1>1, Invariance, PTL DEF Spec, NowayoutHolds

(* The pretimeout warning is never left behind by the reboot it announces      *)
(* (lines 60-64), for every timeout and pretimeout and any change of them      *)
(* while the timers are armed, in any race of a ping with the notifier's stop; *)
(* with a soft_margin in range.                                                *)
THEOREM WarnsBeforeFireAlways ==
  ASSUME MarginInRange
  PROVE  Spec => WarnsBeforeFire
<1>1. IInv /\ [Next]_vars =>
        [\A d \in Dogs : firing[d] = "no" /\ firing'[d] = "put" => pre[d] = Off]_vars
  <2> SUFFICES ASSUME IInv, [Next]_vars, NEW e \in Dogs,
                      firing[e] = "no", firing'[e] = "put"
               PROVE  pre[e] = Off
    OBVIOUS
  <2> USE DEF IInv, TypeOK, TimeoutsPositive, PingArms, StopDisarms, WarnFirst, Off,
              timers
  <2>1. CASE UNCHANGED vars
    BY <2>1 DEF vars, op, core, config, timers, init
  <2>2. CASE Register
    BY <2>2 DEF Register
  <2>3. CASE RegisterFails
    BY <2>3 DEF RegisterFails
  <2>4. CASE Unload
    BY <2>4 DEF Unload
  <2>5. CASE Tick
    BY <2>5 DEF Tick
  <2>6. ASSUME NEW d \in Dogs, PingModTimer(d) PROVE pre[e] = Off
    BY <2>6 DEF PingModTimer
  <2>7. ASSUME NEW d \in Dogs, PingModuleGet(d) PROVE pre[e] = Off
    BY <2>7 DEF PingModuleGet
  <2>8. ASSUME NEW d \in Dogs, PingPretimeout(d) PROVE pre[e] = Off
    BY <2>8 DEF PingPretimeout
  <2>9. ASSUME NEW d \in Dogs, StopDelTimer(d) PROVE pre[e] = Off
    BY <2>9 DEF StopDelTimer
  <2>10. ASSUME NEW d \in Dogs, StopModulePut(d) PROVE pre[e] = Off
    BY <2>10 DEF StopModulePut
  <2>11. ASSUME NEW d \in Dogs, StopPretimeout(d) PROVE pre[e] = Off
    BY <2>11 DEF StopPretimeout
  <2>12. ASSUME NEW d \in Dogs, PreExpires(d) PROVE pre[e] = Off
    BY <2>12 DEF PreExpires
  <2>13. ASSUME NEW d \in Dogs, FireExpires(d) PROVE pre[e] = Off
    BY <2>13 DEF FireExpires
  <2>14. ASSUME NEW d \in Dogs, FireModulePut(d) PROVE pre[e] = Off
    BY <2>14 DEF FireModulePut
  <2>15. ASSUME NEW d \in Dogs, FireRestart(d) PROVE pre[e] = Off
    BY <2>15 DEF FireRestart
  <2>16. ASSUME NEW d \in Dogs, Open(d) PROVE pre[e] = Off
    BY <2>16 DEF Open
  <2>17. ASSUME NEW d \in Dogs, Keepalive(d) PROVE pre[e] = Off
    BY <2>17 DEF Keepalive
  <2>18. ASSUME NEW d \in Dogs, Disable(d) PROVE pre[e] = Off
    BY <2>18 DEF Disable
  <2>19. ASSUME NEW d \in Dogs, Enable(d) PROVE pre[e] = Off
    BY <2>19 DEF Enable
  <2>20. ASSUME NEW d \in Dogs, Release(d) PROVE pre[e] = Off
    BY <2>20 DEF Release
  <2>21. ASSUME NEW d \in Dogs, NEW v \in BOOLEAN, Write(d, v) PROVE pre[e] = Off
    BY <2>21 DEF Write
  <2>22. ASSUME NEW d \in Dogs, NEW t \in Timeouts[d], SetTimeout(d, t) PROVE pre[e] = Off
    BY <2>22 DEF SetTimeout
  <2>23. ASSUME NEW d \in Dogs, NEW t \in Timeouts[d] \cup {0}, SetPretimeout(d, t)
         PROVE  pre[e] = Off
    BY <2>23 DEF SetPretimeout
  <2>24. CASE Exit
    BY <2>24 DEF Exit
  <2>25. CASE HaltBegins
    BY <2>25 DEF HaltBegins
  <2>26. ASSUME NEW d \in Dogs, HaltDelTimer(d) PROVE pre[e] = Off
    BY <2>26 DEF HaltDelTimer
  <2>27. ASSUME NEW d \in Dogs, HaltModulePut(d) PROVE pre[e] = Off
    BY <2>27 DEF HaltModulePut
  <2>28. ASSUME NEW d \in Dogs, HaltPretimeout(d) PROVE pre[e] = Off
    BY <2>28 DEF HaltPretimeout
  <2>29. QED
    BY <2>1, <2>2, <2>3, <2>4, <2>5, <2>6, <2>7, <2>8, <2>9, <2>10, <2>11, <2>12, <2>13,
       <2>14, <2>15, <2>16, <2>17, <2>18, <2>19, <2>20, <2>21, <2>22, <2>23, <2>24, <2>25,
       <2>26, <2>27, <2>28
    DEF Next, DriverCall, HaltStop, TimerStep, CoreCall
<1>2. QED
  BY <1>1, Invariance, PTL DEF Spec, WarnsBeforeFire
-----------------------------------------------------------------------------
(* rmmod.                                                                  *)

(* Without references nothing but pings of open files is left, whose timers    *)
(* the notifier has deleted before they paid for them.                         *)
LEMMA NoRefsNoHolders ==
  ASSUME IInv, RefsCounted, refs = 0
  PROVE  Files = Owed /\ Timers = {} /\ Fires = {}
<1>1. /\ Files \in SUBSET Dogs /\ Timers \in SUBSET Dogs /\ Halts \in SUBSET Dogs
      /\ Fires \in SUBSET Dogs /\ Owed \in SUBSET Dogs
  BY DEF Files, Timers, Halts, Fires, Owed
<1>2. Owed \in SUBSET Files
  BY DEF IInv, CallsHaveFile, Files, Owed
<1>3. /\ Cardinality(Files) \in Nat /\ Cardinality(Timers) \in Nat
      /\ Cardinality(Halts) \in Nat
      /\ Cardinality(Fires) \in Nat /\ Cardinality(Owed) \in Nat
      /\ IsFiniteSet(Files) /\ IsFiniteSet(Timers) /\ IsFiniteSet(Fires)
  BY <1>1, CountNat
<1>4. Cardinality(Owed) <= Cardinality(Files)
  BY <1>2, <1>3, FS_Subset
<1>5. /\ Cardinality(Timers) = 0 /\ Cardinality(Fires) = 0
      /\ Cardinality(Files) = Cardinality(Owed)
  BY <1>3, <1>4 DEF RefsCounted
<1>6. Timers = {} /\ Fires = {}
  BY <1>3, <1>5, FS_EmptySet
<1>7. Files = Owed
  BY <1>2, <1>3, <1>5, FS_Subset
<1>8. QED
  BY <1>6, <1>7

(* Calls need a registered device, and neither a call nor a timer registers or *)
(* unregisters one.                                                            *)
LEMMA CallsAreUsable ==
  ASSUME NEW d \in Dogs, DriverCall(d) \/ CoreCall(d)
  PROVE  Usable(d)
<1>1. CASE DriverCall(d)
  BY <1>1, Zenon DEF DriverCall, PingModTimer, PingModuleGet, PingPretimeout, StopDelTimer,
     StopModulePut, StopPretimeout
<1>2. CASE CoreCall(d)
  BY <1>2, Zenon DEF CoreCall, Call, Open, Keepalive, Disable, Enable, Release, Write, SetTimeout,
     SetPretimeout
<1>3. QED
  BY <1>1, <1>2

LEMMA StepsKeepModule ==
  ASSUME NEW d \in Dogs, DriverCall(d) \/ TimerStep(d) \/ CoreCall(d)
  PROVE  module' = module /\ registered' = registered /\ halt' = halt
<1> USE DEF init
<1>1. CASE DriverCall(d)
  BY <1>1, Zenon DEF DriverCall, PingModTimer, PingModuleGet, PingPretimeout, StopDelTimer,
     StopModulePut, StopPretimeout
<1>2. CASE TimerStep(d)
  BY <1>2 DEF TimerStep, PreExpires, FireExpires, FireModulePut, FireRestart
<1>3. CASE CoreCall(d)
  BY <1>3, Zenon DEF CoreCall, Open, Keepalive, Disable, Enable, Release, Write, SetTimeout,
     SetPretimeout
<1>4. QED
  BY <1>1, <1>2, <1>3

(* Nothing to be done for a watchdog: neither a timer nor a file nor a handler. *)
Quiet(d) == fire[d] = Off /\ pre[d] = Off /\ firing[d] # "put" /\ ~isopen[d]

(* What ExitFindsNothingArmed says of the end of rmmod holds since its beginning. *)
GoingQuiet ==
  module \in {"going", "exited"} => \A d \in Dogs : halt[d] = "no" => Quiet(d)

LEMMA QuietStays ==
  ASSUME IInv, Next, module \in {"going", "exited"}, NEW e \in Dogs, Quiet(e)
  PROVE  Quiet(e)'
<1> USE DEF Quiet
<1>1. CASE Register \/ RegisterFails \/ Unload \/ Exit \/ HaltBegins
  BY <1>1, Zenon DEF Register, RegisterFails, Unload, Exit, HaltBegins, timers, core
<1>2. CASE Tick
  BY <1>2 DEF Tick, core, Off, IInv, TypeOK
<1>3. ASSUME NEW d \in Dogs, HaltDelTimer(d) \/ HaltStop(d) PROVE Quiet(e)'
  BY <1>3 DEF HaltDelTimer, HaltStop, HaltModulePut, HaltPretimeout, timers, core, IInv, TypeOK
<1>4. ASSUME NEW d \in Dogs, TimerStep(d) PROVE Quiet(e)'
  BY <1>4 DEF TimerStep, PreExpires, FireExpires, FireModulePut, FireRestart, timers, core,
              Off, IInv, TypeOK
<1>5. ASSUME NEW d \in Dogs, DriverCall(d) PROVE Quiet(e)'
  <2>1. d # e
    BY <1>5 DEF DriverCall, PingModTimer, PingModuleGet, PingPretimeout, StopDelTimer,
                StopModulePut, StopPretimeout, IInv, CallsHaveFile
  <2>2. CASE PingModTimer(d) \/ PingModuleGet(d) \/ StopDelTimer(d) \/ StopModulePut(d)
    BY <2>1, <2>2 DEF PingModTimer, PingModuleGet, StopDelTimer, StopModulePut, timers, core,
                      IInv, TypeOK
  <2>3. CASE PingPretimeout(d) \/ StopPretimeout(d)
    BY <2>1, <2>3 DEF PingPretimeout, StopPretimeout, Done, IInv, TypeOK
  <2>4. QED
    BY <1>5, <2>2, <2>3 DEF DriverCall
<1>6. ASSUME NEW d \in Dogs, CoreCall(d) PROVE Quiet(e)'
  <2>1. ~Open(d)
    BY DEF Open
  <2>2. UNCHANGED <<fire, pre, firing>>
    BY <1>6, <2>1, Zenon DEF CoreCall, Keepalive, Disable, Enable, Release, Write, SetTimeout,
       SetPretimeout, timers
  <2>3. isopen' = isopen \/ isopen' = [isopen EXCEPT ![d] = FALSE]
    BY <1>6, <2>1, Zenon DEF CoreCall, Keepalive, Disable, Enable, Release, Write, SetTimeout,
       SetPretimeout, core
  <2>4. ~isopen'[e]
    BY <2>3 DEF IInv, TypeOK
  <2>5. QED
    BY <2>2, <2>4
<1>7. QED
  BY <1>1, <1>2, <1>3, <1>4, <1>5, <1>6 DEF Next

LEMMA NextGoingQuiet ==
  ASSUME MarginInRange
  PROVE  IInv /\ RefsCounted /\ GoingQuiet /\ [Next]_vars => GoingQuiet'
<1> SUFFICES ASSUME IInv, RefsCounted, GoingQuiet, [Next]_vars PROVE GoingQuiet'
  OBVIOUS
<1>1. CASE UNCHANGED vars
  BY <1>1 DEF vars, GoingQuiet, Quiet
<1>2. CASE Unload
  <2>1. Files = Owed /\ Timers = {} /\ Fires = {}
    BY <1>2, NoRefsNoHolders DEF Unload
  <2>2. ASSUME NEW d \in Dogs, halt[d] = "no" PROVE Quiet(d)
    <3>1. fire[d] = Off /\ firing[d] # "put"
      BY <2>1 DEF Timers, Fires, TimerHolds
    <3>2. ~isopen[d]
      <4>1. stage[d] # "get"
        BY <2>2, <3>1 DEF IInv, TypeOK, TimeoutsPositive, PingArms, Told, Off
      <4>2. QED
        BY <2>1, <4>1 DEF Files, Owed
    <3>3. pre[d] = Off
      BY <2>2, <3>1, <3>2 DEF IInv, TypeOK, CallsHaveFile, WarnFirst, Told
    <3>4. QED
      BY <3>1, <3>2, <3>3 DEF Quiet
  <2>3. QED
    BY <1>2, <2>2 DEF Unload, GoingQuiet, Quiet, timers, core
<1>3. CASE Next /\ module \in {"going", "exited"}
  <2>1. ASSUME NEW e \in Dogs, halt'[e] = "no" PROVE halt[e] = "no"
    <3>1. CASE HaltBegins
      BY <3>1 DEF HaltBegins
    <3>2. CASE Register \/ RegisterFails \/ Unload \/ Exit \/ Tick
      BY <2>1, <3>2, Zenon DEF Register, RegisterFails, Unload, Exit, Tick, init
    <3>3. ASSUME NEW d \in Dogs, HaltDelTimer(d) \/ HaltStop(d) PROVE halt[e] = "no"
      BY <2>1, <3>3 DEF HaltDelTimer, HaltStop, HaltModulePut, HaltPretimeout, IInv, TypeOK
    <3>4. ASSUME NEW d \in Dogs, DriverCall(d) \/ TimerStep(d) \/ CoreCall(d)
          PROVE  halt[e] = "no"
      BY <2>1, <3>4, StepsKeepModule
    <3>5. QED
      BY <1>3, <3>1, <3>2, <3>3, <3>4 DEF Next
  <2>2. QED
    BY <1>3, <2>1, QuietStays DEF GoingQuiet
<1>4. CASE Next /\ ~Unload /\ module \notin {"going", "exited"}
  <2>1. module' \notin {"going", "exited"}
    <3>1. CASE Register \/ RegisterFails
      BY <1>4, <3>1 DEF Register, RegisterFails
    <3>2. CASE HaltBegins \/ Tick \/ \E d \in Dogs : HaltDelTimer(d) \/ HaltStop(d)
      BY <1>4, <3>2, Zenon
      DEF HaltBegins, Tick, HaltDelTimer, HaltStop, HaltModulePut, HaltPretimeout, init
    <3>3. QED
      BY <1>4, <3>1, <3>2, StepsKeepModule DEF Next, Exit
  <2>2. QED
    BY <2>1 DEF GoingQuiet
<1>5. QED
  BY <1>1, <1>2, <1>3, <1>4

(* rmmod never leaves a timer armed in freed memory, nor frees an open         *)
(* watchdog, although softdog_exit (lines 148-158) deletes no timer: with a    *)
(* soft_margin in range (0 < soft_margin < 65536) the references suffice,      *)
(* until an orderly shutdown reaches the watchdog.                             *)
THEOREM ExitFindsNothingArmedHolds ==
  ASSUME MarginInRange
  PROVE  Spec => []ExitFindsNothingArmed
<1>1. Init => GoingQuiet
  BY DEF Init, GoingQuiet
<1>2. IInv /\ RefsCounted /\ GoingQuiet /\ [Next]_vars => GoingQuiet'
  BY NextGoingQuiet
<1>3. GoingQuiet => ExitFindsNothingArmed
  BY DEF GoingQuiet, ExitFindsNothingArmed, Quiet
<1>4. QED
  BY <1>1, <1>2, <1>3, Invariance, PTL DEF Spec

-----------------------------------------------------------------------------
(* A watchdog that was left running: the safety core of AbandonedDogFires.    *)

(* The fire timer is pending, or its function has begun to run. *)
Armed(d) == fire[d] # Off \/ firing[d] # "no"

(* An active watchdog is armed unless it is being stopped or the notifier has   *)
(* got to it, and one that is not active is not; except between a new timeout   *)
(* and the ping that follows it, no more than the timeout is left.              *)
Countdown ==
  \A d \in Dogs :
    /\ active[d] /\ stage[d] \notin {"put", "delpre"} => Armed(d) \/ Told(d)
    /\ stage[d] \in {"get", "pre"} => Armed(d) \/ Told(d)
    /\ ~active[d] /\ stage[d] \in {"idle", "mod"} => fire[d] = Off
    /\ stage[d] # "mod" => fire[d] <= timeout[d]

LEMMA InitCountdown == Init => Countdown
<1>1. Init => \A d \in Dogs : timeout[d] \in Nat
  BY ConstantRanges DEF Init
<1>2. QED
  BY <1>1 DEF Init, Countdown, Armed, Told, Off

LEMMA NextCountdown == IInv /\ Countdown /\ [Next]_vars => Countdown'
<1> SUFFICES ASSUME IInv, Countdown, [Next]_vars PROVE Countdown'
  OBVIOUS
<1>0. \A d \in Dogs : timeout[d] \in Nat
  BY ConstantRanges DEF IInv, TypeOK
<1> USE <1>0 DEF IInv, TypeOK, Countdown, Armed, Told, StopDisarms,
        Done, Begin, Call, Usable, PingIfActive, Off, op, init, timers, config, core
<1>1. CASE UNCHANGED vars
  BY <1>1 DEF vars, op, core, config, timers, init
<1>2. CASE Register
  BY <1>2 DEF Register
<1>3. CASE RegisterFails
  BY <1>3 DEF RegisterFails
<1>4. CASE Unload
  BY <1>4 DEF Unload
<1>5. CASE Tick
  BY <1>5 DEF Tick
<1>6. ASSUME NEW d \in Dogs, PingModTimer(d) PROVE Countdown'
  BY <1>6 DEF PingModTimer
<1>7. ASSUME NEW d \in Dogs, PingModuleGet(d) PROVE Countdown'
  BY <1>7 DEF PingModuleGet
<1>8. ASSUME NEW d \in Dogs, PingPretimeout(d) PROVE Countdown'
  BY <1>8 DEF PingPretimeout
<1>9. ASSUME NEW d \in Dogs, StopDelTimer(d) PROVE Countdown'
  BY <1>9 DEF StopDelTimer
<1>10. ASSUME NEW d \in Dogs, StopModulePut(d) PROVE Countdown'
  BY <1>10 DEF StopModulePut
<1>11. ASSUME NEW d \in Dogs, StopPretimeout(d) PROVE Countdown'
  BY <1>11 DEF StopPretimeout
<1>12. ASSUME NEW d \in Dogs, PreExpires(d) PROVE Countdown'
  BY <1>12 DEF PreExpires
<1>13. ASSUME NEW d \in Dogs, FireExpires(d) PROVE Countdown'
  BY <1>13 DEF FireExpires
<1>14. ASSUME NEW d \in Dogs, FireModulePut(d) PROVE Countdown'
  BY <1>14 DEF FireModulePut
<1>15. ASSUME NEW d \in Dogs, FireRestart(d) PROVE Countdown'
  BY <1>15 DEF FireRestart
<1>16. ASSUME NEW d \in Dogs, Open(d) PROVE Countdown'
  BY <1>16 DEF Open
<1>17. ASSUME NEW d \in Dogs, Keepalive(d) PROVE Countdown'
  BY <1>17 DEF Keepalive
<1>18. ASSUME NEW d \in Dogs, Disable(d) PROVE Countdown'
  BY <1>18 DEF Disable
<1>19. ASSUME NEW d \in Dogs, Enable(d) PROVE Countdown'
  BY <1>19 DEF Enable
<1>20. ASSUME NEW d \in Dogs, Release(d) PROVE Countdown'
  BY <1>20 DEF Release
<1>21. ASSUME NEW d \in Dogs, NEW v \in BOOLEAN, Write(d, v) PROVE Countdown'
  BY <1>21 DEF Write
<1>22. ASSUME NEW d \in Dogs, NEW t \in Timeouts[d], SetTimeout(d, t) PROVE Countdown'
  <2>1. timeout'[d] = t /\ t \in Nat /\ stage[d] = "idle"
        /\ UNCHANGED <<fire, firing, active, halt>>
    BY <1>22, ConstantRanges DEF SetTimeout, init
  <2>2. stage'[d] = IF active[d] THEN "mod" ELSE "idle"
    BY <1>22 DEF SetTimeout
  <2>3. \A e \in Dogs \ {d} : timeout'[e] = timeout[e] /\ stage'[e] = stage[e]
    BY <1>22 DEF SetTimeout
  <2>4. active[d] => Armed(d) \/ Told(d)
    BY <2>1
  <2>5. ~active[d] => fire[d] = Off
    BY <2>1
  <2>6. QED
    BY <2>1, <2>2, <2>3, <2>4, <2>5
<1>23. ASSUME NEW d \in Dogs, NEW t \in Timeouts[d] \cup {0}, SetPretimeout(d, t)
       PROVE  Countdown'
  BY <1>23 DEF SetPretimeout
<1>24. CASE Exit
  BY <1>24 DEF Exit
<1>25. CASE HaltBegins
  BY <1>25 DEF HaltBegins
<1>26. ASSUME NEW d \in Dogs, HaltDelTimer(d) PROVE Countdown'
  BY <1>26 DEF HaltDelTimer
<1>27. ASSUME NEW d \in Dogs, HaltModulePut(d) PROVE Countdown'
  BY <1>27 DEF HaltModulePut
<1>28. ASSUME NEW d \in Dogs, HaltPretimeout(d) PROVE Countdown'
  BY <1>28 DEF HaltPretimeout
<1>29. QED
  BY <1>1, <1>2, <1>3, <1>4, <1>5, <1>6, <1>7, <1>8, <1>9, <1>10, <1>11, <1>12, <1>13,
     <1>14, <1>15, <1>16, <1>17, <1>18, <1>19, <1>20, <1>21, <1>22, <1>23, <1>24, <1>25,
     <1>26, <1>27, <1>28
  DEF Next, DriverCall, HaltStop, TimerStep, CoreCall

LEMMA CountdownInvariance == Spec => [](IInv /\ Countdown)
BY InitCountdown, NextCountdown, Invariance, PTL DEF Spec

(* A watchdog that is closed but still active has at most its timeout left, or *)
(* its timer function is on the way to emergency_restart: no order of pings,   *)
(* stops, new timeouts and closes leaves it active and disarmed (lines 53-79); *)
(* only the notifier of an orderly shutdown does (line 115).                   *)
THEOREM AbandonedDogArmed ==
  Spec => [](\A d \in Dogs : active[d] /\ ~isopen[d] /\ ~Told(d) =>
               fire[d] \in 0 .. timeout[d] \/ firing[d] # "no")
<1>1. IInv /\ Countdown =>
        \A d \in Dogs : active[d] /\ ~isopen[d] /\ ~Told(d) =>
          fire[d] \in 0 .. timeout[d] \/ firing[d] # "no"
  <2> SUFFICES ASSUME IInv, Countdown, NEW d \in Dogs, active[d], ~isopen[d], ~Told(d),
                      firing[d] = "no"
               PROVE  fire[d] \in 0 .. timeout[d]
    OBVIOUS
  <2>1. stage[d] = "idle"
    BY DEF IInv, CallsHaveFile
  <2>2. fire[d] # Off /\ fire[d] <= timeout[d]
    BY <2>1 DEF Countdown, Armed
  <2>3. fire[d] \in Nat /\ timeout[d] \in Nat
    BY <2>2, ConstantRanges DEF IInv, TypeOK
  <2>4. QED
    BY <2>2, <2>3
<1>2. QED
  BY <1>1, CountdownInvariance, PTL

(* While it stays closed nothing gives it more time: only the second that      *)
(* passes changes fire_timer, by one, until softdog_fire is entered or the     *)
(* notifier of an orderly shutdown gets to it; the core keeps it active with   *)
(* the same timeout, and softdog_fire, once entered, is not undone (lines      *)
(* 36-43).                                                                     *)
THEOREM AbandonedDogCountsDown ==
  Spec => [][ \A d \in Dogs :
                active[d] /\ ~isopen[d] /\ ~isopen'[d] =>
                  /\ active'[d] /\ timeout'[d] = timeout[d]
                  /\ firing[d] # "no" => firing'[d] # "no"
                  /\ fire[d] # Off =>
                       \/ fire'[d] = IF Tick THEN fire[d] - 1 ELSE fire[d]
                       \/ fire[d] = 0 /\ firing[d] = "no" /\ firing'[d] = "put"
                       \/ ~Told(d) /\ Told(d)' ]_vars
<1> DEFINE C(e) == /\ active'[e] /\ timeout'[e] = timeout[e]
                   /\ firing[e] # "no" => firing'[e] # "no"
                   /\ fire[e] # Off =>
                        \/ fire'[e] = IF Tick THEN fire[e] - 1 ELSE fire[e]
                        \/ fire[e] = 0 /\ firing[e] = "no" /\ firing'[e] = "put"
                        \/ ~Told(e) /\ Told(e)'
           A == \A d \in Dogs : active[d] /\ ~isopen[d] /\ ~isopen'[d] => C(d)
<1>1. IInv /\ [Next]_vars => [A]_vars
  <2> SUFFICES ASSUME IInv, Next, NEW e \in Dogs, active[e], ~isopen[e], ~isopen'[e]
               PROVE  C(e)
    OBVIOUS
  <2>0. stage[e] = "idle"
    BY DEF IInv, CallsHaveFile
  <2>1. CASE Tick
    BY <2>1 DEF Tick, core, config, IInv, TypeOK
  <2> SUFFICES ASSUME ~Tick PROVE C(e)
    BY <2>1
  <2>2. CASE Register \/ RegisterFails \/ Unload \/ Exit \/ HaltBegins
    BY <2>2, Zenon DEF Register, RegisterFails, Unload, Exit, HaltBegins, core, config, timers
  <2>7. ASSUME NEW d \in Dogs, HaltDelTimer(d) \/ HaltStop(d) PROVE C(e)
    <3>1. active' = active /\ timeout' = timeout /\ firing' = firing
      BY <2>7, Zenon DEF HaltDelTimer, HaltStop, HaltModulePut, HaltPretimeout, core, config, timers
    <3>2. fire'[e] = fire[e] \/ (~Told(e) /\ Told(e)')
      BY <2>7 DEF HaltDelTimer, HaltStop, HaltModulePut, HaltPretimeout, timers, Told, IInv, TypeOK
    <3>3. QED
      BY <3>1, <3>2
  <2>3. ASSUME NEW d \in Dogs, TimerStep(d) PROVE C(e)
    BY <2>3 DEF TimerStep, PreExpires, FireExpires, FireModulePut, FireRestart, core, config,
                timers, IInv, TypeOK
  <2>4. ASSUME NEW d \in Dogs, DriverCall(d) PROVE C(e)
    <3>1. d # e
      BY <2>0, <2>4 DEF DriverCall, PingModTimer, PingModuleGet, PingPretimeout, StopDelTimer,
                        StopModulePut, StopPretimeout
    <3>2. /\ active'[e] = active[e] /\ timeout' = timeout /\ firing' = firing
          /\ fire'[e] = fire[e]
      BY <2>4, <3>1 DEF DriverCall, PingModTimer, PingModuleGet, PingPretimeout, StopDelTimer,
                        StopModulePut, StopPretimeout, Done, core, config, timers,
                        IInv, TypeOK
    <3>3. QED
      BY <3>2
  <2>5. ASSUME NEW d \in Dogs, CoreCall(d) PROVE C(e)
    <3>1. active' = active /\ firing' = firing /\ fire' = fire
      BY <2>5, Zenon DEF CoreCall, Open, Keepalive, Disable, Enable, Release, Write, SetTimeout,
                  SetPretimeout, core, timers
    <3>2. timeout'[e] = timeout[e]
      <4>1. CASE \E t \in Timeouts[d] : SetTimeout(d, t)
        BY <4>1 DEF SetTimeout, Call, IInv, TypeOK
      <4>2. CASE ~\E t \in Timeouts[d] : SetTimeout(d, t)
        BY <2>5, <4>2, Zenon DEF CoreCall, Open, Keepalive, Disable, Enable, Release, Write,
                          SetPretimeout, config
      <4>3. QED
        BY <4>1, <4>2
    <3>3. QED
      BY <3>1, <3>2
  <2>6. QED
    BY <2>2, <2>7, <2>3, <2>4, <2>5 DEF Next
<1>2. QED
  BY <1>1, Invariance, PTL DEF Spec

(* Calls in progress are calls on a registered device: softdog_exit and the   *)
(* error path of softdog_init (lines 137-143) wait for them.                   *)
CallsInside == \A d \in Dogs : stage[d] # "idle" => d <= registered

(* A driver call, the notifier, a timer function or, when none of these is     *)
(* due, the clock can go on.                                                   *)
CanRun ==
  \/ \E d \in Dogs : \/ stage[d] # "idle" /\ Usable(d)
                     \/ halt[d] \in {"put", "delpre"}
                     \/ pre[d] = 0
                     \/ fire[d] = 0 /\ firing[d] = "no"
                     \/ firing[d] # "no"
  \/ /\ \A d \in Dogs : /\ fire[d] # 0 /\ pre[d] # 0
                       /\ stage[d] = "idle" /\ halt[d] \notin {"put", "delpre"}
     /\ \E d \in Dogs : fire[d] # Off

LEMMA NextCallsInside == IInv /\ CallsInside /\ [Next]_vars => CallsInside'
<1> SUFFICES ASSUME IInv, CallsInside, [Next]_vars PROVE CallsInside'
  OBVIOUS
<1>1. CASE UNCHANGED vars
  BY <1>1 DEF vars, op, init, CallsInside
<1>2. CASE Register
  BY <1>2, ConstantRanges DEF Register, op, CallsInside, IInv, TypeOK, Dogs
<1>3. CASE RegisterFails \/ Exit
  BY <1>3 DEF RegisterFails, Exit, op, CallsInside
<1>4. CASE Unload \/ HaltBegins \/ Tick
  BY <1>4, Zenon DEF Unload, HaltBegins, Tick, op, init, CallsInside
<1>5. ASSUME NEW d \in Dogs, HaltDelTimer(d) \/ HaltStop(d) PROVE CallsInside'
  BY <1>5, Zenon DEF HaltDelTimer, HaltStop, HaltModulePut, HaltPretimeout, op, CallsInside
<1>6. ASSUME NEW d \in Dogs, DriverCall(d) \/ TimerStep(d) \/ CoreCall(d)
      PROVE  CallsInside'
  <2>1. registered' = registered
    BY <1>6, StepsKeepModule
  <2>2. DriverCall(d) \/ CoreCall(d) => d <= registered
    BY CallsAreUsable DEF Usable
  <2>3. TimerStep(d) => stage' = stage
    BY DEF TimerStep, PreExpires, FireExpires, FireModulePut, FireRestart, op
  <2>4. DriverCall(d) \/ CoreCall(d) => \A e \in Dogs \ {d} : stage'[e] = stage[e]
    <3> USE DEF IInv, TypeOK, op
    <3>1. CASE DriverCall(d)
      BY <3>1 DEF DriverCall, PingModTimer, PingModuleGet, PingPretimeout, StopDelTimer,
                  StopModulePut, StopPretimeout, Done
    <3>2. CASE Open(d) \/ Keepalive(d) \/ Disable(d) \/ Enable(d) \/ Release(d)
      BY <3>2 DEF Open, Keepalive, Disable, Enable, Release, PingIfActive, Begin
    <3>3. CASE \E v \in BOOLEAN : Write(d, v)
      BY <3>3 DEF Write, PingIfActive, Begin
    <3>4. CASE \E t \in Timeouts[d] : SetTimeout(d, t)
      BY <3>4 DEF SetTimeout, PingIfActive, Begin
    <3>5. CASE \E t \in Timeouts[d] \cup {0} : SetPretimeout(d, t)
      BY <3>5 DEF SetPretimeout
    <3>6. QED
      BY <3>1, <3>2, <3>3, <3>4, <3>5 DEF CoreCall
  <2>5. QED
    BY <1>6, <2>1, <2>2, <2>3, <2>4 DEF CallsInside
<1>7. QED
  BY <1>1, <1>2, <1>3, <1>4, <1>5, <1>6 DEF Next

(* As long as some watchdog is armed, a driver call in progress, the notifier's *)
(* stop, a timer function or the clock can go on: nothing is stuck before the   *)
(* restart (lines 36-79), even where the chain meets pings and rmmod.           *)
THEOREM ArmedNeverStuck ==
  Spec => [](Running /\ (\E d \in Dogs : Armed(d)) => CanRun)
<1>1. Init => CallsInside
  BY DEF Init, CallsInside
<1>2. IInv /\ CallsInside => (Running /\ (\E d \in Dogs : Armed(d)) => CanRun)
  <2> SUFFICES ASSUME IInv, CallsInside, Running, NEW e \in Dogs, Armed(e), ~CanRun
               PROVE  FALSE
    OBVIOUS
  <2>1. \A d \in Dogs : stage[d] = "idle"
    BY DEF CallsInside, CanRun, Usable
  <2>2. \A d \in Dogs : /\ firing[d] = "no" /\ pre[d] # 0 /\ fire[d] # 0
                       /\ halt[d] \notin {"put", "delpre"}
    BY DEF CanRun
  <2>3. fire[e] # Off
    BY <2>2 DEF Armed
  <2>4. QED
    BY <2>1, <2>2, <2>3 DEF CanRun
<1>3. QED
  BY <1>1, <1>2, NextCallsInside, Invariance, PTL DEF Spec
=============================================================================
