--------------------------- MODULE DataPathsProofs ---------------------------
(***************************************************************************)
(* The properties of DataPaths for any constants.  A step of the model is  *)
(* one of one driver, so each driver is reasoned about with its own steps  *)
(* only: StepsOfEach takes them apart.  Each section finds an inductive    *)
(* invariant of its driver and ends in the theorems that follow from it.   *)
(***************************************************************************)
EXTENDS VirtUartProofs, GCharProofs, FiniteSetTheorems

(* A step of the model, as each driver sees it. *)
LEMMA StepsOfEach ==
  ASSUME [AllNext]_allVars
  PROVE  /\ [Next]_vars
         /\ [Light!Next]_(Light!vars)
         /\ [Uart!Next]_(Uart!vars)
         /\ [Irq!Next]_(Irq!vars)
         /\ [Sensor!Next]_(Sensor!vars)
         /\ [Kthread!Next]_(Kthread!vars)
         /\ [Oled!Next]_(Oled!vars)
<1> USE DEF AllNext, allVars, gadget, light, uart, irq, sensor, kthread, oled
<1>1. [Next]_vars
  BY Zenon DEF GadgetStep, LightStep, UartStep, IrqStep, SensorStep, KthreadStep, AloneKthread, OledStep
<1>2. [Light!Next]_(Light!vars)
  BY Zenon DEF GadgetStep, LightStep, UartStep, IrqStep, SensorStep, KthreadStep, AloneKthread, OledStep,
               Light!vars, Light!settings
<1>3. [Uart!Next]_(Uart!vars)
  BY Zenon DEF GadgetStep, LightStep, UartStep, IrqStep, SensorStep, KthreadStep, AloneKthread, OledStep,
               Uart!vars
<1>4. [Irq!Next]_(Irq!vars)
  BY Zenon DEF GadgetStep, LightStep, UartStep, IrqStep, SensorStep, KthreadStep, AloneKthread, OledStep,
               Irq!vars
<1>5. [Sensor!Next]_(Sensor!vars)
  BY Zenon DEF GadgetStep, LightStep, UartStep, IrqStep, SensorStep, KthreadStep, AloneKthread, OledStep,
               Sensor!vars
<1>6. [Kthread!Next]_(Kthread!vars)
  BY Zenon DEF GadgetStep, LightStep, UartStep, IrqStep, SensorStep, KthreadStep, AloneKthread, OledStep,
               Kthread!vars
<1>7. [Oled!Next]_(Oled!vars)
  BY Zenon DEF GadgetStep, LightStep, UartStep, IrqStep, SensorStep, KthreadStep, AloneKthread, OledStep,
               Oled!vars
<1>8. QED
  BY <1>1, <1>2, <1>3, <1>4, <1>5, <1>6, <1>7

-----------------------------------------------------------------------------
(* The light sensor. *)

(* Between the lock and the unlock of a callback or handler, it is the owner. *)
LightOwned ==
  /\ timer \in {"count", "derive", "report"} <=> lock = "timer"
  /\ trigger \in {"copy 0", "copy 1", "unlock"} <=> lock = "trigger"

(* The second channel follows the first, but for the moment between the two *)
(* assignments of lux_auto_change.                                          *)
LightDerived == timer # "derive" => current_lux[1] = current_lux[0] \div 2

(* What the handler has copied so far. *)
LightCopied ==
  /\ trigger = "copy 1" => data[0] = current_lux[0]
  /\ trigger \in {"unlock", "push"} => data[1] = data[0] \div 2

LightInv == Light!TypeOK /\ LightOwned /\ LightDerived /\ LightCopied

-----------------------------------------------------------------------------
(* What is stored in an unsigned char is in its range, and so is its half. *)
LEMMA LevelOfByte ==
  ASSUME Levels \in Nat \ {0}, NEW x \in Int
  PROVE  x % Levels \in Light!Level
BY DEF Light!Level

LEMMA LevelOfHalf ==
  ASSUME Levels \in Nat \ {0}, NEW x \in Light!Level
  PROVE  x \div 2 \in Light!Level
BY DEF Light!Level

(* A count in range is not cut, and one below zero wraps. *)
LEMMA PredecessorInByte ==
  ASSUME Levels \in Nat \ {0}, NEW x \in Light!Level
  PROVE  /\ (x - 1) % Levels >= 0
         /\ x > 0 => (x - 1) % Levels = x - 1
BY DEF Light!Level

LEMMA MetTyped ==
  ASSUME NEW thresh, NEW direction \in {"rising", "falling"}
  PROVE  Light!Met(thresh, direction) \subseteq Light!Channels \X {"rising", "falling"}
BY DEF Light!Met

LEMMA ChannelNumbers == 0 \in Light!Channels /\ 1 \in Light!Channels
BY DEF Light!Channels

(* The two assignments of lux_auto_change. *)
LEMMA CountKeeps ==
  ASSUME Levels \in Nat \ {0}, Light!TypeOK, Light!TimerCounts
  PROVE  current_lux' \in [Light!Channels -> Light!Level]
<1> DEFINE next == (current_lux[0] + 1) % Levels
<1>1. current_lux[0] \in Int
  <2>1. current_lux[0] \in Light!Level
    BY ChannelNumbers DEF Light!TypeOK
  <2>2. QED
    BY <2>1 DEF Light!Level
<1>2. next \in Light!Level
  BY <1>1, LevelOfByte
<1>3. current_lux' = [current_lux EXCEPT ![0] = next]
  BY DEF Light!TimerCounts
<1> HIDE DEF next
<1>4. QED
  BY <1>2, <1>3 DEF Light!TypeOK

LEMMA DeriveKeeps ==
  ASSUME Levels \in Nat \ {0}, Light!TypeOK, Light!TimerDerives
  PROVE  current_lux' \in [Light!Channels -> Light!Level] /\ current_lux'[1] = current_lux'[0] \div 2
<1> DEFINE half == current_lux[0] \div 2
<1>1. half \in Light!Level
  BY LevelOfHalf DEF Light!TypeOK, Light!Channels
<1>2. current_lux' = [current_lux EXCEPT ![1] = half]
  BY DEF Light!TimerDerives
<1> HIDE DEF half
<1>3. /\ current_lux' \in [Light!Channels -> Light!Level]
      /\ current_lux'[1] = half /\ current_lux'[0] = current_lux[0]
  <2>1. current_lux \in [Light!Channels -> Light!Level]
    BY DEF Light!TypeOK
  <2>2. current_lux' \in [Light!Channels -> Light!Level]
    BY <1>1, <1>2, <2>1
  <2>3. QED
    BY <1>2, <2>1, <2>2, ChannelNumbers
<1>4. QED
  BY <1>3 DEF half

LEMMA LightInit ==
  ASSUME Levels \in Nat \ {0}
  PROVE  Light!Init => LightInv
BY DEF Light!Init, LightInv, Light!TypeOK, LightOwned, LightDerived, LightCopied, Light!Channels, Light!Level

LEMMA LightNext ==
  ASSUME Levels \in Nat \ {0}, Values \subseteq Int
  PROVE  LightInv /\ [Light!Next]_(Light!vars) => LightInv'
<1> SUFFICES ASSUME LightInv, [Light!Next]_(Light!vars) PROVE LightInv'
  OBVIOUS
<1> USE DEF LightInv, LightOwned, LightDerived, LightCopied
<1>1. CASE UNCHANGED Light!vars
  BY <1>1 DEF Light!vars, Light!settings, Light!TypeOK
<1>2. CASE Light!TimerFires \/ Light!TimerLocks
  BY <1>2 DEF Light!TimerFires, Light!TimerLocks, Light!settings, Light!TypeOK, Light!Channels
<1>3. CASE Light!TimerCounts
  BY <1>3, CountKeeps DEF Light!TimerCounts, Light!settings, Light!TypeOK
<1>4. CASE Light!TimerDerives
  BY <1>4, DeriveKeeps DEF Light!TimerDerives, Light!settings, Light!TypeOK
<1>5. CASE Light!TimerReports
  <2>1. events' \subseteq Light!Channels \X {"rising", "falling"}
    BY <1>5, MetTyped DEF Light!TimerReports
  <2>2. QED
    BY <1>5, <2>1 DEF Light!TimerReports, Light!settings, Light!TypeOK
<1>6. CASE Light!Triggered \/ Light!TriggerLocks \/ Light!TriggerUnlocks
  BY <1>6 DEF Light!Triggered, Light!TriggerLocks, Light!TriggerUnlocks, Light!settings, Light!TypeOK
<1>7. CASE Light!TriggerCopies(0, "copy 0", "copy 1")
  <2>1. data' \in [Light!Channels -> Light!Level] /\ data'[0] = current_lux[0]
    BY <1>7 DEF Light!TriggerCopies, Light!TypeOK, Light!Channels
  <2>2. QED
    BY <1>7, <2>1 DEF Light!TriggerCopies, Light!settings, Light!TypeOK
<1>8. CASE Light!TriggerCopies(1, "copy 1", "unlock")
  <2>1. /\ data' \in [Light!Channels -> Light!Level]
        /\ data'[0] = data[0] /\ data'[1] = current_lux[1]
    BY <1>8 DEF Light!TriggerCopies, Light!TypeOK, Light!Channels
  <2>2. timer # "derive"
    BY <1>8 DEF Light!TriggerCopies, Light!TypeOK
  <2>3. QED
    BY <1>8, <2>1, <2>2 DEF Light!TriggerCopies, Light!settings, Light!TypeOK
<1>9. CASE Light!TriggerPushes
  BY <1>9 DEF Light!TriggerPushes, Light!settings, Light!TypeOK, Light!Channels, Light!Level
<1>10. ASSUME NEW val \in Periods, Light!WriteRaw(val) PROVE LightInv'
  BY <1>10 DEF Light!WriteRaw, Light!TypeOK
<1>11. ASSUME NEW c \in Light!Channels, NEW state \in BOOLEAN, Light!WriteEventConfig(c, state)
       PROVE  LightInv'
  BY <1>11 DEF Light!WriteEventConfig, Light!TypeOK
<1>12. ASSUME NEW c \in Light!Channels, NEW val \in Values, Light!WriteEventValue(c, val)
       PROVE  LightInv'
  <2>1. val % Levels \in Light!Level
    BY LevelOfByte
  <2>2. high_thresh' \in [Light!Channels -> Light!Level] /\ low_thresh' \in [Light!Channels -> Light!Level]
    BY <1>12, <2>1 DEF Light!WriteEventValue, Light!TypeOK
  <2>3. QED
    BY <1>12, <2>2 DEF Light!WriteEventValue, Light!TypeOK
<1>13. QED
  BY <1>1, <1>2, <1>3, <1>4, <1>5, <1>6, <1>7, <1>8, <1>9, <1>10, <1>11, <1>12 DEF Light!Next

LEMMA LightInvariance == AllSpec => []LightInv
<1>1. Levels \in Nat \ {0} /\ Values \subseteq Int
  BY DataPathsAssumption
<1>2. AllInit => LightInv
  BY <1>1, LightInit DEF AllInit
<1>3. LightInv /\ [AllNext]_allVars => LightInv'
  BY <1>1, StepsOfEach, LightNext
<1>4. QED
  BY <1>2, <1>3, PTL DEF AllSpec

-----------------------------------------------------------------------------
(* The sample that the handler pushes after the unlock of line 276 is a pair  *)
(* the channels had at one moment (lines 230-231), for any width and any       *)
(* order of the timer and the trigger.                                         *)
THEOREM PushedSampleConsistentHolds == AllSpec => []PushedSampleConsistent
<1>1. LightInv => PushedSampleConsistent
  BY DEF LightInv, LightCopied, PushedSampleConsistent, Light!PushedSampleConsistent
<1>2. QED
  BY <1>1, LightInvariance, PTL

(* Every upward crossing of an enabled threshold is reported (lines 235-242),  *)
(* although the code compares with = only.                                     *)
THEOREM NoSilentRiseHolds == AllSpec => NoSilentRise
<1> USE DataPathsAssumption
<1> DEFINE Reported ==
             timer = "report" /\ timer' = "idle" =>
               \A c \in Light!Channels :
                 event[c] /\ Light!Before(c) < high_thresh[c] /\ high_thresh[c] <= current_lux[c]
                   => <<c, "rising">> \in events'
<1>1. LightInv /\ [Light!Next]_(Light!vars) => [Reported]_(Light!vars)
  <2> SUFFICES ASSUME LightInv, Light!Next, timer = "report", timer' = "idle",
                      NEW c \in Light!Channels, event[c],
                      Light!Before(c) < high_thresh[c], high_thresh[c] <= current_lux[c]
               PROVE  <<c, "rising">> \in events'
    OBVIOUS
  <2>1. Light!TimerReports
    BY DEF Light!Next, Light!TimerReports, Light!TimerFires, Light!TimerLocks, Light!TimerCounts, Light!TimerDerives, Light!Triggered,
           Light!TriggerLocks, Light!TriggerCopies, Light!TriggerUnlocks, Light!TriggerPushes, Light!WriteRaw,
           Light!WriteEventConfig, Light!WriteEventValue
  <2>2. /\ current_lux[0] \in Light!Level /\ current_lux[1] = current_lux[0] \div 2
        /\ high_thresh[c] \in Light!Level
    BY DEF LightInv, Light!TypeOK, LightDerived, Light!Channels
  <2> DEFINE before == (current_lux[0] - 1) % Levels
  <2>3. before >= 0 /\ (current_lux[0] > 0 => before = current_lux[0] - 1) /\ before \in Int
    BY <2>2, PredecessorInByte DEF Light!Level
  <2>4. Light!Before(c) = IF c = 0 THEN before ELSE before \div 2
    BY DEF Light!Before
  <2> HIDE DEF before
  <2>5. current_lux[c] = high_thresh[c]
    BY <2>2, <2>3, <2>4 DEF Light!Channels, Light!Level
  <2>6. <<c, "rising">> \in Light!Met(high_thresh, "rising")
    BY <2>5 DEF Light!Met
  <2>7. QED
    BY <2>1, <2>6 DEF Light!TimerReports
<1> HIDE DEF Reported
<1>2. LightInv /\ [AllNext]_allVars => [Reported]_(Light!vars)
  BY <1>1, StepsOfEach
<1>3. AllSpec => [][Reported]_(Light!vars)
  BY <1>2, LightInvariance, PTL DEF AllSpec
<1>4. QED
  BY <1>3 DEF Reported, NoSilentRise, Light!NoSilentRise

-----------------------------------------------------------------------------
(* The UIO device. *)

(* Uio counts with its own instance of Cardinality. *)
LEMMA UioCounts == \A S : Irq!Cardinality(S) = Cardinality(S)
BY Zenon DEF Irq!Cardinality, Cardinality

(* The accounting of the depth, with the types it needs. *)
IrqInv == Irq!TypeOK /\ Irq!Account

(* Fewer writers than all of them are still finitely many. *)
LEMMA OwingFinite ==
  ASSUME IsFiniteSet(IrqWriters), NEW what
  PROVE  IsFiniteSet(Irq!Owing(what)) /\ Cardinality(Irq!Owing(what)) \in Nat
  <1>1. Irq!Owing(what) \subseteq IrqWriters
    BY DEF Irq!Owing
  <1>2. IsFiniteSet(Irq!Owing(what))
    BY <1>1, FS_Subset
  <1> QED
    BY <1>2, FS_CardinalityType

(* A writer that comes to owe something is counted once more there. *)
LEMMA OwingOneMore ==
  ASSUME Irq!TypeOK, IsFiniteSet(IrqWriters), NEW w \in IrqWriters, NEW what \in {"enable", "disable"},
         owes[w] = "nothing", owes' = [owes EXCEPT ![w] = what]
  PROVE  /\ Cardinality(Irq!Owing(what)') = Cardinality(Irq!Owing(what)) + 1
         /\ \A other \in {"enable", "disable"} \ {what} : Irq!Owing(other)' = Irq!Owing(other)
  <1>1. Irq!Owing(what)' = Irq!Owing(what) \cup {w} /\ w \notin Irq!Owing(what)
    BY DEF Irq!Owing, Irq!TypeOK
  <1>2. Cardinality(Irq!Owing(what) \cup {w}) = Cardinality(Irq!Owing(what)) + 1
    BY <1>1, OwingFinite, FS_AddElement
  <1>3. \A other \in {"enable", "disable"} \ {what} : Irq!Owing(other)' = Irq!Owing(other)
    BY DEF Irq!Owing, Irq!TypeOK
  <1> QED
    BY <1>1, <1>2, <1>3

(* A writer that has done what it owed is counted once less there. *)
LEMMA OwingOneLess ==
  ASSUME Irq!TypeOK, IsFiniteSet(IrqWriters), NEW w \in IrqWriters, NEW what \in {"enable", "disable"},
         owes[w] = what, owes' = [owes EXCEPT ![w] = "nothing"]
  PROVE  /\ Cardinality(Irq!Owing(what)') = Cardinality(Irq!Owing(what)) - 1
         /\ \A other \in {"enable", "disable"} \ {what} : Irq!Owing(other)' = Irq!Owing(other)
  <1>1. Irq!Owing(what)' = Irq!Owing(what) \ {w} /\ w \in Irq!Owing(what)
    BY DEF Irq!Owing, Irq!TypeOK
  <1>2. Cardinality(Irq!Owing(what) \ {w}) = Cardinality(Irq!Owing(what)) - 1
    BY <1>1, OwingFinite, FS_RemoveElement
  <1>3. \A other \in {"enable", "disable"} \ {what} : Irq!Owing(other)' = Irq!Owing(other)
    BY DEF Irq!Owing, Irq!TypeOK
  <1> QED
    BY <1>1, <1>2, <1>3

(* Nobody owes anything when the device appears. *)
LEMMA IrqInit == Irq!Init => IrqInv
  <1> SUFFICES ASSUME Irq!Init PROVE IrqInv
    OBVIOUS
  <1>1. Irq!TypeOK
    BY DEF Irq!Init, Irq!TypeOK
  <1>2. Irq!Owing("enable") = {} /\ Irq!Owing("disable") = {}
    BY DEF Irq!Init, Irq!Owing
  <1>3. Irq!Account
    BY <1>2, FS_EmptySet, UioCounts DEF Irq!Init, Irq!Account, Irq!FlagDepth
  <1> QED
    BY <1>1, <1>3 DEF IrqInv

(* Every step of a call keeps the account. *)
LEMMA IrqNext ==
  ASSUME IsFiniteSet(IrqWriters), IrqInv, [Irq!Next]_(Irq!vars)
  PROVE  IrqInv'
  <1> USE DEF IrqInv
  <1>0. /\ Cardinality(Irq!Owing("enable")) \in Nat
        /\ Cardinality(Irq!Owing("disable")) \in Nat
    BY OwingFinite
  <1>1. ASSUME NEW w \in IrqWriters, Irq!IrqOn(w)
        PROVE  IrqInv'
    <2>1. Irq!TypeOK'
      BY <1>1 DEF Irq!IrqOn, Irq!TypeOK
    <2>2. CASE flag
      <3>1. owes' = owes /\ flag' = flag
        BY <1>1, <2>2 DEF Irq!IrqOn, Irq!TypeOK
      <3> QED
        BY <1>1, <2>1, <3>1, UioCounts DEF Irq!IrqOn, Irq!Account, Irq!FlagDepth, Irq!Owing
    <2>3. CASE ~flag
      <3>1. owes[w] = "nothing" /\ owes' = [owes EXCEPT ![w] = "enable"] /\ flag' = TRUE
        BY <1>1, <2>3 DEF Irq!IrqOn
      <3>2. /\ Cardinality(Irq!Owing("enable")') = Cardinality(Irq!Owing("enable")) + 1
            /\ Irq!Owing("disable")' = Irq!Owing("disable")
        BY <3>1, OwingOneMore
      <3> QED
        BY <1>0, <1>1, <2>1, <2>3, <3>1, <3>2, UioCounts DEF Irq!IrqOn, Irq!Account, Irq!FlagDepth, Irq!TypeOK
    <2> QED
      BY <2>2, <2>3
  <1>2. ASSUME NEW w \in IrqWriters, Irq!IrqOff(w)
        PROVE  IrqInv'
    <2>1. Irq!TypeOK'
      BY <1>2 DEF Irq!IrqOff, Irq!TypeOK
    <2>2. CASE ~flag
      <3>1. owes' = owes /\ flag' = flag
        BY <1>2, <2>2 DEF Irq!IrqOff, Irq!TypeOK
      <3> QED
        BY <1>2, <2>1, <3>1, UioCounts DEF Irq!IrqOff, Irq!Account, Irq!FlagDepth, Irq!Owing
    <2>3. CASE flag
      <3>1. owes[w] = "nothing" /\ owes' = [owes EXCEPT ![w] = "disable"] /\ flag' = FALSE
        BY <1>2, <2>3 DEF Irq!IrqOff
      <3>2. /\ Cardinality(Irq!Owing("disable")') = Cardinality(Irq!Owing("disable")) + 1
            /\ Irq!Owing("enable")' = Irq!Owing("enable")
        BY <3>1, OwingOneMore
      <3> QED
        BY <1>0, <1>2, <2>1, <2>3, <3>1, <3>2, UioCounts DEF Irq!IrqOff, Irq!Account, Irq!FlagDepth, Irq!TypeOK
    <2> QED
      BY <2>2, <2>3
  <1>3. ASSUME NEW w \in IrqWriters, Irq!EnableIrq(w)
        PROVE  IrqInv'
    <2>1. Irq!TypeOK'
      BY <1>3 DEF Irq!EnableIrq, Irq!TypeOK
    <2>2. /\ Cardinality(Irq!Owing("enable")') = Cardinality(Irq!Owing("enable")) - 1
          /\ Irq!Owing("disable")' = Irq!Owing("disable")
      BY <1>3, OwingOneLess DEF Irq!EnableIrq
    <2> QED
      BY <1>0, <1>3, <2>1, <2>2, UioCounts DEF Irq!EnableIrq, Irq!Account, Irq!FlagDepth, Irq!TypeOK
  <1>4. ASSUME NEW w \in IrqWriters, Irq!DisableIrq(w)
        PROVE  IrqInv'
    <2>1. Irq!TypeOK'
      BY <1>4 DEF Irq!DisableIrq, Irq!TypeOK
    <2>2. /\ Cardinality(Irq!Owing("disable")') = Cardinality(Irq!Owing("disable")) - 1
          /\ Irq!Owing("enable")' = Irq!Owing("enable")
      BY <1>4, OwingOneLess DEF Irq!DisableIrq
    <2> QED
      BY <1>0, <1>4, <2>1, <2>2, UioCounts DEF Irq!DisableIrq, Irq!Account, Irq!FlagDepth, Irq!TypeOK
  <1>5. CASE UNCHANGED Irq!vars
    BY <1>5, UioCounts DEF Irq!vars, Irq!TypeOK, Irq!Account, Irq!FlagDepth, Irq!Owing
  <1> QED
    BY <1>1, <1>2, <1>3, <1>4, <1>5 DEF Irq!Next

(* What the account says of the moments a user sees. *)
LEMMA AccountInStep ==
  ASSUME IsFiniteSet(IrqWriters), IrqInv
  PROVE  Irq!IrqInStep
  <1> USE DEF IrqInv
  <1>0. /\ Cardinality(Irq!Owing("enable")) \in Nat
        /\ Cardinality(Irq!Owing("disable")) \in Nat
    BY OwingFinite
  <1>1. ASSUME \A w \in IrqWriters : owes[w] = "nothing"
        PROVE  depth = Irq!FlagDepth + unbalanced
    <2>1. Irq!Owing("enable") = {} /\ Irq!Owing("disable") = {}
      BY <1>1 DEF Irq!Owing
    <2>2. Cardinality(Irq!Owing("enable")) = 0 /\ Cardinality(Irq!Owing("disable")) = 0
      BY <2>1, FS_EmptySet
    <2> QED
      BY <2>2, UioCounts DEF Irq!Account, Irq!TypeOK, Irq!FlagDepth
  <1>2. ASSUME NEW w \in IrqWriters, owes[w] = "enable", depth = 0
        PROVE  \E v \in IrqWriters : owes[v] = "disable"
    <2>1. Cardinality(Irq!Owing("enable")) # 0
      <3>1. w \in Irq!Owing("enable")
        BY <1>2 DEF Irq!Owing
      <3> QED
        BY <3>1, OwingFinite, FS_EmptySet
    <2>2. Cardinality(Irq!Owing("disable")) # 0
      BY <1>0, <1>2, <2>1, UioCounts DEF Irq!Account, Irq!TypeOK, Irq!FlagDepth
    <2>3. Irq!Owing("disable") # {}
      BY <2>2, FS_EmptySet
    <2> QED
      BY <2>3 DEF Irq!Owing
  <1> QED
    BY <1>1, <1>2 DEF Irq!IrqInStep

LEMMA IrqInvariance == AllSpec => []IrqInv
<1>1. IsFiniteSet(IrqWriters)
  BY DataPathsAssumption
<1>2. AllInit => IrqInv
  BY IrqInit DEF AllInit
<1>3. IrqInv /\ [AllNext]_allVars => IrqInv'
  BY <1>1, StepsOfEach, IrqNext
<1>4. QED
  BY <1>2, <1>3, PTL DEF AllSpec

(* virt_uio_irqcontrol, called by any number of processes at once: when no *)
(* call is under way the interrupt is disabled as often as the flag says   *)
(* and once more per lost enable_irq, and an enable_irq is lost only to a  *)
(* disable it overtook.                                                    *)
THEOREM IrqInStepHolds == AllSpec => []IrqInStep
<1>1. IsFiniteSet(IrqWriters)
  BY DataPathsAssumption
<1>2. IrqInv => IrqInStep
  BY <1>1, AccountInStep DEF IrqInStep
<1>3. QED
  BY <1>2, IrqInvariance, PTL

-----------------------------------------------------------------------------
(* The temperature sensor. *)

SensorInv == Sensor!TypeOK /\ Sensor!ReadingWithinResolution

(* A resolution is asked for as an unsigned number, so none is below 9 bits. *)
LEMMA ValidCfg ==
  ASSUME Cfgs \subseteq Nat, NEW cfg \in Sensor!Valid
  PROVE  cfg \in 0 .. 3
BY DEF Sensor!Valid, Sensor!bit_9, Sensor!bit_12

LEMMA MeasuredInt ==
  ASSUME Temperatures \subseteq Int, NEW temp \in Sensor!Measured
  PROVE  temp \in Int
BY DEF Sensor!Measured

(* In sixteenths of a degree, the steps of the four resolutions. *)
StepSizes == {1, 2, 4, 8}

(* The step of a resolution, and the three shifts it stands for. *)
LEMMA Steps ==
  ASSUME NEW cfg \in 0 .. 3
  PROVE  \E step \in StepSizes :
           /\ 2 ^ (12 - Sensor!Resolution(cfg)) = step
           /\ 2 ^ (16 - Sensor!Resolution(cfg)) = 16 * step
           /\ 2 ^ (Sensor!Resolution(cfg) - 8) = 16 \div step
<1> USE DEF Sensor!Resolution, StepSizes
<1>0. CASE cfg = 0
  BY <1>0
<1>1. CASE cfg = 1
  BY <1>1
<1>2. CASE cfg = 2
  BY <1>2
<1>3. CASE cfg = 3
  BY <1>3
<1>4. QED
  BY <1>0, <1>1, <1>2, <1>3

(* The finer resolution has the smaller step. *)
LEMMA CoarserStep ==
  ASSUME NEW cfg \in 0 .. 3, NEW chip \in 0 .. 3, NEW step, NEW chipStep,
         step = 2 ^ (12 - Sensor!Resolution(cfg)), chipStep = 2 ^ (12 - Sensor!Resolution(chip))
  PROVE  2 ^ (12 - Sensor!Resolution(IF cfg < chip THEN cfg ELSE chip))
           = IF step > chipStep THEN step ELSE chipStep
<1> DEFINE size(c) == 2 ^ (12 - Sensor!Resolution(c))
<1>1. size(0) = 8 /\ size(1) = 4 /\ size(2) = 2 /\ size(3) = 1
  BY DEF Sensor!Resolution
<1> HIDE DEF size
<1>2. step = size(cfg) /\ chipStep = size(chip)
  BY DEF size
<1>3. size(IF cfg < chip THEN cfg ELSE chip) = IF step > chipStep THEN step ELSE chipStep
  <2>1. cfg \in {0, 1, 2, 3} /\ chip \in {0, 1, 2, 3}
    OBVIOUS
  <2>2. CASE cfg < chip
    BY <1>1, <1>2, <2>1, <2>2
  <2>3. CASE ~(cfg < chip)
    BY <1>1, <1>2, <2>1, <2>3
  <2>4. QED
    BY <2>2, <2>3
<1>4. QED
  BY <1>3 DEF size

(* Rounded down by the chip to one step and by the driver to another, the     *)
(* temperature loses less than the larger of them: both divide the sixteenths *)
(* in a power of two, so that they do not add up.                             *)
Rounded(temp, chip, step) ==
  (((((temp \div chip) * chip) * 16) \div (16 * step)) * 1000) \div (16 \div step)

LEMMA Rounding ==
  ASSUME NEW temp \in Int, NEW chip \in StepSizes, NEW step \in StepSizes
  PROVE  /\ Rounded(temp, chip, step) \in Int
         /\ Rounded(temp, chip, step) * 16 <= temp * 1000
         /\ temp * 1000 < (Rounded(temp, chip, step) + 1) * 16 + (IF step > chip THEN step ELSE chip) * 1000
<1> DEFINE kept == (temp \div chip) * chip
           count == (kept * 16) \div (16 * step)
           made == (count * 1000) \div (16 \div step)
<1>1. kept \in Int /\ kept = (temp \div chip) * chip
  BY DEF StepSizes
<1>2. count \in Int /\ made \in Int
  BY DEF StepSizes
<1>3. made = (((kept * 16) \div (16 * step)) * 1000) \div (16 \div step)
  OBVIOUS
<1>4. Rounded(temp, chip, step) = made
  BY DEF Rounded
<1> HIDE DEF kept, count, made
<1>5. made * 16 <= temp * 1000 /\ temp * 1000 < (made + 1) * 16 + (IF step > chip THEN step ELSE chip) * 1000
  BY <1>1, <1>2, <1>3 DEF StepSizes
<1>6. QED
  BY <1>2, <1>4, <1>5

LEMMA SensorInit ==
  ASSUME Temperatures \subseteq Int, Cfgs \subseteq Nat
  PROVE  Sensor!Init => SensorInv
<1> SUFFICES ASSUME Sensor!Init PROVE SensorInv
  OBVIOUS
<1>1. Sensor!TypeOK
  BY DEF Sensor!Init, Sensor!TypeOK, Sensor!Valid, Sensor!bit_9, Sensor!bit_12, Sensor!NoCfg,
         Sensor!Measured, Sensor!Reading
<1>2. reading.value = 0 /\ reading.temp = 0 /\ reading.cfg = 0 /\ reading.chip = 0
  BY DEF Sensor!Init, Sensor!bit_9
<1>3. Sensor!ReadingWithinResolution
  BY <1>2 DEF Sensor!ReadingWithinResolution, Sensor!Resolution
<1>4. QED
  BY <1>1, <1>3 DEF SensorInv

(* What tmp75_get_temperature makes of the register. *)
LEMMA ReadingMade ==
  ASSUME Temperatures \subseteq Int, Cfgs \subseteq Nat, SensorInv,
         Sensor!GetTemperature, reading' # reading
  PROVE  reading' \in Sensor!Reading /\ Sensor!ReadingWithinResolution'
<1>1. /\ getter \in Sensor!Valid /\ reg.cfg \in Sensor!Valid
      /\ reg.temp \in Sensor!Measured /\ reg.temp \in Int
  <2>1. getter \in Sensor!Valid \cup {Sensor!NoCfg} /\ getter # Sensor!NoCfg
    BY DEF SensorInv, Sensor!TypeOK, Sensor!GetTemperature
  <2>2. reg \in [temp : Sensor!Measured, cfg : Sensor!Valid]
    BY DEF SensorInv, Sensor!TypeOK
  <2>3. reg.cfg \in Sensor!Valid /\ reg.temp \in Sensor!Measured
    BY <2>2
  <2>4. getter \in Sensor!Valid
    BY <2>1
  <2>5. reg.temp \in Int
    BY <2>3, MeasuredInt
  <2>6. QED
    BY <2>3, <2>4, <2>5
<1>2. getter \in 0 .. 3 /\ reg.cfg \in 0 .. 3
  BY <1>1, ValidCfg
<1> DEFINE made == Sensor!MilliDegrees(Sensor!Register, getter)
<1>3. PICK step \in StepSizes :
        /\ 2 ^ (12 - Sensor!Resolution(getter)) = step
        /\ 2 ^ (16 - Sensor!Resolution(getter)) = 16 * step
        /\ 2 ^ (Sensor!Resolution(getter) - 8) = 16 \div step
  BY <1>2, Steps
<1>4. PICK chip \in StepSizes : 2 ^ (12 - Sensor!Resolution(reg.cfg)) = chip
  BY <1>2, Steps
<1>5. made = Rounded(reg.temp, chip, step)
  BY <1>3, <1>4 DEF Sensor!MilliDegrees, Sensor!Register, Rounded
<1> HIDE DEF made
<1>6. reg.temp \in Int
  BY <1>1
<1>7. /\ made \in Int
      /\ made * 16 <= reg.temp * 1000
      /\ reg.temp * 1000 < (made + 1) * 16 + (IF step > chip THEN step ELSE chip) * 1000
  BY <1>3, <1>4, <1>5, <1>6, Rounding
<1>8. reading' = [value |-> made, temp |-> reg.temp, cfg |-> getter, chip |-> reg.cfg]
  BY DEF Sensor!GetTemperature, made
<1>9. reading' \in Sensor!Reading
  BY <1>1, <1>7, <1>8 DEF Sensor!Reading
<1>10. 2 ^ (12 - Sensor!Resolution(IF getter < reg.cfg THEN getter ELSE reg.cfg))
         = IF step > chip THEN step ELSE chip
  BY <1>2, <1>3, <1>4, CoarserStep
<1>11. Sensor!ReadingWithinResolution'
  BY <1>7, <1>8, <1>10 DEF Sensor!ReadingWithinResolution
<1>12. QED
  BY <1>9, <1>11

LEMMA SensorNext ==
  ASSUME Temperatures \subseteq Int, Cfgs \subseteq Nat, SensorInv, [Sensor!Next]_(Sensor!vars)
  PROVE  SensorInv'
<1>1. CASE reading' = reading
  <2>1. Sensor!ReadingWithinResolution'
    BY <1>1 DEF SensorInv, Sensor!ReadingWithinResolution
  <2>2. Sensor!TypeOK'
    <3> USE <1>1 DEF SensorInv, Sensor!TypeOK
    <3>1. CASE UNCHANGED Sensor!vars
      BY <3>1 DEF Sensor!vars
    <3>2. CASE Sensor!Convert
      BY <3>2 DEF Sensor!Convert, Sensor!Measured
    <3>3. CASE Sensor!LoadCfg \/ Sensor!GetTemperature
      BY <3>3 DEF Sensor!LoadCfg, Sensor!GetTemperature
    <3>4. ASSUME NEW s \in Setters, Sensor!SetResolution(s) PROVE Sensor!TypeOK'
      BY <3>4 DEF Sensor!SetResolution, Sensor!Valid, Sensor!bit_12
    <3>5. ASSUME NEW s \in Setters, Sensor!WriteConf(s) PROVE Sensor!TypeOK'
      BY <3>5 DEF Sensor!WriteConf, Sensor!Valid, Sensor!bit_9, Sensor!bit_12
    <3>6. ASSUME NEW s \in Setters, Sensor!StoreCfg(s) PROVE Sensor!TypeOK'
      BY <3>6 DEF Sensor!StoreCfg, Sensor!Valid, Sensor!bit_9, Sensor!bit_12
    <3>7. QED
      BY <3>1, <3>2, <3>3, <3>4, <3>5, <3>6 DEF Sensor!Next
  <2>3. QED
    BY <2>1, <2>2 DEF SensorInv
<1>2. CASE reading' # reading
  <2>1. Sensor!GetTemperature
    BY <1>2 DEF Sensor!Next, Sensor!vars, Sensor!Convert, Sensor!LoadCfg, Sensor!SetResolution,
                Sensor!WriteConf, Sensor!StoreCfg
  <2>2. reading' \in Sensor!Reading /\ Sensor!ReadingWithinResolution'
    BY <1>2, <2>1, ReadingMade
  <2>3. QED
    BY <2>1, <2>2 DEF SensorInv, Sensor!TypeOK, Sensor!GetTemperature
<1>3. QED
  BY <1>1, <1>2

LEMMA SensorInvariance == AllSpec => []SensorInv
<1>1. Temperatures \subseteq Int /\ Cfgs \subseteq Nat
  BY DataPathsAssumption
<1>2. AllInit => SensorInv
  BY <1>1, SensorInit DEF AllInit
<1>3. SensorInv /\ [AllNext]_allVars => SensorInv'
  BY <1>1, StepsOfEach, SensorNext
<1>4. QED
  BY <1>2, <1>3, PTL DEF AllSpec

(* A temperature that is read (18.hwmon/driver/tmp75.c:40-57) is off by less   *)
(* than a step of the coarser resolution and never too high, whatever the chip *)
(* measures and however the setters of the resolution interleave.              *)
THEOREM ReadingWithinResolutionHolds == AllSpec => []ReadingWithinResolution
<1>1. SensorInv => ReadingWithinResolution
  BY DEF SensorInv, ReadingWithinResolution
<1>2. QED
  BY <1>1, SensorInvariance, PTL

-----------------------------------------------------------------------------
(* The OLED panel. *)

(* Unless the panel may be out of date, at most one copy is on its way, *)
OledOneSender ==
  ~spoilt => \A t, u \in Oled!Tasks : fb_task[t] = "send" /\ fb_task[u] = "send" => t = u

(* and somebody is still to display the memory, or it is on its way, or the *)
(* panel has it.                                                            *)
OledFresh ==
  ~spoilt =>
    \/ mapped
    \/ \E t \in Oled!Tasks : fb_task[t] = "display"
    \/ \E t \in Oled!Tasks : fb_task[t] = "send" /\ copy[t] = vmem
    \/ Oled!Shows(vmem) /\ \A t \in Oled!Tasks : fb_task[t] # "send"

OledInv == Oled!TypeOK /\ OledOneSender /\ OledFresh

-----------------------------------------------------------------------------
LEMMA PaintedTyped ==
  ASSUME Oled!TypeOK, NEW p, NEW count, NEW x \in Pixels
  PROVE  Oled!Painted(p, count, x) \in Oled!Image
BY DEF Oled!Painted, Oled!TypeOK, Oled!Image

(* A task that draws will display what it has drawn. *)
LEMMA DrawKeeps ==
  ASSUME OledInv, NEW t \in Oled!Tasks, fb_task[t] = "idle", vmem' \in Oled!Image, mapped' \in BOOLEAN,
         fb_task' = [fb_task EXCEPT ![t] = "display"], UNCHANGED <<panel, cursor, copy, spoilt>>
  PROVE  OledInv'
<1>1. fb_task'[t] = "display" /\ \A u \in Oled!Tasks : fb_task'[u] = "send" => fb_task[u] = "send"
  BY DEF OledInv, Oled!TypeOK
<1>2. Oled!TypeOK'
  BY DEF OledInv, Oled!TypeOK
<1>3. OledOneSender'
  BY <1>1 DEF OledInv, OledOneSender
<1>4. OledFresh'
  BY <1>1 DEF OledFresh
<1>5. QED
  BY <1>2, <1>3, <1>4 DEF OledInv

(* The address pointer runs through the window and starts again: the bytes  *)
(* of a transfer and the cells they go to determine each other, and after a *)
(* whole picture it stands where it stood.                                  *)
LEMMA CellsAndPlaces ==
  ASSUME Size \in Nat \ {0}, cursor \in Oled!Byte
  PROVE  /\ \A n \in 0 .. Size : Oled!Cell(n) \in Oled!Byte
         /\ \A b \in Oled!Byte : Oled!Cell(b) \in Oled!Byte
         /\ \A cell \in Oled!Byte : Oled!Place(cell) \in Oled!Byte
         /\ \A b \in Oled!Byte : Oled!Place(Oled!Cell(b)) = b
         /\ Oled!Cell(Size) = cursor
BY DEF Oled!Byte, Oled!Cell, Oled!Place

LEMMA OledInit ==
  ASSUME Size \in Nat \ {0}, 0 \in Pixels
  PROVE  Oled!Init => OledInv
<1> SUFFICES ASSUME Oled!Init PROVE OledInv
  OBVIOUS
<1>1. Oled!Blank \in Oled!Image /\ \A b \in Oled!Byte : Oled!Blank[b] = 0
  BY DEF Oled!Blank, Oled!Image
<1>2. PICK n \in 0 .. Size :
        /\ panel \in {image \in Oled!Image : \A b \in 0 .. n - 1 : image[b] = 0}
        /\ cursor = (IF n < Size THEN n ELSE 0)
        /\ spoilt = (n < Size)
  BY DEF Oled!Init
<1>3. cursor \in Oled!Byte
  BY <1>2 DEF Oled!Byte
<1>4. ~spoilt => n = Size
  <2>1. ~spoilt => ~(n < Size)
    BY <1>2, Zenon
  <2>2. QED
    BY <2>1
<1>5. ~spoilt => Oled!Shows(vmem)
  <2> SUFFICES ASSUME ~spoilt, NEW b \in Oled!Byte PROVE panel[Oled!Cell(b)] = vmem[b]
    BY DEF Oled!Shows
  <2>1. n = Size
    BY <1>4
  <2>2. cursor = 0 /\ \A c \in 0 .. n - 1 : panel[c] = 0
    BY <1>2, <2>1
  <2>3. Oled!Cell(b) = b /\ b \in 0 .. n - 1
    BY <2>1, <2>2 DEF Oled!Cell, Oled!Byte
  <2>4. vmem[b] = 0
    BY <1>1 DEF Oled!Init
  <2>5. QED
    BY <2>2, <2>3, <2>4
<1>6. Oled!TypeOK
  <2>1. panel \in Oled!Image
    BY <1>2
  <2>2. spoilt \in BOOLEAN
    BY <1>2
  <2>3. QED
    BY <1>1, <1>3, <2>1, <2>2 DEF Oled!Init, Oled!TypeOK
<1>7. OledOneSender
  BY DEF Oled!Init, OledOneSender
<1>8. OledFresh
  BY <1>5 DEF Oled!Init, OledFresh
<1>9. QED
  BY <1>6, <1>7, <1>8 DEF OledInv

LEMMA OledNext ==
  ASSUME Size \in Nat \ {0}, 0 \in Pixels
  PROVE  OledInv /\ [Oled!Next]_(Oled!vars) => OledInv'
<1> SUFFICES ASSUME OledInv, [Oled!Next]_(Oled!vars) PROVE OledInv'
  OBVIOUS
<1>1. CASE UNCHANGED Oled!vars
  BY <1>1 DEF Oled!vars, OledInv, Oled!TypeOK, OledOneSender, OledFresh, Oled!Shows, Oled!Cell
<1>2. ASSUME NEW w \in Painters, NEW p \in 0 .. Size, NEW count \in 0 .. Size + 1,
             NEW x \in Pixels, Oled!Write(w, p, count, x)
      PROVE  OledInv'
  <2>1. vmem' \in Oled!Image /\ mapped' \in BOOLEAN
    BY <1>2, PaintedTyped DEF Oled!Write, OledInv, Oled!TypeOK
  <2>2. QED
    BY <1>2, <2>1, DrawKeeps DEF Oled!Write, Oled!Tasks
<1>3. ASSUME NEW w \in Painters, NEW p \in 0 .. Size, NEW count \in 0 .. Size + 1,
             NEW x \in Pixels, Oled!WriteFaults(w, p, count, x)
      PROVE  OledInv'
  <2>1. PICK done \in 0 .. Oled!Clamped(p, count) - 1 :
          vmem' = [b \in Oled!Byte |-> IF p + done <= b /\ b < p + Oled!Clamped(p, count)
                                  THEN 0 ELSE Oled!Painted(p, done, x)[b]]
    BY <1>3 DEF Oled!WriteFaults
  <2>2. Oled!Painted(p, done, x) \in [Oled!Byte -> Pixels]
    BY PaintedTyped DEF OledInv, Oled!Image
  <2>3. vmem' \in Oled!Image
    BY <2>1, <2>2 DEF Oled!Image
  <2>4. QED
    BY <1>3, <2>3 DEF Oled!WriteFaults, OledInv, Oled!TypeOK, OledOneSender, OledFresh
<1>4. ASSUME NEW w \in Painters, NEW b \in Oled!Byte, NEW x \in Pixels, Oled!Imageblit(w, b, x)
      PROVE  OledInv'
  <2>1. vmem' \in Oled!Image /\ mapped' \in BOOLEAN
    BY <1>4 DEF Oled!Imageblit, OledInv, Oled!TypeOK, Oled!Image
  <2>2. QED
    BY <1>4, <2>1, DrawKeeps DEF Oled!Imageblit, Oled!Tasks
<1>5. ASSUME NEW t \in Oled!Tasks, Oled!Copy(t) PROVE OledInv'
  <2>1. Oled!TypeOK'
    BY <1>5 DEF Oled!Copy, OledInv, Oled!TypeOK
  <2>2. /\ fb_task'[t] = "send" /\ copy'[t] = vmem'
        /\ \A u \in Oled!Tasks : u # t => fb_task'[u] = fb_task[u]
    BY <1>5 DEF Oled!Copy, OledInv, Oled!TypeOK
  <2>3. ~spoilt' => \A u \in Oled!Tasks : fb_task[u] # "send"
    BY <1>5 DEF Oled!Copy
  <2>4. QED
    BY <2>1, <2>2, <2>3 DEF OledInv, OledOneSender, OledFresh
<1>6. ASSUME NEW t \in Oled!Tasks, Oled!Send(t) PROVE OledInv'
  <2>1. PICK n \in 0 .. Size :
          /\ panel' = Oled!Taken(t, n) /\ cursor' = Oled!Cell(n)
          /\ spoilt' = (spoilt \/ n < Size)
    BY <1>6 DEF Oled!Send
  <2>2. /\ cursor \in Oled!Byte /\ \A b \in Oled!Byte : Oled!Cell(b) \in Oled!Byte
        /\ panel \in [Oled!Byte -> Pixels] /\ copy[t] \in [Oled!Byte -> Pixels]
    BY CellsAndPlaces DEF OledInv, Oled!TypeOK, Oled!Image
  <2>3. Oled!TypeOK'
    <3>1. panel' \in Oled!Image
      BY <2>1, <2>2, CellsAndPlaces DEF Oled!Taken, Oled!Image
    <3>2. cursor' \in Oled!Byte
      BY <2>1, <2>2, CellsAndPlaces
    <3>3. spoilt' \in BOOLEAN
      BY <2>1 DEF OledInv, Oled!TypeOK
    <3>4. Oled!Blank \in Oled!Image
      BY DEF Oled!Blank, Oled!Image
    <3>5. QED
      BY <1>6, <3>1, <3>2, <3>3, <3>4 DEF Oled!Send, OledInv, Oled!TypeOK
  <2>4. /\ fb_task[t] = "send" /\ fb_task'[t] = "idle" /\ vmem' = vmem /\ mapped' = mapped
        /\ \A u \in Oled!Tasks : u # t => fb_task'[u] = fb_task[u] /\ copy'[u] = copy[u]
    BY <1>6 DEF Oled!Send, OledInv, Oled!TypeOK
  <2>5. ~spoilt' => ~spoilt /\ n = Size
    <3>1. ~spoilt' => ~spoilt /\ ~(n < Size)
      BY <2>1, Zenon
    <3>2. QED
      BY <3>1
  <2>6. n = Size /\ copy[t] = vmem => Oled!Shows(vmem)'
    <3> SUFFICES ASSUME n = Size, copy[t] = vmem, NEW b \in Oled!Byte
                 PROVE  panel'[Oled!Cell(b)'] = vmem'[b]
      BY DEF Oled!Shows, Oled!Byte
    <3>1. cursor' = cursor
      BY <2>1, <2>2, CellsAndPlaces
    <3>2. Oled!Cell(b)' = Oled!Cell(b)
      BY <3>1 DEF Oled!Cell
    <3>3. Oled!Place(Oled!Cell(b)) = b /\ b < n
      BY <2>2, CellsAndPlaces DEF Oled!Byte
    <3>4. panel'[Oled!Cell(b)] = copy[t][b]
      BY <2>1, <2>2, <3>3 DEF Oled!Taken
    <3>5. QED
      BY <2>4, <3>2, <3>4
  <2>7. OledOneSender'
    BY <2>4, <2>5 DEF OledInv, OledOneSender
  <2>8. ~spoilt' => \A u \in Oled!Tasks : fb_task'[u] # "send"
    BY <2>4, <2>5 DEF OledInv, OledOneSender
  <2>9. OledFresh'
    BY <2>4, <2>5, <2>6, <2>8 DEF OledInv, OledOneSender, OledFresh
  <2>10. QED
    BY <2>3, <2>7, <2>9 DEF OledInv
<1>7. CASE Oled!MmapFault
  BY <1>7 DEF Oled!MmapFault, OledInv, Oled!TypeOK, OledOneSender, OledFresh, Oled!Shows, Oled!Cell
<1>8. CASE Oled!DeferredIo
  <2>1. Oled!Work \in Oled!Tasks /\ vmem' \in Oled!Image /\ mapped' \in BOOLEAN
    BY <1>8 DEF Oled!DeferredIo, OledInv, Oled!TypeOK, Oled!Tasks
  <2>2. QED
    BY <1>8, <2>1, DrawKeeps DEF Oled!DeferredIo
<1>9. ASSUME NEW b \in Oled!Byte, NEW x \in Pixels, Oled!MmapStore(b, x) PROVE OledInv'
  <2>1. vmem' \in Oled!Image
    BY <1>9 DEF Oled!MmapStore, OledInv, Oled!TypeOK, Oled!Image
  <2>2. QED
    BY <1>9, <2>1 DEF Oled!MmapStore, OledInv, Oled!TypeOK, OledOneSender, OledFresh
<1>10. QED
  BY <1>1, <1>2, <1>3, <1>4, <1>5, <1>6, <1>7, <1>8, <1>9 DEF Oled!Next

LEMMA OledInvariance == AllSpec => []OledInv
<1>1. Size \in Nat \ {0} /\ 0 \in Pixels
  BY DataPathsAssumption
<1>2. AllInit => OledInv
  BY <1>1, OledInit DEF AllInit
<1>3. OledInv /\ [AllNext]_allVars => OledInv'
  BY <1>1, StepsOfEach, OledNext
<1>4. QED
  BY <1>2, <1>3, PTL DEF AllSpec

-----------------------------------------------------------------------------
(* When nobody is drawing or displaying (ssd1306fb.c:32-101), the panel shows  *)
(* the graphics memory, for any number of writers and any size of memory, from *)
(* its address pointer on, which a transfer that was cut short has moved for   *)
(* good.  A copy taken while another was being sent, a transfer cut short, the *)
(* first one of the probe too, and a failed copy_from_user leave it behind,    *)
(* until the next display that nothing overlaps.                               *)
THEOREM PanelShowsMemoryHolds == AllSpec => []PanelShowsMemory
<1>1. OledInv => PanelShowsMemory
  BY DEF OledInv, Oled!TypeOK, OledFresh, PanelShowsMemory, Oled!PanelShowsMemory, Oled!AtRest
<1>2. QED
  BY <1>1, OledInvariance, PTL

-----------------------------------------------------------------------------
(* The serial port.  VirtUartProofs has its steps. *)
LEMMA UartConstantsHold == UartConstants
BY DataPathsAssumption DEF UartConstants

LEMMA UartInvariance == AllSpec => []UartInv
<1>1. AllInit => UartInv
  BY UartConstantsHold, UartInit DEF AllInit
<1>2. UartInv /\ [AllNext]_allVars => UartInv'
  BY UartConstantsHold, StepsOfEach, UartRefines
<1>3. QED
  BY <1>1, <1>2, PTL DEF AllSpec

(* The port (serial-virt.c:28-61) is a first-in first-out line for buffers,    *)
(* bursts and receivers of any size: each of its steps is a step of Loopback   *)
(* or leaves it as it is.                                                      *)
THEOREM ImplementsLoopbackHolds == AllSpec => ImplementsLoopback
<1>1. AllInit => Uart!Line!Init
  BY UartConstantsHold, UartInit DEF AllInit
<1>2. UartInv /\ [AllNext]_allVars => [Uart!Line!Next]_(Uart!Line!vars)
  BY UartConstantsHold, StepsOfEach, UartRefines
<1>3. QED
  BY <1>1, <1>2, UartInvariance, PTL DEF AllSpec, ImplementsLoopback, Uart!ImplementsLoopback, Uart!Line!Spec

-----------------------------------------------------------------------------
(* The thread. *)
LEMMA KthreadTypes == Kthread!TypeOK /\ [Kthread!Next]_(Kthread!vars) => Kthread!TypeOK'
<1> SUFFICES ASSUME Kthread!TypeOK, [Kthread!Next]_(Kthread!vars) PROVE Kthread!TypeOK'
  OBVIOUS
<1> USE DEF Kthread!TypeOK
<1>1. CASE UNCHANGED Kthread!vars
  BY <1>1 DEF Kthread!vars
<1>2. CASE Kthread!ModuleInit \/ Kthread!ModuleExit
  BY <1>2 DEF Kthread!ModuleInit, Kthread!ModuleExit
<1>3. CASE Kthread!Thread
  BY <1>3 DEF Kthread!Thread, Kthread!Test, Kthread!Announce, Kthread!Schedule, Kthread!TimeoutExpires
<1>4. CASE Kthread!Module
  BY <1>4 DEF Kthread!Module, Kthread!WakeUp, Kthread!StopReturned
<1>5. QED
  BY <1>1, <1>2, <1>3, <1>4 DEF Kthread!Next

(* Between rmmod and the thread: the flag is up exactly while rmmod is at work, *)
(* and a sleep always has its timeout, wherever the wake-up of kthread_stop     *)
(* came between the test, the announcement and the sleep.                       *)
KthreadInv ==
  /\ Kthread!TypeOK
  /\ should_stop <=> module \in {"exiting", "waiting", "unloaded"}
  /\ task = "none" <=> module \in {"init", "failed"}
  /\ task = "asleep" => timeout
  /\ task = "gone" => should_stop
  /\ module = "unloaded" => task = "gone"

LEMMA KthreadNext == KthreadInv /\ [Kthread!Next]_(Kthread!vars) => KthreadInv'
<1> SUFFICES ASSUME KthreadInv, [Kthread!Next]_(Kthread!vars) PROVE KthreadInv'
  OBVIOUS
<1>0. Kthread!TypeOK'
  BY KthreadTypes DEF KthreadInv
<1> USE <1>0 DEF KthreadInv, Kthread!TypeOK
<1>1. CASE UNCHANGED Kthread!vars
  BY <1>1 DEF Kthread!vars
<1>2. CASE Kthread!ModuleInit
  BY <1>2 DEF Kthread!ModuleInit
<1>3. CASE Kthread!ModuleExit
  BY <1>3 DEF Kthread!ModuleExit
<1>4. CASE Kthread!Test
  BY <1>4 DEF Kthread!Test
<1>5. CASE Kthread!Announce
  BY <1>5 DEF Kthread!Announce
<1>6. CASE Kthread!Schedule
  BY <1>6 DEF Kthread!Schedule
<1>7. CASE Kthread!TimeoutExpires
  BY <1>7 DEF Kthread!TimeoutExpires
<1>8. CASE Kthread!WakeUp
  BY <1>8 DEF Kthread!WakeUp
<1>9. CASE Kthread!StopReturned
  BY <1>9 DEF Kthread!StopReturned
<1>10. QED
  BY <1>1, <1>2, <1>3, <1>4, <1>5, <1>6, <1>7, <1>8, <1>9
     DEF Kthread!Next, Kthread!Thread, Kthread!Module

LEMMA KthreadInvariance == AllSpec => []KthreadInv
<1>1. AllInit => KthreadInv
  BY DEF AllInit, Kthread!Init, Kthread!TypeOK, KthreadInv
<1>2. KthreadInv /\ [AllNext]_allVars => KthreadInv'
  BY StepsOfEach, KthreadNext
<1>3. QED
  BY <1>1, <1>2, PTL DEF AllSpec

(* The steps that thread and rmmod still make once the thread is told to stop: *)
(* at worst it had just found the flag down, and announces a sleep it does not *)
(* need.                                                                        *)
TaskSteps == [none |-> 0, gone |-> 0, test |-> 1, asleep |-> 2, schedule |-> 3, announce |-> 4]

ExitSteps ==
  [init |-> 0, failed |-> 0, loaded |-> 0, exiting |-> 2, waiting |-> 1, unloaded |-> 0]

StopSteps == TaskSteps[task] + ExitSteps[module]

LEMMA StopStepsValues ==
  /\ TaskSteps["none"] = 0 /\ TaskSteps["gone"] = 0 /\ TaskSteps["test"] = 1
  /\ TaskSteps["asleep"] = 2 /\ TaskSteps["schedule"] = 3 /\ TaskSteps["announce"] = 4
  /\ ExitSteps["init"] = 0 /\ ExitSteps["failed"] = 0 /\ ExitSteps["loaded"] = 0
  /\ ExitSteps["exiting"] = 2 /\ ExitSteps["waiting"] = 1 /\ ExitSteps["unloaded"] = 0
BY DEF TaskSteps, ExitSteps

(* Once kthread_stop has raised the flag every step, whoever's, brings rmmod   *)
(* nearer to its return (kthread.c:15-21, 39): the safety core of ExitReturns,     *)
(* of which only the scheduling is left to fairness.                            *)
THEOREM StopStepsDecrease ==
  AllSpec => [][should_stop => /\ StopSteps \in 0 .. 6 /\ StopSteps' \in 0 .. 6
                               /\ StopSteps' < StopSteps]_kthread
<1> DEFINE A == should_stop => /\ StopSteps \in 0 .. 6 /\ StopSteps' \in 0 .. 6
                               /\ StopSteps' < StopSteps
<1>1. KthreadInv /\ [AllNext]_allVars => [A]_kthread
  <2> SUFFICES ASSUME KthreadInv, [Kthread!Next]_(Kthread!vars), kthread' # kthread, should_stop
               PROVE  /\ StopSteps \in 0 .. 6 /\ StopSteps' \in 0 .. 6
                      /\ StopSteps' < StopSteps
    BY StepsOfEach
  <2>1. Kthread!Next
    BY DEF kthread, Kthread!vars
  <2>2. ~Kthread!ModuleInit /\ ~Kthread!ModuleExit
    BY DEF KthreadInv, Kthread!ModuleInit, Kthread!ModuleExit
  <2> USE StopStepsValues DEF KthreadInv, Kthread!TypeOK, StopSteps
  <2>3. CASE Kthread!Test
    BY <2>3 DEF Kthread!Test
  <2>4. CASE Kthread!Announce
    BY <2>4 DEF Kthread!Announce
  <2>5. CASE Kthread!Schedule
    BY <2>5 DEF Kthread!Schedule
  <2>6. CASE Kthread!TimeoutExpires
    BY <2>6 DEF Kthread!TimeoutExpires
  <2>7. CASE Kthread!WakeUp
    BY <2>7 DEF Kthread!WakeUp
  <2>8. CASE Kthread!StopReturned
    BY <2>8 DEF Kthread!StopReturned
  <2>9. QED
    BY <2>1, <2>2, <2>3, <2>4, <2>5, <2>6, <2>7, <2>8
       DEF Kthread!Next, Kthread!Thread, Kthread!Module
<1>2. QED
  BY <1>1, KthreadInvariance, PTL DEF AllSpec

(* rmmod waits for a thread that can always go on, asleep without the timeout  *)
(* of schedule_timeout never, and the module's code is gone only after         *)
(* kthread_fn has returned (kthread.c:15-21, 39).                               *)
THEOREM RmmodNeverStuck ==
  AllSpec => [](/\ module = "waiting" =>
                     task \in {"test", "announce", "schedule", "gone"} \/ (task = "asleep" /\ timeout)
                /\ module = "unloaded" => task = "gone")
<1>1. KthreadInv => /\ module = "waiting" =>
                          task \in {"test", "announce", "schedule", "gone"} \/ (task = "asleep" /\ timeout)
                    /\ module = "unloaded" => task = "gone"
  BY DEF KthreadInv, Kthread!TypeOK
<1>2. QED
  BY <1>1, KthreadInvariance, PTL

(* No driver's variable leaves its range, the indices and characters of the    *)
(* serial port and the unsigned chars of the light sensor among them, for any  *)
(* sizes; GCharProofs has the invariant of the USB gadget.                     *)
THEOREM AllTypeCorrect == AllSpec => []AllTypeOK
<1> DEFINE Rest == IInv /\ Kthread!TypeOK
<1>1. AllInit => Rest
  <2>1. Kthread!Init => Kthread!TypeOK
    BY DEF Kthread!Init, Kthread!TypeOK
  <2>2. QED
    BY <2>1, GCharAssumption, InitIInv DEF AllInit
<1>2. Rest /\ [AllNext]_allVars => Rest'
  BY GCharAssumption, StepsOfEach, NextIInv, KthreadTypes
<1>3. Rest /\ LightInv /\ UartInv /\ IrqInv /\ SensorInv /\ OledInv => AllTypeOK
  BY DEF IInv, LightInv, UartInv, IrqInv, SensorInv, OledInv, AllTypeOK
<1> HIDE DEF Rest
<1>4. QED
  BY <1>1, <1>2, <1>3, LightInvariance, UartInvariance, IrqInvariance, SensorInvariance, OledInvariance,
     PTL DEF AllSpec
=============================================================================
