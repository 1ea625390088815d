------------------------------- MODULE Tmp75 -------------------------------
(***************************************************************************)
(* The three drivers of the TMP75 sensor: 15.I2C (ioctl), 16.regmap        *)
(* (ioctl) and 18.hwmon (sysfs).  The resolution lives twice, in the       *)
(* chip's configuration and in priv->resolution_cfg; callers change them   *)
(* one after the other and without a lock, while others read.              *)
(***************************************************************************)
EXTENDS Integers

CONSTANTS
  Temperatures,  \* what the chip may measure, in sixteenths of a degree
  Cfgs,          \* the resolutions asked for; those above bit_12 are refused
  Setters,       \* callers that set the resolution
  Regmap         \* whether the driver reaches the chip through regmap

bit_9  == 0
bit_12 == 3

Resolution(cfg) == 9 + cfg

VARIABLES
  conf,            \* the resolution in the chip's configuration register
  reg,             \* its temperature register: what was measured, at which resolution
  resolution_cfg,  \* priv->resolution_cfg
  setter,          \* each setter's next step and the resolution it was asked for
  getter,          \* the resolution a reader loaded, or none
  reading          \* what it returned last, with what it was made from

vars == <<conf, reg, resolution_cfg, setter, getter, reading>>

Valid == {cfg \in Cfgs : cfg <= bit_12} \cup {bit_9}
NoCfg == bit_12 + 1

(* The register holds the temperature in its upper bits, rounded down to   *)
(* the resolution the chip had; one sixteenth of a degree is 16 there.     *)
Register == (reg.temp \div 2 ^ (12 - Resolution(reg.cfg))) * 2 ^ (12 - Resolution(reg.cfg)) * 16

(* Mutation: the second shift is one bit short. *)
MilliDegreesShort(raw, cfg) ==
  ((raw \div 2 ^ (16 - Resolution(cfg))) * 1000) \div 2 ^ (Resolution(cfg) - 9)

(* tmp75_get_temperature: the shifts of the signed value round down. *)
MilliDegrees(raw, cfg) ==
  ((raw \div 2 ^ (16 - Resolution(cfg))) * 1000) \div 2 ^ (Resolution(cfg) - 8)

Measured == Temperatures \cup {0}

Reading == [value : Int, temp : Measured, cfg : Valid, chip : Valid]

TypeOK ==
  /\ conf           \in Valid
  /\ reg            \in [temp : Measured, cfg : Valid]
  /\ resolution_cfg \in Valid
  /\ setter         \in [Setters -> [at : {"idle", "write", "store"}, cfg : Valid]]
  /\ getter         \in Valid \cup {NoCfg}
  /\ reading        \in Reading

(* The chip powers up with 9 bits and nothing measured; the probe assumes  *)
(* the 9 bits.                                                             *)
Init ==
  /\ conf           = bit_9
  /\ reg            = [temp |-> 0, cfg |-> bit_9]
  /\ resolution_cfg = bit_9
  /\ setter         = [s \in Setters |-> [at |-> "idle", cfg |-> bit_9]]
  /\ getter         = NoCfg
  /\ reading        = [value |-> 0, temp |-> 0, cfg |-> bit_9, chip |-> bit_9]

(* The chip measures again, at the resolution it is configured for. *)
Convert ==
  /\ \E temp \in Temperatures : reg' = [temp |-> temp, cfg |-> conf]
  /\ UNCHANGED <<conf, resolution_cfg, setter, getter, reading>>

(* TMP75_SET_RESOLUTION, or a write to the attribute: the range test.  The *)
(* attribute's sscanf may leave cfg as it was on the stack: any value.     *)
SetResolution(s) ==
  /\ setter[s].at = "idle"
  /\ \E cfg \in Cfgs :
       setter' = [setter EXCEPT ![s] = IF cfg > bit_12 THEN @ ELSE [at |-> "write", cfg |-> cfg]]
  /\ UNCHANGED <<conf, reg, resolution_cfg, getter, reading>>

(* tmp75_set_resolution.  An error from the bus ends the call.  The driver *)
(* with its own i2c message sends the configuration byte.  Regmap is set   *)
(* up for 16-bit values and sends a zero byte before it, so that the chip  *)
(* may end up with either; and it sends nothing if its cache already holds *)
(* the value, be it from a write that failed.                              *)
WriteConf(s) ==
  /\ setter[s].at = "write"
  /\ \/ /\ conf' \in IF Regmap THEN {conf, bit_9, setter[s].cfg} ELSE {setter[s].cfg}
        /\ setter' = [setter EXCEPT ![s].at = "store"]
     \/ /\ UNCHANGED conf
        /\ setter' = [setter EXCEPT ![s] = [at |-> "idle", cfg |-> bit_9]]
  /\ UNCHANGED <<reg, resolution_cfg, getter, reading>>

StoreCfg(s) ==
  /\ setter[s].at = "store"
  /\ resolution_cfg' = setter[s].cfg
  /\ setter' = [setter EXCEPT ![s] = [at |-> "idle", cfg |-> bit_9]]
  /\ UNCHANGED <<conf, reg, getter, reading>>

(* TMP75_GET_TEMPERATURE, or a read of temp1_input: the resolution is      *)
(* loaded before the bus transfer and used after it.                       *)
LoadCfg ==
  /\ getter = NoCfg
  /\ getter' = resolution_cfg
  /\ UNCHANGED <<conf, reg, resolution_cfg, setter, reading>>

GetTemperature ==
  /\ getter # NoCfg
  /\ getter' = NoCfg
  /\ \/ reading' = [value |-> MilliDegrees(Register, getter), temp |-> reg.temp,
                    cfg |-> getter, chip |-> reg.cfg]
     \/ UNCHANGED reading                      \* the bus fails
  /\ UNCHANGED <<conf, reg, resolution_cfg, setter>>

Next ==
  \/ Convert \/ LoadCfg \/ GetTemperature
  \/ \E s \in Setters : SetResolution(s) \/ WriteConf(s) \/ StoreCfg(s)

Spec == Init /\ [][Next]_vars
-----------------------------------------------------------------------------
(* A reading is never above the temperature, below or above zero, and less *)
(* than one step of the coarser of the two resolutions below it (and one   *)
(* thousandth for the rounding), even when the chip and priv disagree      *)
(* because a set is under way, raced with another, failed or was mangled.  *)
ReadingWithinResolution ==
  LET coarse == IF reading.cfg < reading.chip THEN reading.cfg ELSE reading.chip
      step   == 2 ^ (12 - Resolution(coarse))
  IN  /\ reading.value * 16 <= reading.temp * 1000
      /\ reading.temp * 1000 < (reading.value + 1) * 16 + step * 1000
=============================================================================
