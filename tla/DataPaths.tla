----------------------------- MODULE DataPaths ------------------------------
(***************************************************************************)
(* Seven drivers that have nothing to do with each other, in one model:    *)
(* device says whose behaviour this is, and the others never leave their   *)
(* initial states (of a panel that is not run, one of them is enough).     *)
(* The properties are those of the drivers' own modules: the USB gadget's  *)
(* under their own names, the others' under the names that are given to    *)
(* them below.                                                             *)
(***************************************************************************)
EXTENDS GChar, FiniteSets

CONSTANTS
  Levels, Periods, Values,                 \* FakeIio
  XmitSize, FifoSize, FlipRoom, LastChar,  \* VirtUart
  IrqWriters, MaxDepth,                    \* Uio
  Temperatures, Cfgs, Setters, Regmap,     \* Tmp75
  Size, Pixels, Painters                   \* Framebuffer

ASSUME DataPathsAssumption ==
  /\ Levels \in Nat \ {0} /\ Periods \subseteq Int /\ Values \subseteq Int
  /\ XmitSize \in Nat \ {0} /\ FifoSize \in Nat /\ FlipRoom \in Nat /\ LastChar \in Nat
  /\ IsFiniteSet(IrqWriters) /\ MaxDepth \in Nat
  /\ Temperatures \subseteq Int /\ Cfgs \subseteq Nat /\ Regmap \in BOOLEAN
  /\ Size \in Nat \ {0} /\ 0 \in Pixels

VARIABLES
  device,
  current_lux, event, high_thresh, low_thresh, freq, lock, armed, timer, trigger, data, events,
  uart_buf, head, tail, stopped, x_char, flip, written,
  flag, depth, owes, unbalanced,
  conf, reg, resolution_cfg, setter, getter, reading,
  module, task, task_state, should_stop, timeout,
  vmem, panel, cursor, fb_task, copy, mapped, spoilt

Light   == INSTANCE FakeIio
Uart    == INSTANCE VirtUart WITH buf <- uart_buf
Irq     == INSTANCE Uio WITH Writers <- IrqWriters
Sensor  == INSTANCE Tmp75
Kthread == INSTANCE KThread
Oled    == INSTANCE Framebuffer WITH Writers <- Painters, task <- fb_task

gadget  == vars
light   == <<current_lux, event, high_thresh, low_thresh, freq, lock, armed, timer, trigger, data, events>>
uart    == <<uart_buf, head, tail, stopped, x_char, flip, written>>
irq     == <<flag, depth, owes, unbalanced>>
sensor  == <<conf, reg, resolution_cfg, setter, getter, reading>>
kthread == <<module, task, task_state, should_stop, timeout>>
oled    == <<vmem, panel, cursor, fb_task, copy, mapped, spoilt>>

allVars == <<device, gadget, light, uart, irq, sensor, kthread, oled>>

AllInit ==
  /\ device \in {"g_char", "fake_iiodev", "virt_uart", "virt_uio", "tmp75", "kthread", "ssd1306fb"}
  /\ Init /\ Light!Init /\ Uart!Init /\ Irq!Init /\ Sensor!Init /\ Kthread!Init /\ Oled!Init
  /\ device # "ssd1306fb" => ~spoilt

GadgetStep ==
  /\ device = "g_char" /\ Next
  /\ UNCHANGED <<device, light, uart, irq, sensor, kthread, oled>>

LightStep ==
  /\ device = "fake_iiodev" /\ Light!Next
  /\ UNCHANGED <<device, gadget, uart, irq, sensor, kthread, oled>>

UartStep ==
  /\ device = "virt_uart" /\ Uart!Next
  /\ UNCHANGED <<device, gadget, light, irq, sensor, kthread, oled>>

IrqStep ==
  /\ device = "virt_uio" /\ Irq!Next
  /\ UNCHANGED <<device, gadget, light, uart, sensor, kthread, oled>>

SensorStep ==
  /\ device = "tmp75" /\ Sensor!Next
  /\ UNCHANGED <<device, gadget, light, uart, irq, kthread, oled>>

OledStep ==
  /\ device = "ssd1306fb" /\ Oled!Next
  /\ UNCHANGED <<device, gadget, light, uart, irq, sensor, kthread>>

(* An action of the kthread module, with everything else as it is. *)
AloneKthread(A) ==
  /\ device = "kthread" /\ A
  /\ UNCHANGED <<device, gadget, light, uart, irq, sensor, oled>>

KthreadStep == AloneKthread(Kthread!Next)

AllNext ==
  GadgetStep \/ LightStep \/ UartStep \/ IrqStep \/ SensorStep \/ KthreadStep \/ OledStep

(* Only the kthread module's property needs fairness: that of KThread. *)
AllSpec ==
  /\ AllInit /\ [][AllNext]_allVars
  /\ WF_allVars(AloneKthread(Kthread!Thread)) /\ WF_allVars(AloneKthread(Kthread!Module))
-----------------------------------------------------------------------------
(* Every variable of every driver keeps its range. *)
AllTypeOK ==
  /\ TypeOK /\ Light!TypeOK /\ Uart!TypeOK /\ Irq!TypeOK
  /\ Sensor!TypeOK /\ Kthread!TypeOK /\ Oled!TypeOK

(* The light sensor: samples are not torn, and no threshold is passed on   *)
(* the way up without an event.                                            *)
PushedSampleConsistent == Light!PushedSampleConsistent
NoSilentRise           == Light!NoSilentRise

(* The serial port implements a first-in first-out loopback line. *)
ImplementsLoopback == Uart!ImplementsLoopback

(* The UIO device: flag and disable depth agree at rest. *)
IrqInStep == Irq!IrqInStep

(* The temperature sensor: the error of a reading is that of the coarser   *)
(* of the two resolutions.                                                 *)
ReadingWithinResolution == Sensor!ReadingWithinResolution

(* The thread: kthread_stop returns whenever it is called. *)
ExitReturns == Kthread!ExitReturns

(* The OLED panel shows the memory at rest, from its address pointer on. *)
PanelShowsMemory == Oled!PanelShowsMemory
=============================================================================
