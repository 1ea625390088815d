---------------------------- MODULE DriverTables ----------------------------
(***************************************************************************)
(* The drivers of the repository as data for module Lifecycle: what each   *)
(* probe or init acquires in which order, what its error paths and its     *)
(* remove or exit release, and what its entry points use.  Resources are   *)
(* named for what they are: "mem" is the private structure, "module" the   *)
(* code and static data of a module whose init is the probe.               *)
(***************************************************************************)
EXTENDS Naturals, Sequences

Step(gets, arms, kind, fails, undo) ==
  [gets |-> gets, arms |-> arms, kind |-> kind, fails |-> fails, undo |-> undo]

Set(r)           == Step({r}, {}, "fact",    "never",     <<>>)  \* an assignment or a void initialiser
Have(r)          == Step({r}, {}, "owned",   "never",     <<>>)  \* a void registration
Arm(a)           == Step({}, {a}, "fact",    "never",     <<>>)  \* a timer is started
Managed(r)       == Step({r}, {}, "managed", "error",     <<>>)  \* a devm_ call
ManagedBlind(r)  == Step({r}, {}, "managed", "unnoticed", <<>>)  \* its result is not looked at
Image            == Step({"module"}, {}, "managed", "never", <<>>)
Try(r, undo)     == Step({r}, {}, "owned",   "error",     undo)
TryArm(a, undo)  == Step({}, {a}, "fact",    "error",     undo)
Blind(r)         == Step({r}, {}, "owned",   "unnoticed", <<>>)
Check(undo)      == Step({}, {},  "fact",    "error",     undo)  \* a test that acquires nothing

Entry(name, via, uses, arms) == [name |-> name, via |-> via, uses |-> uses, arms |-> arms]

Driver(steps, remove, calls, needs) ==
  [steps |-> steps, remove |-> remove, calls |-> calls, needs |-> needs, pins |-> {}]

-----------------------------------------------------------------------------
(* Modules that are their own probe. *)

TimerModule ==
  Driver(<<Image, Set("timer"), Arm("timer pending")>>,
         <<"timer pending">>,
         {Entry("my_function", "timer pending", {"module", "timer"}, {"timer pending"})},
         {})

HrtimerModule ==
  Driver(<<Image, Set("kt"), Set("hrtimer"), Arm("hrtimer pending")>>,
         <<"hrtimer pending">>,
         {Entry("hrtimer_handler", "hrtimer pending", {"module", "kt", "hrtimer"}, {"hrtimer pending"})},
         {})

(* alloc_chrdev_region, cdev_add, class_create, device_create and their labels. *)
CharDevSteps ==
  <<Try("chrdev", <<>>),
    Try("cdev",   <<"chrdev">>),
    Try("class",  <<"cdev", "chrdev">>),
    Try("device", <<"class", "cdev", "chrdev">>)>>

CharDevRemove == <<"cdev", "chrdev", "device", "class">>
CharDevNeeds  == {<<"cdev", "chrdev">>, <<"device", "class">>}

CharDevModule ==
  Driver(<<Image>> \o CharDevSteps, CharDevRemove,
         {Entry("char_dev_open", "cdev", {"module", "device"}, {})},
         CharDevNeeds)

SeqFileModule ==
  Driver(<<Image>> \o CharDevSteps, CharDevRemove,
         {Entry("seqfile_test_open", "cdev", {"module"}, {})},
         CharDevNeeds)

DtsModule ==
  Driver(<<Image, Try("node", <<>>)>> \o [i \in 1..4 |-> Check(<<>>)], <<>>, {}, {})

SysfsModule ==
  Driver(<<Image, Set("attributes"),
           Step({"kobject", "directory"}, {}, "owned", "success", <<>>),
           Try("file0",  <<"directory">>),
           Try("group",  <<"file0", "directory">>),
           Try("groups", <<"group", "file0", "directory">>)>>,
         <<"groups", "group", "file0", "directory", "kobject">>,
         {Entry("sysfs_file0_show", "file0",  {"module", "attributes"}, {}),
          Entry("sysfs_file1_show", "groups", {"module"}, {})},
         {<<"file0", "directory">>, <<"group", "directory">>, <<"groups", "directory">>,
          <<"directory", "kobject">>})

SerialModule ==
  Driver(<<Image, Try("uart driver", <<>>), Try("platform driver", <<"uart driver">>)>>,
         <<"platform driver", "uart driver">>,
         {Entry("virt_uart_probe", "platform driver", {"module", "uart driver"}, {})},
         {<<"platform driver", "uart driver">>})

KthreadModule ==
  Driver(<<Image, Set("private"), Try("task", <<>>)>>,
         <<"task">>,
         {Entry("kthread_fn", "task", {"module", "private"}, {})},
         {})

(* Two watchdogs.  The two timers of a watchdog count as one activity: a   *)
(* ping starts them and takes the reference that keeps the module.         *)
WatchdogModule ==
  [Driver(<<Image, Try("mem", <<>>), Set("timers 0"), Try("watchdog 0", <<"mem">>),
            Set("timers 1"), Try("watchdog 1", <<"watchdog 0", "mem">>)>>,
          <<"watchdog 0", "watchdog 1", "mem">>,
          {Entry("softdog_ping", "watchdog 0", {"module", "mem", "timers 0"}, {"pending 0"}),
           Entry("softdog_ping", "watchdog 1", {"module", "mem", "timers 1"}, {"pending 1"}),
           Entry("softdog_fire", "pending 0", {"module", "mem"}, {}),
           Entry("softdog_fire", "pending 1", {"module", "mem"}, {})},
          {<<"watchdog 0", "mem">>, <<"watchdog 1", "mem">>})
     EXCEPT !.pins = {"pending 0", "pending 1"}]

(* One round.  The init waits for the threads' completions, but a thread   *)
(* has yet to return when it has completed.                                *)
ConcurrencyModule ==
  Driver(<<Image, Set("locks"), TryArm("thread 0", <<>>), TryArm("thread 1", <<>>)>>,
         <<>>,
         {Entry("thread_func", t, {"module", "locks"}, {}) : t \in {"thread 0", "thread 1"}},
         {})

NetdevChainModule ==
  Driver(<<Image, Try("notifier", <<>>)>>,
         <<"notifier">>,
         {Entry("netdevice_notifier", "notifier", {"module"}, {})},
         {})

NotifierModule ==
  Driver(<<Image, Try("block1", <<>>), Try("block2", <<>>), Try("block3", <<>>)>>,
         <<"block1", "block2", "block3">>,
         {Entry("notifier_call", b, {"module"}, {}) : b \in {"block1", "block2", "block3"}},
         {})

ProcModule ==
  Driver(<<Image, Set("timer"), Arm("timer pending"), Try("directory", <<>>), Try("file", <<>>)>>,
         <<"timer pending", "file", "directory">>,
         {Entry("timer_handler",  "timer pending", {"module", "timer"}, {"timer pending"}),
          Entry("proc_test_open", "file", {"module"}, {})},
         {<<"file", "directory">>})

VnetLeaky ==
  Driver(<<Image, Try("netdev", <<>>), Try("registration", <<>>)>>,
         <<"registration", "netdev">>,
         {Entry("vnet_start_xmit", "registration", {"module", "netdev"}, {})},
         {<<"registration", "netdev">>})

VnetModule ==
  Driver(<<Image, Try("netdev", <<>>), Try("registration", <<"netdev">>)>>,
         <<"registration", "netdev">>,
         {Entry("vnet_start_xmit", "registration", {"module", "netdev"}, {})},
         {<<"registration", "netdev">>})

(* Init functions that register a platform device and driver and look at neither result. *)
DeviceAndDriver ==
  Driver(<<Image, Blind("platform device"), Blind("platform driver")>>,
         <<"platform driver", "platform device">>, {}, {})

MfdCoreModule     == DeviceAndDriver
MtdModule         == DeviceAndDriver
ClkConsumerModule == DeviceAndDriver
GateClkModule     == DeviceAndDriver
PrintModule       == DeviceAndDriver

FixedRateClkModule ==
  Driver(<<Image, Try("clk", <<>>)>>, <<"clk">>, {}, {})

-----------------------------------------------------------------------------
(* The button drivers: the interrupt arms the debounce timer. *)

ButtonSteps == <<Managed("mem"), Managed("gpio"), Managed("irq")>>

ButtonNeeds == {<<"irq", "gpio">>}

ButtonIrq == Entry("gpio_interrupt_handler", "irq", {"mem", "timer"}, {"timer pending"})

ButtonTimer == Entry("debounce_timer_handler", "timer pending", {"mem", "gpio", "wq"}, {})

ButtonCharDev ==
  Driver(ButtonSteps \o <<Set("timer"), Set("wq"), Set("mutex")>> \o CharDevSteps
           \o <<Set("drvdata")>>,
         CharDevRemove,
         {ButtonIrq, ButtonTimer, Entry("char_dev_read", "cdev", {"mem", "wq", "mutex"}, {})},
         ButtonNeeds \cup CharDevNeeds)

BlockIo    == ButtonCharDev
NonblockIo == ButtonCharDev
FasyncIo   == ButtonCharDev

FasyncIoMisc ==
  Driver(ButtonSteps \o <<Set("timer"), Set("wq"), Set("mutex"), Try("misc", <<>>),
           Set("misc drvdata"), Set("drvdata")>>,
         <<"misc">>,
         {ButtonIrq, ButtonTimer,
          Entry("char_dev_open", "misc", {"mem", "misc drvdata", "wq", "mutex"}, {})},
         ButtonNeeds)

InputDevice ==
  Driver(ButtonSteps \o <<Set("timer"), Managed("inputdev"), Set("code"),
           Try("input registration", <<>>), Set("drvdata")>>,
         <<"input registration">>,
         {ButtonIrq,
          Entry("debounce_timer_handler", "timer pending", {"mem", "gpio", "inputdev", "code"}, {})},
         ButtonNeeds \cup {<<"input registration", "inputdev">>})

(* gpio_interrupt with a bottom half, "tasklet" or "work". *)
GpioInterrupt(bottom, handler) ==
  Driver(<<Managed("mem"), Managed("gpio"), Set("type"), Managed("irq"), Set(bottom),
           Set("drvdata")>>,
         <<>>,
         {Entry("gpio_interrupt_handler", "irq", {"mem", "type", bottom}, {"pending"}),
          Entry(handler, "pending", {"mem", bottom}, {})},
         {<<"irq", "gpio">>})

(* Without a bottom half of its own making: type none, and a thread of the interrupt. *)
GpioInterruptIrq(more) ==
  Driver(<<Managed("mem"), Managed("gpio"), Set("type"), Managed("irq"), Set("drvdata")>>,
         <<>>,
         {Entry("gpio_interrupt_handler", "irq", {"mem", "type"}, {})} \cup more,
         {<<"irq", "gpio">>})

GpioInterruptThread ==
  GpioInterruptIrq({Entry("threaded_irq_handler", "irq", {"mem", "type"}, {})})

-----------------------------------------------------------------------------
(* Drivers of i2c, platform and USB devices. *)

PlatformTest == Driver([i \in 1..4 |-> Check(<<>>)], <<>>, {}, {})

PwmChip ==
  Driver(<<Managed("mem"), Set("ops"), Set("drvdata"), Try("pwmchip", <<>>)>>,
         <<"pwmchip">>,
         {Entry("pwmchip_config", "pwmchip", {"mem", "ops"}, {})},
         {})

PwmDevice ==
  Driver(<<Try("pwm", <<>>), Set("drvdata"), Blind("enabled")>>,
         <<"enabled", "pwm">>, {}, {<<"enabled", "pwm">>})

Backlight ==
  Driver(<<Managed("mem"), Try("backlight", <<>>), Set("props"), Set("client"), Set("clientdata")>>,
         <<"backlight">>,
         {Entry("oled_update_bl", "backlight", {"mem", "client"}, {}),
          Entry("oled_get_brightness", "backlight", {"mem"}, {})},
         {})

GpioConsumer ==
  Driver(<<Managed("mem"), Managed("gpio"), Set("drvdata")>>, <<>>, {}, {})

VirtGpiochip ==
  Driver(<<Managed("mem"), Set("ops"), Try("gpiochip", <<>>), Set("drvdata")>>,
         <<"gpiochip">>,
         {Entry("virt_gpiochip_get_value", "gpiochip", {"mem", "ops"}, {})},
         {})

PinctrlGpiochip == VirtGpiochip

Tmp75Misc ==
  Driver(<<Managed("mem"), Try("misc", <<>>), Set("resolution"), Set("client"),
           Set("misc drvdata"), Set("clientdata")>>,
         <<"misc">>,
         {Entry("tmp75_open",  "misc", {"mem", "misc drvdata"}, {}),
          Entry("tmp75_ioctl", "misc", {"mem", "misc drvdata", "client", "resolution"}, {})},
         {})

Tmp75Regmap ==
  Driver(<<Managed("mem"), Managed("regmap"), Try("misc", <<>>), Set("resolution"), Set("client"),
           Set("misc drvdata"), Set("clientdata")>>,
         <<"misc">>,
         {Entry("tmp75_open",  "misc", {"mem", "misc drvdata"}, {}),
          Entry("tmp75_ioctl", "misc", {"mem", "misc drvdata", "regmap", "resolution"}, {})},
         {<<"misc", "regmap">>})

Tmp75HwmonFirst ==
  Driver(<<Managed("mem"), Managed("hwmon"), Managed("regmap"), Set("resolution"), Set("client"),
           Set("clientdata")>>,
         <<>>,
         {Entry("tmp75_read", "hwmon", {"mem", "regmap", "resolution"}, {})},
         {<<"hwmon", "regmap">>})

Tmp75Hwmon ==
  Driver(<<Managed("mem"), Managed("regmap"), Set("resolution"), Set("client"), Set("clientdata"),
           Managed("hwmon")>>,
         <<>>,
         {Entry("tmp75_read", "hwmon", {"mem", "regmap", "resolution"}, {})},
         {<<"hwmon", "regmap">>})

RtcDs1340 ==
  Driver(<<Managed("mem"), Set("client"), Set("clientdata"), Managed("regmap"), Managed("rtc")>>,
         <<>>,
         {Entry("ds1340_get_time", "rtc", {"mem", "regmap", "clientdata"}, {}),
          Entry("ds1340_set_time", "rtc", {"mem", "regmap", "clientdata"}, {})},
         {<<"rtc", "regmap">>})

FakeIio ==
  Driver(<<Managed("mem"), Set("lock"), Set("clientdata"), Managed("buffer"), Managed("iio"),
           Set("timer"), Set("freq"), Arm("timer pending")>>,
         <<"timer pending">>,
         {Entry("fake_iiodev_read_raw",  "iio", {"mem", "lock"}, {}),
          Entry("fake_iiodev_write_raw", "iio", {"mem", "lock", "timer"}, {"timer pending"}),
          Entry("lux_auto_change", "timer pending",
                {"mem", "lock", "buffer", "timer", "freq"}, {"timer pending"})},
         {<<"iio", "buffer">>})

FakeMouseWrongLabel ==
  Driver(<<Try("mem", <<>>), Set("intfdata"), Try("buffer", <<"mem">>),
           Try("urb", <<"urb", "buffer", "mem">>), Set("urb filled"),
           TryArm("urb submitted", <<"urb", "buffer", "mem">>)>>,
         <<"urb submitted", "urb", "buffer", "mem">>,
         {}, {})

FakeMouse ==
  Driver(<<Try("mem", <<>>), Set("intfdata"), Try("buffer", <<"mem">>),
           Try("urb", <<"buffer", "mem">>), Set("urb filled"),
           TryArm("urb submitted", <<"urb", "buffer", "mem">>)>>,
         <<"urb submitted", "urb", "buffer", "mem">>,
         {Entry("fake_mouse_callback", "urb submitted", {"mem", "buffer", "urb", "urb filled"}, again) :
            again \in {{}, {"urb submitted"}}},
         {<<"urb", "mem">>, <<"buffer", "mem">>})

(* g_char_bind_config; the composite core unbinds the functions of a configuration *)
(* whose bind failed, and of one that goes away (external).                        *)
GChar ==
  Driver(<<Try("mem", <<>>), Set("ops"), Try("function", <<"mem">>),
           Try("misc", <<"mem", "function", "misc", "mem">>),
           Set("misc drvdata"), Set("wqs")>>,
         <<"function", "misc", "mem">>,
         {Entry("g_char_open", "misc", {"mem", "misc drvdata"}, {}),
          Entry("g_char_read", "misc", {"mem", "wqs"}, {}),
          Entry("g_char_write", "misc", {"mem", "wqs"}, {})},
         {<<"function", "mem">>})

VirtUart ==
  Driver(<<Managed("mem"), Check(<<>>), Set("ops"), Try("port", <<>>), Set("drvdata")>>,
         <<"port">>,
         {Entry("virt_uart_start_tx", "port", {"mem", "ops"}, {})},
         {})

VirtDisk ==
  Driver(<<Managed("mem"), Set("drvdata"), Managed("buffer"), Try("major", <<>>),
           Try("disk", <<"major", "disk">>), Try("queue", <<"disk">>), Set("disk fields"),
           Have("gendisk")>>,
         <<"gendisk", "queue", "disk", "major">>,
         {Entry("virt_disk_request", "gendisk", {"mem", "buffer", "queue", "disk fields"}, {})},
         {<<"gendisk", "queue">>, <<"gendisk", "disk">>, <<"disk", "major">>})

VirtMiiBusSwapped ==
  Driver(<<Managed("mem"), Managed("bus"), Try("bus registration", <<>>),
           Try("netdev", <<"bus registration">>),
           Try("phy", <<"netdev", "bus registration">>), Set("drvdata")>>,
         <<"netdev", "phy", "bus registration">>,
         {Entry("virt_adjust_link", "phy", {"netdev"}, {})},
         {<<"phy", "netdev">>, <<"phy", "bus registration">>, <<"bus registration", "bus">>})

VirtMiiBusUnchecked ==
  Driver(<<Managed("mem"), Managed("bus"), Blind("bus registration"),
           Try("netdev", <<"bus registration">>),
           Try("phy", <<"netdev", "bus registration">>), Set("drvdata")>>,
         <<"phy", "netdev", "bus registration">>,
         {Entry("virt_adjust_link", "phy", {"netdev"}, {})}, {})

VirtMiiBus ==
  Driver(<<Managed("mem"), Managed("bus"), Try("bus registration", <<>>),
           Try("netdev", <<"bus registration">>),
           Try("phy", <<"netdev", "bus registration">>), Set("drvdata")>>,
         <<"phy", "netdev", "bus registration">>,
         {Entry("virt_adjust_link", "phy", {"netdev"}, {})},
         {<<"phy", "netdev">>, <<"phy", "bus registration">>, <<"bus registration", "bus">>})

(* The remove gives __free_pages the address of the memory where a struct  *)
(* page is due (line 344): what it releases is no page of the driver.      *)
Ssd1306fb ==
  Driver(<<Try("info", <<>>), Set("clientdata"), Try("pages", <<"info">>), Set("screen"),
           Have("defio"), Check(<<"defio", "info">>), Try("framebuffer", <<"defio", "info">>)>>,
         <<"framebuffer", "redraw pending", "defio", "page at __va", "info">>,
         {Entry("ssd1306fb_write", "framebuffer", {"info", "pages", "screen", "clientdata"}, {}),
          Entry("fb_deferred_io_mkwrite", "framebuffer", {"info", "defio"}, {"redraw pending"}),
          Entry("ssd1306fb_deferred_io", "redraw pending", {"info", "pages", "screen", "defio"}, {})},
         {<<"framebuffer", "defio">>, <<"framebuffer", "pages">>, <<"defio", "info">>})

VirtUio ==
  Driver(<<Managed("mem"), Managed("uio_info"), Managed("gpio"), ManagedBlind("uio_mem"),
           Set("flag"), Set("drvdata"), Try("uio", <<>>)>>,
         <<"uio">>,
         {Entry("virt_uio_irqcontrol", "uio", {"mem", "uio_info", "flag"}, {}),
          Entry("virt_uio_handler", "uio", {"uio_info"}, {})},
         {<<"uio", "uio_info">>, <<"uio", "gpio">>})

VirtMfdCore ==
  Driver(<<Set("drvdata"), Managed("cells")>>, <<>>,
         {Entry("virt_mfd_subdev1_probe", "cells", {"drvdata"}, {}),
          Entry("virt_mfd_subdev2_probe", "cells", {"drvdata"}, {})},
         {})

VirtMtd ==
  Driver(<<Managed("mem"), Set("fields"), Set("erased"), Set("drvdata"), Try("mtd", <<>>)>>,
         <<"mtd">>,
         {Entry("virt_mtd_erase", "mtd", {"mem", "fields", "erased"}, {}),
          Entry("virt_mtd_read",  "mtd", {"mem", "fields", "erased"}, {}),
          Entry("virt_mtd_write", "mtd", {"mem", "fields", "erased"}, {})},
         {})

ClkConsumer ==
  Driver(<<Try("clk", <<>>), Blind("enabled"), Set("drvdata")>>,
         <<"enabled", "clk">>, {}, {<<"enabled", "clk">>})

GateClk ==
  Driver(<<Managed("mem"), Set("init"), Try("clk", <<>>), Blind("clkdev"), Set("drvdata")>>,
         <<"clk">>,
         {Entry("virt_gate_clk_enable", "clk", {"mem", "init"}, {})},
         {<<"clkdev", "clk">>})

PinctrlConsumer == Driver(<<Check(<<>>), Managed("gpio")>>, <<>>, {}, {})

VirtPinctrl ==
  Driver(<<Managed("mem"), Set("groups"), Set("functions"), Try("pctldev", <<>>), Set("drvdata")>>,
         <<"pctldev">>,
         {Entry("virt_pinctrl_get_group_name", "pctldev", {"mem", "groups"}, {}),
          Entry("virt_pinmux_get_function_name", "pctldev", {"mem", "functions"}, {})},
         {})
=============================================================================
