---------------------------- MODULE MCLifecycle ----------------------------
(* Lifecycle with the drivers of the repository, and the defects they have. *)
EXTENDS LifecycleRules, DriverTables, TLC

AllDrivers ==
  "timer" :> TimerModule @@ "hrtimer" :> HrtimerModule @@ "c-drv" :> CharDevModule @@
  "seq_file" :> SeqFileModule @@ "dts" :> DtsModule @@ "sysfs_drv" :> SysfsModule @@
  "serial-virt init" :> SerialModule @@ "kthread" :> KthreadModule @@
  "soft_wdt" :> WatchdogModule @@ "concurrency_control" :> ConcurrencyModule @@
  "netdev_chain" :> NetdevChainModule @@ "notifier_register" :> NotifierModule @@
  "proc" :> ProcModule @@ "vnet" :> VnetModule @@ "virt_mfd_core init" :> MfdCoreModule @@
  "virt_mtd init" :> MtdModule @@ "virt-clk-consumer init" :> ClkConsumerModule @@
  "virt-gate-clk init" :> GateClkModule @@ "print" :> PrintModule @@
  "virt-fixed-rate-clk" :> FixedRateClkModule @@ "block_io" :> BlockIo @@
  "nonblock_io" :> NonblockIo @@ "fasync_io" :> FasyncIo @@ "fasync_io_misc" :> FasyncIoMisc @@
  "input-drv" :> InputDevice @@ "gpio_interrupt tasklet" :> GpioInterrupt("tasklet", "tasklet_handler") @@
  "gpio_interrupt work" :> GpioInterrupt("work", "workqueue_handler") @@
  "gpio_interrupt none" :> GpioInterruptIrq({}) @@ "gpio_interrupt thread" :> GpioInterruptThread @@
  "p-drv" :> PlatformTest @@ "pwm_chip" :> PwmChip @@ "pwm_device" :> PwmDevice @@
  "backlight-drv" :> Backlight @@ "gpio_consumer" :> GpioConsumer @@
  "virt_gpiochip" :> VirtGpiochip @@ "pinctrl virt_gpiochip" :> PinctrlGpiochip @@
  "tmp75 misc" :> Tmp75Misc @@ "tmp75 regmap" :> Tmp75Regmap @@ "tmp75 hwmon" :> Tmp75Hwmon @@
  "rtc-ds1340" :> RtcDs1340 @@ "fake_iiodev" :> FakeIio @@ "fake_mouse" :> FakeMouse @@
  "g_char" :> GChar @@ "serial-virt" :> VirtUart @@ "virt-disk" :> VirtDisk @@
  "virt_mii_bus" :> VirtMiiBus @@ "ssd1306fb" :> Ssd1306fb @@ "virt_uio" :> VirtUio @@
  "virt_mfd_core" :> VirtMfdCore @@ "virt_mtd" :> VirtMtd @@ "virt-clk-consumer" :> ClkConsumer @@
  "virt-gate-clk" :> GateClk @@ "pinctrl_consumer" :> PinctrlConsumer @@
  "virt-pinctrl" :> VirtPinctrl

(* The entry points that a registration makes reachable before what they   *)
(* use is set up: an interrupt requested before its timer, tasklet or work *)
(* is initialised; a node or a device that can be opened before its data.  *)
Early ==
  {<<d, "gpio_interrupt_handler">> :
     d \in {"block_io", "nonblock_io", "fasync_io", "fasync_io_misc", "input-drv",
            "gpio_interrupt tasklet", "gpio_interrupt work"}}
  \cup {<<d, "debounce_timer_handler">> :
     d \in {"block_io", "nonblock_io", "fasync_io", "fasync_io_misc", "input-drv"}}
  \cup {<<"gpio_interrupt tasklet", "tasklet_handler">>,
        <<"gpio_interrupt work", "workqueue_handler">>}
  \cup {<<"c-drv", "char_dev_open">>, <<"fasync_io_misc", "char_dev_open">>,
        <<"backlight-drv", "oled_update_bl">>,
        <<"tmp75 misc", "tmp75_open">>, <<"tmp75 misc", "tmp75_ioctl">>,
        <<"tmp75 regmap", "tmp75_open">>, <<"tmp75 regmap", "tmp75_ioctl">>,
        <<"fake_iiodev", "fake_iiodev_write_raw">>, <<"fake_iiodev", "lux_auto_change">>,
        <<"g_char", "g_char_open">>, <<"g_char", "g_char_read">>, <<"g_char", "g_char_write">>}

(* What still runs when its memory is gone, or on an error path: nobody    *)
(* deletes the debounce timer or kills the bottom half; the interrupt is   *)
(* freed after the input device it reports to; a write between             *)
(* del_timer_sync and the release of the iio device starts the timer       *)
(* again; proc.c and notifier_register.c fail with callbacks registered,   *)
(* c-drv with the node still open to those who know its number; soft_wdt   *)
(* fails with an earlier watchdog armed; a thread of concurrency_control   *)
(* outlives a failed init, or returns after its completion has let the     *)
(* module go.                                                              *)
Late ==
  {<<d, "debounce_timer_handler">> :
     d \in {"block_io", "nonblock_io", "fasync_io", "fasync_io_misc", "input-drv"}}
  \cup {<<"gpio_interrupt tasklet", "tasklet_handler">>,
        <<"gpio_interrupt work", "workqueue_handler">>,
        <<"fake_iiodev", "lux_auto_change">>, <<"proc", "timer_handler">>,
        <<"notifier_register", "notifier_call">>, <<"c-drv", "char_dev_open">>,
        <<"soft_wdt", "softdog_fire">>, <<"concurrency_control", "thread_func">>}

(* Left behind by an error path (dts, ssd1306fb and virt-gate-clk: by      *)
(* every unload).                                                          *)
Leaks ==
  {<<"dts", "node">>, <<"proc", "directory">>, <<"sysfs_drv", "kobject">>,
   <<"notifier_register", "block1">>, <<"notifier_register", "block2">>,
   <<"ssd1306fb", "pages">>, <<"virt-disk", "major">>, <<"virt-gate-clk", "clkdev">>}

Unchecking ==
  {"virt_mfd_core init", "virt_mtd init", "virt-clk-consumer init", "virt-gate-clk init", "print"}

(* Released although never acquired, or for the second time (put_disk of   *)
(* virt-disk gets NULL, and accepts it); ssd1306fb frees the page that an  *)
(* address mistaken for a struct page stands for.                          *)
Strays ==
  {<<"sysfs_drv", r>> : r \in {"groups", "group", "file0", "directory", "kobject"}}
  \cup (Unchecking \X {"platform driver", "platform device"})
  \cup {<<"pwm_device", "enabled">>, <<"virt-clk-consumer", "enabled">>,
        <<"virt-disk", "disk">>, <<"ssd1306fb", "page at __va">>, <<"g_char", "misc">>, <<"g_char", "mem">>}

(* Missing in a driver that is bound: a failure nobody looked at, and the  *)
(* init of sysfs_drv that fails with PTR_ERR(NULL), which is success.      *)
Gaps ==
  {<<"sysfs_drv", r>> : r \in {"groups", "group", "file0", "directory", "kobject"}}
  \cup (Unchecking \X {"platform driver", "platform device"})
  \cup {<<"pwm_device", "enabled">>, <<"virt-clk-consumer", "enabled">>,
        <<"virt-gate-clk", "clkdev">>, <<"virt_uio", "uio_mem">>}

(* Outliving what they are built on: the name of the gate clock is never   *)
(* unregistered; g_char frees its structure before the core unlinks it.    *)
Orphans == {<<"virt-gate-clk", "clkdev">>, <<"g_char", "function">>}

(* The theorems about drivers written by the book are about real ones. *)
ASSUME BooksAssumption ==
  \A d \in {"serial-virt init", "kthread", "netdev_chain", "virt-fixed-rate-clk", "p-drv",
            "pwm_chip", "gpio_consumer", "virt_gpiochip", "pinctrl virt_gpiochip", "rtc-ds1340",
            "serial-virt", "virt_mfd_core", "virt_mtd", "pinctrl_consumer", "virt-pinctrl",
            "gpio_interrupt none", "gpio_interrupt thread"} :
    Textbook(d)
=============================================================================
