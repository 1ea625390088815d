# Formal models of the Linux driver collection

The repository is a course in Linux driver writing: some fifty kernel modules
in `01.字符设备` … `34.debug`, each with its device-tree fragments and, for some,
a user-space test program. There is no program that contains them all, so the
project models

* the drivers whose logic is a *protocol* between threads, interrupts, timers
  and user space, each in a module of its own: the button devices, the
  software watchdog, the memory character device, the locking demo, the USB
  gadget, the light sensor, the looped-back serial port, the UIO device, the
  temperature sensor, the OLED framebuffer, the sleeping thread, and two of the
  test programs on top of the drivers they test;
* what *all* drivers share, probe, error path and removal against their own
  asynchronous entry points, in one machine (`Lifecycle`) that runs a table of
  every driver (`DriverTables`).

## 1. Inventory

| Part | Source | State | Operations | What is hard |
|---|---|---|---|---|
| Button devices | `09…/block_io.c`, `09…/nonblock_io.c`, `10…/fasync_io.c`, `10…/fasync_io_misc.c` | debounce timer, `key_value`, wait queue, fasync list | interrupt, timer, open, read, poll, fasync, release | wake-up lost between test and sleep; read-then-clear is not atomic; notification chosen once; signals |
| Button tests | `10…/test/fasyncio_test.c`, `09…/test/*.c` | SIGIO handler, mask | handler, select loop | blocking read inside a signal handler |
| Watchdog | `14.watchdog/driver/soft_wdt.c` | two timers a device, module references, `timeout`, `pretimeout` | ping, stop, set_timeout, set_pretimeout, expiry, init, exit, the reboot notifier's stop | expiry against ping and stop; rmmod with an armed timer; nowayout; the notifier takes no lock |
| Character device | `01.字符设备/driver/c-drv.c` | shared buffer, file positions | open, read, write, llseek | boundaries; unsynchronised openers; faults half way |
| Locking demo | `12.并发控制/driver/concurrency_control.c` | counter, lock, completions | two threads, rounds | lost updates; reuse of completions |
| Probe, error path, removal | every `driver/*.c` that registers something | resources held, managed resources, armed timers/work | probe step by step, unwinding, remove, devm release | failure at each step; interrupt, timer or open before or after its data |
| USB gadget | `23.USB/driver/g_char.c` | one request, one flag and one wait queue a direction; endpoints and who owns them | read, write, complete, set_alt, disable, bind | the request is shared by all callers; it is given back by the host, by a signal, by disable and by set_alt, which also replaces it; set_alt may fail half way; read and write do not take the lock under which set_alt and disable run |
| Light sensor | `22.iio/driver/fake_iiodev.c` | two channels, thresholds, period, a mutex | timer, trigger handler, sysfs writes | the channels change one after the other; events on equality only; values cut to a byte; the lock is taken in a timer |
| Serial port | `24.串口/driver/serial-virt.c` | the serial core's circular buffer, `x_char`, flip buffer | start_tx, stop_tx | wrap-around, bursts of `fifosize`, flow control and flush in between |
| UIO device | `29.uio/driver/virt_uio.c` | flag bit, depth of `disable_irq` | irqcontrol | bit and depth change in two steps, without a lock |
| TMP75 | `15.I2C`, `16.regmap`, `18.hwmon` `/driver/tmp75.c` | resolution, in the chip and in the driver | set resolution, read temperature | the two differ while a set is under way, raced or has failed; shifts of negative values |
| Framebuffer | `28.Framebuffer/driver/ssd1306fb.c` | graphics memory, panel and its address pointer | write, imageblit, mmap with deferred io | copy and transfer are two steps without a lock; clamps; ignored errors, among them transfers cut short |
| Sleeping thread | `26.内核组件/driver/kthread/kthread.c` | task state, stop flag, timeout | init, loop, exit | the wake-up of `kthread_stop` between the test and the announcement of the sleep |
| disk, MTD, RTC, notifier, seq_file, clocks, PWM, pins, … | the other directories | their lifecycle; they keep no other state that two steps could disagree on (section 7) | | |

The parts meet in few places. The button driver and its test program share the
latch, the wait queue and SIGIO. The watchdog driver is called by the watchdog
core, which serialises the calls on one device, while its timers, and the stop
by the core's reboot notifier, run beside them. Every driver meets its bus, the driver core's list of managed resources,
and whatever its registrations make reachable. `PROJECT.json` lists each
component with its sources and its status, and each hazard with the line where
it bites and the properties that cover it.

## 2. Modules

| Module | Models | How state and actions correspond |
|---|---|---|
| `ButtonIO` | the three button drivers | One thread per open file. `key_value`, `fasync`, `wq` are the fields of the private structure; `pc` is the statement of the thread in `char_dev_read`/`char_dev_poll`. The `wait_event_interruptible` macro is opened up into queueing, test, sleep and wake-up. The variants are constants: no `Pollers` and no `Subscribers` is `block_io.c`; no `Subscribers` is `nonblock_io.c`. |
| `KeyLatch` | what the button device promises a reader | Abstract: a call takes the latched press or leaves it, atomically. `ButtonIO` instantiates it with a refinement mapping. |
| `FasyncTest` | `fasyncio_test.c` on `ButtonIO` | The users of `ButtonIO` restricted to what that program (and a `select()` watcher) does. |
| `SoftDog` | `soft_wdt.c` | A call of the core is a sequence of the driver's statements (`stage`), because timers run between them. Seconds are ticks. The core's bits (`isopen`, `active`, `magic`), its open, write, ioctl and release, and its reboot notifier (`halt`, asked for at line 115) are external: modelled from how the driver relies on them. |
| `CharDev` | `c-drv.c` | One byte is copied per step; every prefix may fault. The content of a byte is who wrote it. |
| `CharDevTest` | `01…/test/main.c` on `CharDev` | open, write all, seek back, read all, assert. |
| `ConcurrencyControl` | `concurrency_control.c` | `result++` is a load and a store; completions count; the second `kthread_run` may fail. |
| `Lifecycle` | probe and remove of any driver | A driver is a record: steps with what they acquire, arm and undo; the remove list; the entry points with what they are reached through and what they use. The machine runs it against a failure at every step and a call of every reachable entry point at every moment. |
| `DriverTables` | 54 drivers and modules (some in several variants) as such records | One definition per driver, in the order of its source. |
| `LifecycleRules` | what a good table looks like | Rules that are read off a driver's record without running it, and `Textbook`, the one shape of table that satisfies them all; no state of its own. |
| `GChar` | `g_char.c` | A direction is `"out"` (read, `in_req`, `r_able`) or `"in"` (write, `out_req`, `w_able`). A caller is at the queueing, in the wait, or interrupted in it; it carries the request it loaded. The controller is external: a queue of requests for each endpoint. `core` is the next statement of `set_alt` or `disable`: they exclude each other by the composite core's lock, and a call may meet any statement of theirs, since it does not take that lock. A packet is "new" until a call returns: the data a property needs, and no more. `mixed` and `crossed` are history. |
| `FakeIio` | `fake_iiodev.c` | The timer's callback and the trigger handler statement by statement, with `priv->lock`; each write of sysfs is one critical section. |
| `VirtUart` | `serial-virt.c` | `buf`, `head`, `tail` are the `circ_buf`; every call of the serial core runs under the port's lock and is one action, with the `start_tx` in it. Characters are numbers. |
| `Loopback` | what a looped-back line promises | Abstract: a line and an inbox, both first-in first-out. `VirtUart` instantiates it with a refinement mapping. |
| `Uio` | `virt_uio.c` | `flag` and `depth` change in separate steps of a writer. |
| `KThread` | `kthread.c` | The loop's test, announcement and sleep; `kthread_stop` is flag, wake-up, wait. |
| `Tmp75` | the three `tmp75.c` | The chip's register keeps the resolution it was measured at; a set is test, bus write, store; a reading is load and transfer. The conversion is the code's shifts on the register's 16 bits. |
| `Framebuffer` | `ssd1306fb.c` | A display is `Copy` and `Send`, which any number of bytes may end; `cursor` is the panel's address pointer; `mapped` is a page made writable by a store through mmap. |
| `DataPaths` | the seven small drivers side by side | `device` says whose behaviour it is. |
| `ButtonIOProofs`, `CharDevProofs`, `ConcurrencyControlProofs`, `SoftDogProofs`, `GCharProofs`, `DataPathsProofs`, `VirtUartProofs`, `LifecycleProofs` | theorems, and the lemmas under them | section 5. `ButtonIOProofs` and `CharDevProofs` are also about the test programs (`FasyncTest`, `CharDevTest`). |
| `MC*` | instances for TLC | |

A module mentions source lines in its comments; the full correspondence,
definition by definition, is `map` in `PROJECT.json`. Operators whose comment
starts with "Mutation:" are not part of a model: they are the faulty variants
that the properties are measured against.

### Notable modelling choices

* `ButtonIO`: a press is `Interrupt` (the timer is armed or moved) followed by
  `Debounced` or `Bounce`; a timer handler never runs on two CPUs at once but
  may be re-armed while it runs. `fresh` is a history variable (who saw
  `key_value = 1` that no read has cleared since); no guard reads it.
* `read` in `ButtonIO` goes to the same `char_dev_read` of all variants; the
  code under `#if 0` in `fasync_io.c` is not compiled and not modelled.
* `SoftDog`: `emergency_restart` stops the world (`Running`); the order of
  `module_put` and restart is kept. An orderly shutdown calls the core's reboot
  notifiers once, in the order of registration (`HaltBegins`, `HaltDelTimer` …),
  because of `watchdog_stop_on_reboot` (line 115); they stop a device that is
  active, and nothing locks them out of a ping. While the chain runs nobody
  registers or unregisters a device. What a shutdown does after them calls nothing of the
  driver and is left out, so processes, time and `rmmod` may go on after it.
  If `rmmod` frees a watchdog that is armed the model goes on as if the memory were intact.
* `GChar`: the controller takes a request out of its queue and completes it in
  one step; a `usb_ep_disable` completes all of them in one step. When memory is
  used that is NULL or freed (`GoesWild`: a completion without `priv`, a call
  on a freed request, a queued request freed) the model stops: what
  follows is undefined, and no property is asked of it.
* `Framebuffer`: `ssd1306fb_init` sets the window of the panel once and every transfer starts
  where the last one ended; a full transfer goes round the window exactly
  once. The first display (line 264) may be cut short like any other.
* `CharDev` and `Framebuffer`: a `copy_from_user` that faults leaves what it has
  copied and fills the rest of the range with zeroes, as the kernel's does.
* `Tmp75`: regmap is configured for 16-bit values (`16.regmap/driver/tmp75.c:130`), so a
  write to the 8-bit configuration register sends a zero byte first. What the
  chip then holds depends on the chip: the model lets it be either byte. The
  cache may also swallow the write. `sscanf` in the hwmon driver may leave `cfg`
  unset (line 160): any value is tried.
* `FakeIio`: the timer waits for the mutex like a process. The kernel forbids
  that (a timer must not sleep), and no model of the *data* can show it.
* `DataPaths` puts the seven small drivers in one state graph: `device` says
  whose behaviour it is and the others stay in their initial states. They share
  nothing, so this is seven checks, not a composition.
* `Lifecycle`: an entry point is atomic, and so is one probe step. A module's
  text and static data are the managed resource "module", which is released
  last; so "runs after unload" and "uses freed memory" are the same property.
  A driver's `pins` are the activities that hold a module reference (the armed
  timers of `soft_wdt`): they hold off `rmmod`, not a failing init.
  Files that stay open while a device is unbound are not modelled (an open
  file's reference on the module refuses rmmod, not unbinding through sysfs),
  so the runs say nothing of calls on such files.

## 3. Runs

| Run | Question | Instance | States |
|---|---|---|---|
| `button_nonblock` | Is a press or a wake-up ever lost between check, sleep, poll and read? | two files, one O_NONBLOCK, both polling, one with a bad buffer | 74,016 |
| `button_fasync` | The same promises with subscribers that come and go and read in their handler | two subscribing files | 69,156 |
| `button_latch` | Is one reader's view that of an atomic latch, liveness included? | one file | 786 |
| `fasync_test_spaced` | Does the SIGIO test work when presses are spaced out? | one test process, one watcher | 546 |
| `fasync_test_rushed` (violation) | … and when they are not? | the same | |
| `softdog_two` | Are the module references exact, so that rmmod never meets an armed timer? | two devices, stop allowed, one of them changing its timeout; at most one orderly shutdown | 2,557,285 |
| `softdog_nowayout` | Does nothing but expiry and the reboot notifier disarm it, and does an abandoned one fire? | one device, nowayout, initial timeout 0, timeouts 1–3 | 30,374 |
| `char_dev` | Do calls stay in the buffer, does the position follow the result, is memory changed by nobody else? | two processes, 2 bytes, transfers up to 3 | 2,514,605 |
| `char_dev_test_parallel` (violation) | Does the test's assertion hold if two of them run? | two processes, 3 bytes | |
| `concurrency` | Exact sums under both locks, bounded error without one, disjoint rounds, termination | types 0, 1, 2; 3 iterations; 2 rounds | 5,253 |
| `data_paths` | The data paths of the seven small drivers (below) | below | 1,193,265 |
| `bringup` | All bring-up and tear-down paths of all drivers; do their tables follow the rules of section 5? | 54 tables | 1,789 |

**Why the bounds are enough.** The button protocol has one latch, one handler
and interchangeable threads; its races are between the timer and a thread or
between two threads, so two files show them all, and the theorems of section 5
hold for any number. Two watchdogs meet only in the module's reference count;
a margin of 2 and a change to 1 (`OneChanges`), with pretimeouts below them, give every order of
the two timers of one device; with one device timeouts are 1–3 (`AnyOfThree`), and `soft_margin` 0 gives the
zero timeout, whose wrapped delay of the warning is the constant `Wrapped`. A buffer of two bytes has a
first, a last and a beyond-the-end position, and a transfer of three bytes
exceeds it; again the theorems remove the bound. Three iterations are the
fewest for which the unprotected counter can end (at 2) below what a single
thread adds, and the second round is what can meet a leftover of the first. `bringup` has no bound: the tables are finite and each
is run whole. `Loops`, `TestCnt`, `MemSize`, `MaxLen`, `Offsets`, `Timeouts` are
the named bounds; no action carries a hidden one.

`data_paths` checks, of each driver:

| Driver | Instance | Properties |
|---|---|---|
| `g_char` | two readers, of which one also writes; two allocations of requests by `set_alt`, any number of failures | `CompleteFindsPriv`, `NoLostGiveback`, `TransfersExact` |
| `fake_iiodev` | channels of two bits; a threshold of 5, which is cut to 1; period 0 | `PushedSampleConsistent`, `NoSilentRise` |
| `virt_uart` | buffer of 4, `fifosize` 2, room for 3, 6 characters | `ImplementsLoopback` |
| `virt_uio` | three writers, depth up to 3 | `IrqInStep` |
| `tmp75` | −2041 and 25 sixteenths of a degree; resolutions of 10, 12 and (refused) 13 bits; two setters | `ReadingWithinResolution` |
| `kthread` | no parameter | `ExitReturns` |
| `ssd1306fb` | two bytes, two writers and the work; every transfer may be cut after 0, 1 or 2 bytes | `PanelShowsMemory` |

Two overlapping callers and one `set_alt` over another are what the gadget's
shared request needs to go wrong; the theorems hold for any number. Two bits
give the sensor's first channel a wrap-around and its second one two values; the theorems
hold for any width. Six characters go round the buffer of four once and a half,
with a burst smaller than the buffer and a receiver smaller than the buffer.
Three writers of the UIO device let an enable overtake a disable while a third
call is under way. The temperatures are one below and one above zero, both with
fraction bits that the coarser resolutions cut off. `MaxAlts`, `LastChar`, `MaxDepth` bound the
counters.

The type invariants of `ButtonIO`, `ConcurrencyControl` and `Lifecycle` are
proved for every value of the constants and not checked again by TLC.

`CHECK_DEADLOCK FALSE` appears only where the system does stop: a rebooted or
unloaded watchdog, a finished test program, a loaded locking demo, a driver that
is gone, and in `data_paths` an unloaded thread.

## 4. Fairness

`ButtonIO`: weak fairness of the timer's handler once the timer is pending or
the handler has begun (softirqs run), and of each thread *inside* a call (the
scheduler runs runnable tasks). Nobody owes a press, a call, a signal, or the
expiry of `select()`'s timeout, so `BlockedThreadServed` may not lean on them.
`SoftDog`: weak fairness of time, of due timers and of a driver call once begun, the
notifier's too; no process ever owes the watchdog a ping or a close, and nobody a
shutdown. `ConcurrencyControl`: weak
fairness of init and of each thread. `FasyncTest` has the processes and the handler
weakly fair; only `PressingSpec`, used by the run that *refutes*
`HandlerReturns`, additionally assumes a user who presses for ever (strong
fairness of `Debounced`), to show that even that does not help.
`KThread`: weak fairness of the thread, whose steps include the expiry of its
own timeout, and of `rmmod` once begun; nobody has to call it. `data_paths` asks for that
fairness and no other. `Lifecycle`, `CharDev` and the other six small drivers are
checked for safety only.

## 5. Theorems

All proofs are checked by TLAPS without unproved leaves, from the assumptions the
modules name (`FilesAssumption`, `CharDevAssumption`, `ConcurrencyAssumption`,
`SoftDogAssumption`, `GCharAssumption`, `DataPathsAssumption`), which TLC evaluates in the
runs. These theorems say more of the constants: `OneReaderImplementsLatch` (one
reader); `ExitFindsNothingArmedHolds` and `WarnsBeforeFireAlways` (`MarginInRange`);
`HandlerReportsPressHolds` and `HandlerNeverSleeps` (`Spaced`, one subscriber, its
buffer good: what `fasyncio_test.c` is, used as intended); `AssertionHoldsAlone` (one
process, and the transfers and the seek that the test makes are among those of the
model). Those of `LifecycleProofs` are about drivers whose tables follow the rules
(`[]LoadedFollowsRules`, or all tables do), which `bringup` checks for all 54.

* **`ButtonIOProofs`**, for any set of files. `TypeCorrect`. `NoLostWakeupHolds`:
  if nobody subscribes, the handler's choice at line 121 is never `kill_fasync`
  (`NoKill`), and a queued sleeper with `key_value = 1` always has a `wake_up`
  still to come. `PromiseKeptHolds`: `PromiseKept` is inductive by itself over
  `TypeOK`, because every clear empties `fresh`. `NoPressDroppedHolds` follows
  as an action property. `OneReaderImplementsLatch`: with one good-buffered
  reader, every step is a step of `KeyLatch` or a stutter (safety part).
  With `FasyncTest` on top (`TestIsUse`: its steps are steps of `ButtonIO`),
  `HandlerReportsPressHolds`: an invariant follows the one press in flight (`OnePress`)
  through the places where the subscriber can meet it (`Places`) to what it returns
  (`Reported`). The same invariant gives `HandlerNeverSleeps`: the blocking read in
  the handler always finds the press and can always take its next step.
* **`CharDevProofs`**, for any `MemSize`, processes, lengths and offsets.
  `InBounds` alone is not inductive, since a transfer could finish behind the
  position it started from; `IInv` adds `Ahead` (a transfer's end is at or
  above the file position). From it: `InBoundsHolds`,
  `PositionFollowsResultHolds`, `OnlyWritesAndOpensChangeMemHolds`. `AssertionHoldsAlone`:
  the assertion of `01…/test/main.c:28` that `char_dev_test_parallel` refutes for two
  processes holds for one, whatever the size of the buffer.
* **`ConcurrencyControlProofs`**, for any number of iterations and rounds.
  `IInv` adds to the lock where init and each thread must be relative to each
  other (`Phases`), which makes the completions one-shot, and what the loop
  counters say (`LoopBounds`); `Counted` says that under a lock `result` is the
  sum of what the threads have made. From these: `MutualExclusionHolds`,
  `RoundsDoNotOverlapHolds` (for every type, with and without a lock),
  `ExactResultHolds`. Without a lock a store may overwrite any number of the other thread's:
  `RacyAbove` bounds `result` and both registers by the increments made so far,
  `RacyBelow` keeps them above zero once an increment is made, and so above
  one at the end; from these `RacyResultBoundsHolds`. `EveryStepCounts` and `NeverStuck` are
  what termination rests on: loading starts with `Work = TestCnt * (8 * Loops + 8)` steps,
  each step takes one of them off, and while one is left init or a thread can take it.
* **`SoftDogProofs`**, for any number of watchdogs, any timeouts, with and without
  nowayout. `IInv` says what each statement of a driver call leaves to the next
  one (`PingArms`, `StopDisarms`), that a pending warning comes before the expiry it
  announces except inside a ping or a stop (`WarnFirst`), and that with nowayout
  no call of the core is a stop (`NeverStopping`); from it `TypeCorrect`, `NowayoutHoldsAlways`
  (what else disarms is the notifier, once: `Told`), `WarnsBeforeFireAlways` (under
  `MarginInRange`: with a timeout of 0 the delay at line 61 wraps). `RefsCounted` adds up the references by kind, open files, armed
  timers, handlers and notifiers, less the gets that are still owed; every action moves one device in
  or out of at most two of these sets, and `RefsExactHolds` restates the sum.
  `ExitFindsNothingArmedHolds` concludes from the count: with a timeout above zero a device that owes a get
  has an armed timer, so no references means no file, no timer, no handler; it speaks of devices that no
  notifier has been called for. Its
  hypothesis `MarginInRange` and that restriction are needed (section 6). For a watchdog that is closed but
  active, and not reached by an orderly shutdown, `AbandonedDogArmed` (the timer is set within its timeout, or its function
  runs) and `AbandonedDogCountsDown` (only a second that passes changes it, by one, until
  `softdog_fire` is entered; what is entered is not undone); `ArmedNeverStuck`: while a dog is armed
  a call, a timer or the clock can go on: no deadlock before the restart.
* **`GCharProofs`**, for any readers, writers and number of `set_alt`s. The
  heart is `Solo(d)`: as long as calls of a direction have not overlapped, it is
  `Quiet` (no call, nothing queued, nothing crossed) or `Busy`, with one caller
  at one of four stages (`Progress`): not yet queued; queued; given back empty;
  completed by the one packet. The point is that `queue`, `able`, `actual` and `crossed` are
  tied together at each stage, and that a statement of `set_alt` or `disable` and a signal only
  move between stages. `Ends` (a queued request means an enabled endpoint, an enabled endpoint
  is owned by the driver but for the statement that is about to say so, and one
  about to be disowned is disabled), `Allocated` (between the two
  allocations there is a request) and `Filled` (a request to the host holds its caller's data)
  complete the invariant. From it: `TypeCorrect`, `CompleteFindsPrivHolds`, `NoLostGivebackHolds`,
  `TransfersExactHolds`.
* **`DataPathsProofs`**, for any values of the constants of the six other small drivers.
  `StepsOfEach` reduces a step of all to a step of each; the rest is one
  invariant a driver.
  * Light sensor: the invariant ties the lock to
    the steps that hold it, the channels to each other outside the timer's two
    steps, and the handler's copies to the channels while it holds the lock
    (`LightCopied`); it gives `PushedSampleConsistentHolds`. `NoSilentRiseHolds` is arithmetic on top: each channel
    moves by at most one between runs except when the counter wraps, so a
    crossing upwards is an equality.
  * UIO device: `Account` (depth and disables under way balance the bit, the
    enables under way and those that came too early) is inductive, and
    `IrqInStepHolds` follows by counting.
  * Temperature sensor: `ReadingWithinResolutionHolds` for every temperature the register can hold,
    below zero too: the shifts of lines 40-57 are floor divisions, and dividing
    twice loses less than a step of the coarser resolution (`Rounding`).
  * Panel: `PanelShowsMemory` is not inductive: the invariant adds that while the panel is not
    `spoilt` at most one task is sending (`OledOneSender`), that a full transfer comes back to where
    the address pointer stood, so that the panel shows what was sent from there on (`Shows`), and that the memory is
    still to be displayed, or is what that task sends, or is on the panel
    (`OledFresh`).
  * Sleeping thread: `StopStepsDecrease` (once `kthread_stop` has raised the flag, every step
    takes at least one from a measure of at most six) and `RmmodNeverStuck` (who is waited for can
    go on, and the module goes only after the thread has).
  * Serial port: `ImplementsLoopbackHolds`, below.
  * `AllTypeCorrect` for all seven, the gadget's from `GCharProofs`.
* **`VirtUartProofs`**, for any size of the buffer, `fifosize` and receiver: the refinement of
  `Loopback`, step by step. The line is what the circular buffer holds between
  `tail` and `head` (`Held`); the lemmas say what a step does to that
  sequence: `WriteAppends` (the two copies of a write that wraps append),
  `AdvanceTakes` and `StartTxTakes` (a burst takes a prefix, and what the receiver has
  no room for is lost from it), and `LineCarries` that the two together are a step of
  the abstract line. A `start_tx` follows a write in one action, hence
  `WriteAndTake`.
* **`LifecycleProofs`**, for any driver whose table follows the rules of
  `LifecycleRules`, with any number of steps, resources and entry points. The
  rules are static: every error label and the remove function release all that
  the core does not (`ReleasesAll`), and only what is held for sure, once
  (`ReleasesHeld`); results are looked at (`LooksAtResults`); an entry point is registered
  after what it uses (`RegistersLast`) and is stopped, after everything that arms
  it, before what it uses is released (`StopsFirst`). `WellFormed` also asks that an activity
  arms nothing but itself, as all of the repository's do, and that a release is of
  something the table names or of a known stray. The invariant follows the machine:
  what is live is bounded by the steps done so far and what those make
  callable (`Bounded`); what cannot have failed unnoticed is held (`CertainHeld`); the rest of a
  list of releases still finds what it releases (`ReleasesFind`); each held resource has
  somebody who will release it (`Accounted`); what is live has what it needs (`Served`) and is
  stopped before that goes (`Stopped`); the core's list is in the order of the probe
  (`DevresOrdered`). The point of the lemmas is that being stopped for good
  survives both a release (`StoppedThroughRelease`) and a call (`StoppedThroughCall`). From it:
  `TypeCorrect`, `StraysNever`, `LeaksNever`, `CompleteWhenBound`, `DependentsNeverOutlive`,
  `AlwaysReadyWhenCalled`; `RulesSuffice` puts them together from a hypothesis on the tables
  alone. For what the lists of section 6 except, the theorems say nothing.
  `TextbookFollowsRules` says what a driver has to do to follow all the rules at
  once: look at every error, acquire each thing in one step and after what it
  is built on, arm nothing, let no managed thing depend on one it releases by hand, and
  release latest first, at the labels as in remove (`Textbook`). The lemmas: `NeededIsThere`
  (what is live has what it needs, at every step), `OwnedOrManaged` (what depends goes
  with the driver's own releases or in the core's), `LatestFirstStops` (such a list finds what
  it releases and stops before it takes). Hence `TextbooksFollowRules`, which states
  `LoadedFollowsRules`, and `TextbooksKeepPromises`, with no exceptions. Twenty of the 54 tables are of this
  shape: `serial-virt` and its init, `kthread`, `netdev_chain`, `vnet`, `virt-fixed-rate-clk`,
  `p-drv`, `pwm_chip`, `gpio_consumer`, the two `virt_gpiochip`, `tmp75` (hwmon), `rtc-ds1340`,
  `virt_mii_bus`, `virt_mfd_core`, `virt_mtd`, `pinctrl_consumer`, `virt-pinctrl`,
  `gpio_interrupt` without a bottom half and with a threaded one; `BooksAssumption` of
  `MCLifecycle` has TLC evaluate that for seventeen of them. The other 34 deviate in
  some way (they arm timers, ignore a result, release in another order) and
  are covered by the rules themselves.
* `TypeCorrect` of `CharDevProofs` and `ConcurrencyControlProofs` are the range
  invariants that the others rest on.

**Only model-checked.** What depends on fairness and `ENABLED`, which are beyond
the prover. For each of these properties the safety part is proved, and what is left to TLC is
that weak fairness turns it into progress:

| Property | What is proved of it |
|---|---|
| `BlockedThreadServed` | `NoLostWakeupHolds`: who sleeps on a press has its `wake_up` to come |
| `ImplementsLatch` | `OneReaderImplementsLatch`: every step is one of the latch or a stutter |
| `HandlerReturns` | `HandlerNeverSleeps`: the handler can always take its next step |
| `AbandonedDogFires` | `AbandonedDogArmed`, `AbandonedDogCountsDown`, `ArmedNeverStuck` |
| `LoadingTerminates` | `EveryStepCounts`, `NeverStuck`: a bounded number of steps, no deadlock |
| `ExitReturns` | `StopStepsDecrease`, `RmmodNeverStuck` |

That the 54 tables follow the rules (`LoadedFollowsRules` for tables that are not
`Textbook`) is a computation, which TLC does.

## 6. What the checks found

Two runs are expected to be violated, each against a line of the repository's
own tests:

* `fasync_test_rushed`: `fasyncio_test.c:18` takes `POLL_IN` to mean that there is
  something to read and reads (line 20) without O_NONBLOCK. Two presses close
  together merge into one latched bit, the first handler run reads it, and the
  second one blocks in `char_dev_read` for good: SIGIO is blocked in its handler, and
  with a subscriber on the list `fasync_io.c:121-125` wakes no reader.
* `char_dev_test_parallel`: `01…/test/main.c:28` asserts that what it wrote is what it reads,
  but `c-drv.c:50` erases the shared buffer on every open.

`bringup` passes *apart from a list of named exceptions*, in `MCLifecycle`: each
pair of a driver and an entry point or a resource there is a behaviour that the run reaches, so
the list is a list of defects of the bring-up and tear-down code. None of these
contradicts a line of the repository, hence they are not findings of their own:

| Set | Drivers | Lines |
|---|---|---|
| `Early`: reachable before it is set up | button drivers, `input-drv`, `gpio_interrupt`: interrupt requested before timer, tasklet, work or input device; `tmp75` (misc and regmap), `fasync_io_misc`, `c-drv`, `g_char`: node before data; `fake_iiodev`: `iio_device_register` before the timer; `backlight-drv` | `block_io.c:125`, `tmp75.c:150`, … |
| `Late`: reachable after it is gone | button drivers and `input-drv` delete no debounce timer; `gpio_interrupt` kills no bottom half; `fake_iiodev` may re-arm after `del_timer_sync`; `proc`, `notifier_register` fail while registered; `soft_wdt` fails while an earlier watchdog is armed; a thread of `concurrency_control` outlives a failed init | `block_io.c:170`, `fake_iiodev.c:342`, `proc.c:51`, `soft_wdt.c:137`, `concurrency_control.c:74` |
| `Leaks` | `dts` node, `proc` directory, `sysfs_drv` kobject, notifier blocks, `ssd1306fb` pages (on failure, line 330, and on every removal, line 344), `virt-disk` major, `virt-gate-clk` lookup | `virt-disk.c:138`, `ssd1306fb.c:330`, `ssd1306fb.c:344`, `virt-gate-clk.c:76` |
| `Strays`: released though not held | `sysfs_drv` after `PTR_ERR(NULL)`; exits of modules that check no registration; `pwm_device`, `virt-clk-consumer`; `virt-disk` puts a NULL disk; `ssd1306fb` gives `__free_pages` a virtual address, `__va(smem_start)`, where a `struct page` is due, so it frees whatever page that stands for; `g_char` | `sysfs_drv.c:87`, `virt_mtd.c:132`, `ssd1306fb.c:344`, `g_char.c:439` |
| `Gaps`: bound, but incomplete | the same unchecked calls; `virt_uio` memory | |
| `Orphans` | the lookup of `virt-gate-clk`; the function of `g_char` | `g_char.c:439` |

Every driver and entry point that is *not* in these sets is shown free of the
corresponding error as far as its table goes: what a table cannot show is a call with a wrong
argument, unless it is written there as `ssd1306fb`'s is. A regression in any table fails the run.

`softdog_*` and `data_paths` pass with preconditions that say where the promise ends. What lies
beyond them is reachable in the models; no line of the repository promises
otherwise, so there is no violation run for it:

* `g_char.c:333-390`: two calls of one direction share request, flag and wait
  queue. The second one clears the flag the first one waits for, its enqueue is
  refused while the request is queued, and after one overlap later calls of that
  direction may return old data or wait for a completion that has been and gone (`mixed`).
* `g_char.c:282-302`: when a request cannot be allocated, `set_alt` returns 0 with both
  endpoints disabled; `out_req` is then NULL or freed memory, which the next
  write fills. Between lines 282 and 296 a writer may queue that request, and then it is freed while
  the controller has it (`wild`). The requests of the previous `set_alt` are never freed.
* `g_char.c:260-264`: `set_alt` enables an endpoint before it puts `priv` in its driver data. A
  call that still has a request of an earlier `set_alt` can queue it in that moment, and if the host moves
  a packet, or a signal dequeues it, before line 264, `g_char_complete` reads
  `priv` from NULL (line 229, used at 241). This is the exception in `CompleteFindsPriv` (`core = <<"claim", d>>`).
* `g_char.c:347-349, 384-386`: a signal may find the request completed after all. The call still
  returns -ERESTARTSYS: the packet a read received is lost, and a write that is restarted sends its
  packet again. `TransfersExact` bounds this by one packet a call.
* `serial-virt.c:44-54`: what exceeds `fifosize` stays in the buffer until somebody writes
  again; the port has no interrupt that asks for more. Hence no liveness
  property of `VirtUart`.
* `virt_uio.c:22-28`: an enable that overtakes a disable is lost with a warning, and the
  interrupt stays off though the bit says on (`unbalanced`).
* `tmp75.c` with regmap: the 16-bit write may leave the chip at 9 bits; the reading is then
  coarser than asked for, and still right within that (`ReadingWithinResolution`).
* `ssd1306fb.c:53`: two displays that overlap may leave the older picture on the panel, the
  result of the transfer is ignored, and a write that faults is not displayed
  (`spoilt`). A transfer that is cut short leaves the address pointer where it stopped,
  and since only `ssd1306fb_init` sets the window (228-261) every later picture is shifted, until
  the next probe (`Shows` says from where it begins). The first display's result is ignored too (264).
* `soft_wdt.c:29, 113`: the comment gives the range of `soft_margin`, and nothing enforces it: out of
  range, the timeout stays 0. The timer that `mod_timer` starts at line 57 can then expire
  before line 58 takes its reference; the handler's `module_put` drops the
  reference of the open file instead, and `rmmod` can free the watchdog while it
  is open. Hence the hypothesis of `ExitFindsNothingArmedHolds`. A pretimeout
  set while the timeout is 0 gives line 61 a negative, that is a wrapped, delay: the warning may
  come weeks after the reboot. Hence that of `WarnsBeforeFireAlways`.
* `soft_wdt.c:22-24, 115`: the description of `nowayout` says that the watchdog cannot be stopped once
  started. Line 115 makes an exception: an orderly shutdown stops it. That is what
  `watchdog_stop_on_reboot` is for, so it is stated in `NowayoutHolds` and not as a finding. But
  the notifier takes no lock: if it comes between lines 57 and 58 of a ping that has found the timer
  just expired, it deletes the new one and puts the file's reference before the ping gets its
  own. An `rmmod` in that moment, before `softdog_fire` restarts the system, succeeds and frees a watchdog that is open. And if it comes
  between lines 57 and 61 of the ping of a close, `pre_timer` is set when everything else has been
  stopped, without a reference: an `rmmod` then frees it while it is armed. `ExitFindsNothingArmed`
  leaves out the devices that the notifier has begun with.
* `fake_iiodev.c:243`: a "falling" event is pushed on equality, so also when the light is
  rising; lines 111-112 refuse nothing; line 229 takes a mutex in a timer.
* `c-drv.c:69-75`: a write that faults has changed its whole range, with zeroes where it
  could not copy.

## 7. Not modelled

Left out:

* `oops` (deliberate undefined behaviour), the `list` and `container_of` demos
  (straight-line code whose effect is a log), the kernel itself (only what the
  drivers rely on), and the sequential test clients, whose calls are inputs of
  the models.
* The operations of the disk, the MTD, the RTC, the PWM, clock, backlight, GPIO,
  pin control, sysfs, proc, notifier and sequence-file drivers beyond their
  lifecycle: each is one transfer or one assignment, serialised by the subsystem
  that calls it, and keeps nothing between calls that another step could find
  stale. Their probe, error paths and removal are in `DriverTables`.
* The sleeping of `fake_iiodev`'s timer, and files that stay open over an unbind.
* A release that fails: every release of `Lifecycle` succeeds. The one whose error
  a driver hands on is `mtd_device_unregister` (`virt_mtd.c:103`); it refuses only while the device is
  in use, by an open file for one, and such files are out of scope as just said.
* What happens after the reboot notifiers of an orderly shutdown, and, in `SoftDog` and `GChar`, after
  the use of freed memory.
* A reload: a driver in `Lifecycle` is loaded, and gone, once.

The rules of `LifecycleRules` are sufficient, not necessary: a table may break
one and still keep its promises. None of the 54 does so outside the named
exceptions.
