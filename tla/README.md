# Formal models of osx-goodies

TLA+ specifications, TLC configurations and TLAPS proofs for the macOS kernel
drivers of this repository: a RAID controller driver (`raid/`), a hardware
watchdog with its user-space feeder (`watchdog/`), an SMBus host driver and a
fan-control plug-in on top of it (`ic/`).

Paths below are relative to the repository's source tree; a number in
parentheses is a line. `PROJECT.json` maps every definition to its lines.

## 1. The system

### Parts, their state and their operations

| Part | Code | State | Operations |
|---|---|---|---|
| SASMegaRAID, command path | `raid/SASMegaRAID/SASMegaRAID.cpp`, `ccbCommand.h` | the ccb pool; per ccb its completion routine, context and frame status; the reply queue shared with the firmware and its two indices; per sleeping caller a lock and an event flag | Getccb, Putccb, ProcessParallelTask, IOCmd, Management, MRAID_Exec, mraid_post, interrupt filter, interruptHandler, mraid_cmd_done, mraid_exec_done |
| SASMegaRAID, life cycle | same file, `HelperLib.h` | FirmwareInitialized, InterruptsActivated, EnteredSleep, fInterruptSrc, MyWorkLoop | Attach, MRAID_Sleep, MRAID_WakeUp, MRAID_Shutdown, TerminateController, setPowerState |
| SASMegaRAID, firmware states | `SASMegaRAID.cpp` (629-695) | none of its own | Transition_Firmware |
| SASMegaRAID, frames | `SASMegaRAID.cpp`, `Hardware.h` | the frames | PointToData, CreateSGL, OutputSegment, LogicalDiskCmd, mraid_post's encodings |
| SASMegaRAID, ioctl device | `RAID.h` | the character device | MRAID_UserCommand, MFIIO_QUERY_DISK |
| SASMegaRAID, information | `SASMegaRAID.cpp` | sc_info, sc_bbuok, sc_ld_present | GetInfo, GetBBUInfo, ExportInfo |
| PCI helper library | `HelperLib.h` | none | CreateDeviceInterrupt, MappingType, MatchDevice |
| iTCOWatchdog | `watchdog/iTCOWatchdog/iTCOWatchdog.cpp` | the TCO registers, SMI_EN, is_active, SMIWereEnabled, WorkaroundBug, the feeding thread | probe, start, tcoWd{Set,Load,Enable,Disable}Timer, thread_fcn, setPowerState, free_common, setProperties |
| LPC nub | `watchdog/iTCOWatchdog/Various.h` | base addresses | matching the bridge |
| Watchdog Feeder | `watchdog/Watchdog Feeder/Watchdog Feeder.m` and its launchd plist | signal dispositions, one NSTimer | init, bone, disable |
| ICHSMBus | `ic/ICHSMBus/ICHSMBus.cpp`, `ic/Supporting/I2CCommon.h` | the bus lock, I2C_Transfer, Lock.event, the host controller's registers | LockI2CBus, UnlockI2CBus, I2CExec, filter, handler |
| Andigilog | `ic/Andigilog/Andigilog.cpp` | pwm_mode, per PWM a configuration and a duty, per sensor a cached reading | GetConf, SetPwmMode, SetPwmDuty, readSensor, updateSensors, the FakeSMC callbacks |
| Patches, FakeSMC headers, packaging | `ic/patches/`, `FakeSMC*.h`, `Installer/`, scripts | none at run time | none |

### How they interact

* The SCSI family calls ProcessParallelTask on its own threads, an ioctl or a
  power change calls Management on its own. They meet in the ccb pool (behind an
  IOCommandGate) and in the controller's inbound queue register. The firmware
  writes contexts into the reply queue and raises an interrupt; the interrupt
  work loop takes them out and calls each ccb's completion routine, which gives
  the ccb back and completes the task, or wakes the sleeper.
* Power management runs on one thread and shares three flags, the event source
  and the reply queue memory with all of these, without a lock.
* The watchdog driver is fed by its own kernel thread or, through setProperties,
  by the feeder, which launchd starts and restarts. The timer counts on by
  itself and resets the machine.
* Andigilog asks ICHSMBus for transactions; a caller sleeps on a lock until the
  interrupt handler has filled its buffer. FakeSMC calls Andigilog for SMC keys.

### What is hard to test here

Interrupts that arrive between two statements of a sleeping caller, replies that
arrive after the caller gave up, reply slots and ccbs that are reused before the
consumer index is published, power changes that stop half-way, time limits in
two units, a chip whose registers are changed by two paths. `PROJECT.json` lists
every hazard at its line, with the properties that would notice it going wrong.

### What makes each part correct

* Command path: a ccb has one user; a reply reaches the request that waits for
  it, once, with the firmware's status; no reply is lost or overwritten; every
  request returns.
* Life cycle: what the controller acknowledged survives power loss; a task goes
  only to a firmware that runs; event sources are neither leaked to a live
  controller nor used after release; a power change ends.
* Watchdog: a halted kernel is reset, a running one is not; SMI enables are left
  as they were found. Feeder: fed means no reset, starved means reset, a
  requested end leaves no timer armed.
* SMBus: a result and the bytes belong to the caller's own transaction; the
  data registers are not disturbed; no wake-up is lost.
* Fans: the published mode is the mode of the chip, also when the SMC sets modes
  while the driver still takes over what it finds; going back to automatic mode
  does not leave a fan standing; a reading is encoded once.

## 2. The modules

| Module | Models | Its variables in the code |
|---|---|---|
| `MegaRAIDCommands` | the command path while the controller is awake | `pool` ccbCommandPool; `ccb` ccb_done, ccb_context, mrh_cmd_status; `reply_q`, `producer`, `consumer` mraid_prod_cons; `intr` the outbound status register; `due` a signalled event source; `h*` the locals of interruptHandler; `pc`, `cmd`, `event`, `result` where a thread is, its ccb, its lock.event, its return value; `fwq`, `fwRaise` the firmware |
| `TaskService` | abstract: a request is executed at most once and answered with its own verdict | none |
| `MegaRAIDRefinement` | the mapping of the first onto the second | none |
| `MCMegaRAIDCommands` | symmetry for TLC | none |
| `MegaRAIDCommands_proofs` | theorems about the first: the inductive invariant and what follows from it | none |
| `MegaRAIDService_proofs` | the refinement, the pool's reserve and the interrupts | none |
| `MegaRAIDPower` | Attach, sleep, wake-up, shutdown, termination, the tasks and ioctls that come meanwhile | the three flags; `created`, `refs`, `on`, `fInterruptSrc`, `MyWorkLoop` the event sources; `replies`, `held` the reply queue and what running handlers took from it; `ppc`, `mgmt` the life-cycle thread and its management command; `upc` the callers of the ioctl; `fw`, `dirty`, `late`, `unmasked` the controller |
| `MegaRAIDPower_proofs` | theorems about it | none |
| `FirmwareOutcome` | what Transition_Firmware may make of the firmware; one operator, which `MegaRAIDPower` takes for a step and `FirmwareTransition` is shown to do | none |
| `FirmwareTransition` | the loop of Transition_Firmware over a firmware that moves as it likes | `cur_abs`, `prev_abs`, `cur_state`, `i` the locals; `reg` the state register; `rung` the doorbells the firmware heard |
| `FirmwareTransition_proofs` | theorems about it | none |
| `FrameLayout` | sizes and places in the memory shared with the firmware; operators, no state | `FramesSize` sc_frames_size; `Frame` ccb_pframe; `FrameBytes` ccb_frame_size; `ExtraFrames` ccb_extra_frames |
| `BlockCommands` | the blocks a READ or WRITE names, and what ProcessParallelTask takes from the CDB; operators, no state | none |
| `FramePosts` | the words mraid_post writes, and how the firmware takes them apart | none |
| `FrameLayout_proofs` | theorems about `FrameLayout` and `BlockCommands` | none |
| `MCMegaRAIDPower` | `MegaRAIDPower` and `FramePosts` for TLC | none |
| `TCOWatchdog` | the driver and the timer, in ticks of 0.6 s | `tm`, `count`, `haltedTimer`, `timeoutSt`, `noReboot`, `smien` registers; `is_active`, `SMIWereEnabled`, `WorkaroundBug` members; `feedIn` the rest of the thread's IOSleep |
| `WatchdogFeeder` | EXTENDS `TCOWatchdog`: the feeder, signals, launchd | `handlers` signal dispositions; `boneIn` the NSTimer; `restartIn` launchd |
| `WatchdogProofs` | theorems about both | none |
| `SMBus` | bus lock, I2CExec, filter, handler, host controller; which faults a run has is chosen in its initial state (`faults`) | `holder` the lock; `xfer` I2C_Transfer; `event` Lock.event; `hs`, `hd0`, `hd1`, `running` registers; `fSt` the status the filter saved |
| `BusService` | abstract: a bus with one owner at a time, which on a bus without faults gets the result and the bytes of its own transaction | none |
| `SMBusRefinement` | the mapping of `SMBus` onto it | none |
| `SMBus_proofs` | theorems about both | none |
| `FanBoards` | the sensors of a board and the walk that finds the fan of a bit; operators, no state | `board` Measures[start_fan ..] |
| `FanControl` | modes, duties and cached speeds, over transactions that may have no effect; GetConf and the callbacks as two sequences of steps that interleave | `hwConf`, `hwDuty` registers; `pwm_mode`, `value`, `duty` config and Pwm[]; `cpc`, `confNext`, `conf`, `cFans`, `cMode` where GetConf is, its loop index, its conf, the bits it has yet to set and the pwm_mode it loaded; `spc`, `val`, `fanBit`, `fanPlace`, `init_pwm`, `idx`, `new`, `sMode`, `data` where the callback is and its locals; `obsoleted`, `reading` Measures[] |
| `FanControl_proofs` | theorems about it | none |
| `MCFanControl` | two boards of the repository; the walk tried on every board of up to six sensors | none |

One action stands for a stretch of code that no other actor can observe half
done: a critical section, or the code between two points where a thread can be
overtaken. The command path is cut at each register write, at each sleep and at
each entry into the gate; the handler is cut after its acknowledgement, after it
has read the indices, and around each callback. GetConf, which holds no lock, and
SetPwmMode are cut at each bus transaction and at each load and store of
`pwm_mode` and `Pwm[].value`. A variable marked "history" in
its declaration is not in the code: it remembers an earlier event for a property.

An operator whose comment begins with "Mutant of X" is a plausible bug in the
code X models. No specification uses it; it exists so that each property can be
shown to notice that bug.

### Deliberate reductions

* A frame is its mrh_cmd_status; CDBs, transfers and sense data are left out.
  The pool hands out any free ccb (the code's is LIFO, one of these choices).
* The firmware executes posted frames in any order. Publishing a reply and
  raising the interrupt are two steps.
* `Prompt` is an assumption about the world, and the code does not ensure it: the
  reply to a management command is handled before its one-second deadline, and no
  signal ends the sleep for it (the sleep is THREAD_INTERRUPTIBLE, 1266). Under it
  the exit from the sleep is left only to a thread whose reply was handled before
  it slept. What happens without it is the run `commands_late`; the other
  properties of the command path are checked and proved under it, but for
  `NoStrandedReply`, which is proved without.
* A handler of `MegaRAIDCommands` that calls a ccb without a completion routine stops
  there: what the kernel makes of that call is not modelled.
* The provider has a level interrupt, and with `PreferMSI` a message interrupt
  (`HasMSI` of `MegaRAIDPower`; in `MegaRAIDCommands` the two are one constant, so
  that a filter and a handler which both acknowledge are not modelled).
* In `MegaRAIDPower` a reply is a member of a set, ccbs have no names, and of
  tasks only writes are told apart from nothing. Transition_Firmware is one step,
  `Outcome`: it succeeds, gives a firmware up that may yet get ready, or ends in a
  fault; or the step never comes, as the loop has no limit. `LoopIsOneStep` proves
  that the loop does no more than that, `Ends` says when it comes to an end.
* `FamilyCalls` and `ProgramsCall` say in which states of the driver tasks and
  ioctls come at all: the family sends tasks to a started controller until it is
  shut down, and a device that is open may be asked during a termination as well.
* In `FirmwareTransition` UNDEFINED, BB_INIT, FW_INIT and FLUSH_CACHE, which the
  driver treats alike but for the length of the wait, are one state. The bits of
  the register beside the state are a count.
* In `FanControl` the zones the chip may be found in are one for each way the
  driver treats them. What lies past Measures[] is read as a number that names a
  PWM or none.
* `Word` stands for 2^32 in the watchdog; it is larger than any product the
  documented range can give, and `FeedingNeverLate` holds for every such value.
* SMBus bytes are known by transaction and place; slave addresses and
  transactions without data are left out. SMBALERT and BDONE are what `Alert` may
  raise at any time. Where a run has the fault "stale" the host status holds an
  error when the driver starts ("Catch <DEVERR,INUSE> when cold start").
* In `FanControl` a transaction is one step of the chip; transactions of GetConf and
  of a callback that mix on the bus itself are not modelled (section 6).

## 3. The runs

Run from this directory: `tlc -config <cfg> <module>`; `PROJECT.json` names the
module of each. `smbus` is a run of `SMBusRefinement`.

| Run | Instance | Shows |
|---|---|---|
| `commands_line` | level interrupts, pool behind a gate of its own, 3 ccbs of which 2 are reserved, 2 task identities, 2 managers, `Prompt` | `Exclusive`, `RepliesOwned`, `QueueWindow`, `NoStrandedReply`, `PoolNeverEmpty` |
| `commands_live` | MSI, acknowledgement in the handler, one work loop for pool and interrupt, 2 ccbs, one task, one manager, `Prompt`, fairness | `EveryRequestReturns`, the refinement `ImplementsService` |
| `watchdog_self` | version 1 at its shortest timeout, self-feeding | `ResetOnlyOnHalt`, `LeavesAsFound`, `HaltResets` |
| `feeder` | version 2, timeout 6 s, restarts after at most 3 ticks | `NoResetWhileFed`, `TermIsSafe`, `StallResets` |
| `smbus` | 2 callers, transactions of 1 and 2 bytes, 2 serial numbers each, fairness; runs without faults, and runs of one caller with late transactions, signals, interrupts of other causes and a stale status at start | `TruthfulReturn`, `ReadFresh`, `BufferLive`, `BusyUndisturbed`, `EveryExecReturns`, the refinement `ImplementsBus` |
| `firmware` | a wait of 3 looks, 4 scan counts, a firmware that makes at most one move between two looks, fairness | `StuckIsStill`, `NoStandoff`, `Ends` |
| `fans` | the board of `Andigilog-Info.plist`, a zone of each kind the chip may be found in, two duties; GetConf interleaved with SetPwmMode and SetPwmDuty; transactions without effect or overlaps about one PWM | `RealStates`, `AutoIsAuto`, `EncodedOnce`, `DutyOnlyManual`; an assumption of its module has TLC walk over every board of up to six sensors |
| `power` | 2 sleeps, one task, one caller of the ioctl, MSI, fairness; any request may fail or be late | `NothingLost`, `PostedToLive`, `NoStaleSource`, `RepliesHandledOnce`, `GoneIsQuiet`, `ExecHasListener`, `PowerChangeEnds`; an assumption of its module has TLC decode the posts of the first and last of up to 1024 ccbs, with lists of up to 33 entries |
| `commands_awakened` | one manager | violates `ExecAwakened` |
| `power_attach` | interrupts that never arrive | violates `AttachEnsuresInterrupts` |
| `watchdog_wake` | nobody feeds | violates `ArmedOnDemand` |
| `commands_late` | one manager and one task, without `Prompt` | violates `CcbDoneSet` |

The type invariants (`TypeOK`, `FeederTypeOK`) and the inductive ones are
theorems (section 4), so no run repeats them.

`OnlyGateBlocks`, `NeverHeldUp`, `HaltedTimerRuns`, `StalledTimerRuns` and
`NobodyStuck` say when certain actions are enabled. They are no claims about the
code but premises of the theorems on liveness, since the prover cannot reason
about ENABLED, and each is only as good as the actions whose guards it repeats;
the claim is the liveness property itself, which a run checks without any
premise. To have TLC try one, name it as INVARIANT in `commands_live.cfg`,
`power.cfg`, `watchdog_self.cfg`, `feeder.cfg` or `smbus.cfg`: all five hold.

### Why the bounds are enough

* Three ccbs make four reply slots: both indices wrap, and the producer meets a
  consumer index that has not been published yet. Two tasks and two managers let
  a ccb go from a request that was just called back to another while the loop of
  the handler is not over. With two reserved ccbs and three in all, one task more
  than the family may send would empty the pool.
* Two sleeps are needed for a second event source to meet the first, and for a
  pointer left by the first to be released by the second.
* The watchdog's counters are bounded by the programmed timeout; both versions'
  timers are periodic with it. The shortest timeout has the least slack.
* One wait more than the looks of a scan that comes round is needed for a false
  standstill: the count has one value more than the wait has looks. The states
  are not bounded, and neither is how often the firmware moves.
* In `power`, `MaxUnderWay` keeps one task or command of a program on its way at a
  time (`Room`), and a program asks only while the history is `smooth` (`Promised`):
  what a program meets after a failure is no part of any property.
* In `smbus` no second interrupt of another cause comes before the first is
  acknowledged (`OneAlert`).
* Two serial numbers tell a transaction from the one before it, which is the
  oldest whose traces (event, marker, bytes) can be left.
* The board has a fan without PWM and two fans on PWMs of their own. Speeds share
  no variable with modes and duties, so a behaviour of `fans` is about speeds, or
  about modes and its first duty (`Apart`, `DutyLast`). `OneWrong` lets
  transactions without effect and overlaps be about one PWM at a time: the other
  shows whether anything reaches beyond it. (Without `OneWrong` the run has six
  million states, and passes.)
* `RestartDelay` is 3 ticks for a countdown of 10: launchd starts a program again
  at once if it ran for its throttle interval of 10 s. For one that ran for less
  and a short Timeout the wait may be longer than the countdown; the theorem
  `TermNeverReset` has the condition.

Where deadlock checking is off (watchdog, feeder, SMBus, fans, power), the system
may stop: a machine that was reset, a driver that is gone, callers that all wait
for good behind one that left out its unlock, or a bound that is used up.

### Fairness

* Command path: every thread runs, the firmware answers the frame of every
  thread that waits for it and raises its interrupts, the filter and the work
  loop's handler run: weak fairness, one condition for each thread
  (`Scheduled`) and three for what serves them all (`Serviced`). Getccb and Putccb contend for a gate that the handler takes over
  and over; the lock is handed out, not withheld for ever: strong fairness there.
  Nothing is assumed of whoever enters requests.
* Power: the life-cycle thread runs, and so does the handler that
  removeEventSource waits for at the gate (`EndAwaited`), weakly. Nothing is assumed of the firmware, and no fairness of the two steps that
  stand for Transition_Firmware: `PowerChangeEnds` is stated for behaviours in which
  it is left whenever it is entered (`TransitionsEnd`), and then follows from the
  limits in MRAID_Poll and MRAID_Exec.
* Watchdog, feeder: time passes; kernel thread and program run when they are
  scheduled; a sleeping system wakes up. `FeederTick` waits for a program that is
  `Ready`, which is to say that a scheduled program is served within one tick.
* Firmware: the driver's thread runs. Nothing is assumed of the firmware; `Ends`
  says that only a firmware that moves or scans for ever keeps the driver.
* SMBus: callers run and release the lock they took; the controller ends
  transactions, interrupts are served. Weak fairness is enough, since a caller
  that has the lock gives it back. Nothing makes a caller give up.

### Conditions in the properties

`NothingLost` and `PostedToLive` are stated for histories that are `smooth` (no
request failed or was late) and `drained` (no task or command of a program was
under way when a change began, and no program came to a termination); `NoStaleSource`, `RepliesHandledOnce`, `GoneIsQuiet` and `ExecHasListener`
for smooth ones. Dropping the condition makes TLC find the behaviours of
section 5. The model includes the failing behaviours either way, and
`PowerChangeEnds` is checked over all of them.

`RealStates`, `AutoIsAuto` and `DutyOnlyManual` leave out, until SetPwmMode comes to
them again, the PWMs a transaction without effect was about (`spoiled`), those that
GetConf and SetPwmMode had in hand at once, and those of a bit that the
read-modify-write of one took from the other (`overlapped`), as long as nobody
has them in hand (`Settled`). For these the code gives no promise (section 5).
`TruthfulReturn`, `ReadFresh` and `BufferLive` are about runs without faults;
`NoResetWhileFed` leaves out a program that is slow between arming and scheduling
its first reload, `TermIsSafe` signals nobody caught.

## 4. The proofs

`tlapm <module>` for `MegaRAIDCommands_proofs`, `MegaRAIDService_proofs`,
`MegaRAIDPower_proofs`, `FirmwareTransition_proofs`, `FrameLayout_proofs`, `WatchdogProofs`,
`SMBus_proofs` and `FanControl_proofs`.

### Command path

For any finite sets of ccbs, tasks and managers, any reserve, both interrupt
kinds and both work-loop arrangements, under `Prompt` (replies in time, no signals):

| Theorem | Result |
|---|---|
| `Inductive` | `Spec => []IInv` |
| `TypeCorrect` | `[]TypeOK` |
| `CcbsExclusive` | `[]Exclusive` |
| `RepliesReachOwners` | `[]RepliesOwned` |
| `QueueNeverOverruns` | `[]QueueWindow` |
| `ReserveSuffices` | `[]PoolNeverEmpty`, if there are no more managers than reserved ccbs |
| `ServiceImplemented` | `ImplementsService` |
| `NothingStranded` | `[]NoStrandedReply`; does not need `Prompt` |
| `RequestsReturn` | `EveryRequestReturns`, under the premises given below |

`RepliesOwned` is not inductive: a reply appears because a frame was posted, so
ownership has to be known of posted frames too. `IInv` therefore says of every
ccb that is *pending* (posted, in a slot, or being called back) that its context
names the thread that holds it, that this thread waits, and that the completion
routine fits the way it waits (`PendingOwned`); that a ccb is in one of these
places only and there once (`PendingOnce`); that a thread holds a ccb exactly
while it is past Getccb (`Holding`), and has filled it before the post
(`Filled`); and which of the handler's locals are set when (`HandlerLocals`).
`Prompt` is needed in one place, Deadline: the sleeper that leaves has been
called back, so its ccb is not pending.

`QueueWindow` needs an argument about capacity. When the firmware is about to
publish a reply for a frame, that frame is posted and so in no slot; the replies
in the queue are distinct ccbs (`PendingOnce`), hence at most `MaxCmds - 1`,
while there are `MaxCmds` slots besides the producer's: one of them is empty
(lemma `SpareSlot`, by cardinalities). The window then cannot be full, and the
producer's advance does not meet the read position. `SameAdvance` shows the two
wrap-arounds agree. The handler's snapshot of the producer index stays inside
the window (`SnapshotInWindow`).

`ReserveSuffices` counts. A ccb is in the pool or with a thread (`Conserved`),
and the tasks are no more than the family was told it may send (`TasksBounded`).
So the holders map onto the ccbs; with the pool empty and one thread still
waiting in Getccb there would be more ccbs than holders.

`ServiceImplemented` maps what a thread does onto the abstract request: the
phase from where the thread is and whether its ccb is still pending, the verdict
from the status in its frame. The steps of handler and firmware that concern
nobody's request are stutters. Beside `IInv` it needs that a sleeper that was
woken, or leaves, has been answered (`AwakeReplied`), and that whoever is in
Putccb knows its answer (`PutKnows`).

`NothingStranded` is about both kinds of interrupt at once: with MSI, besides the
property itself, a status that is set has signalled the source or the handler is
about to acknowledge it (`Notified`).

`RequestsReturn` is the liveness of the path: under the fairness of section 3,
with no more managers than reserved ccbs, commands counted in 16 bits (MAXCMD
of the firmware's state register, `SASMegaRAID.cpp` 355) and `OnlyGateBlocks`, whoever
enters leaves. A thread goes through its stages one by one. In Getccb the pool
is never empty (`ReserveSuffices`) and the gate is free again and again, since a
handler that has begun ends; strong fairness does the rest. The frame of a
sleeper is in one of four places: with the firmware, in the queue, in a slot the
handler has in view, or being called back (`CcbTravels`). In the queue, something
makes the handler look (`Notified`). A handler that has the slot in view does not pass it over
(`SightedStep`) and has only so many turns to make (`TurnsCounted`), so it calls
the ccb back before it ends. Then the thread was woken, or its wake-up came too
early and its deadline lets it go. `PathInv` joins `IInv`, the window and
`Notified`, and says that whoever waits has its ccb under way or was told
(`Owed`).

### Power

For any number of sleeps, tasks and programs, and both kinds of interrupt:
`PowerTyped` (`TypeOK`, whatever fails) and, under the conditions of section 3,
`WritesSurvive`, `OnlyToLive`, `SourcesFresh`, `HandledOnce`, `QuietWhenGone` and
`ListenerForExec`, one for each safety property of the run.

For the types one has to know that a source in the chain of the driver's work
loop has both its retains, however many changes failed before (`SourceTyped`), and
that there is one source for each sleep and one for Attach (`SourceCount`).

None of the others is inductive. `PIInv` says of smooth histories where in its
chain the life-cycle thread is for which state of everything it believes in: the
source, the flag and the controller's mask (`OneSource`), the command
(`OnTime`), the firmware and EnteredSleep (`FirmwareKnown`), and, if drained, the
cache and the requests under way (`NothingBehind`). EnteredSleep is what keeps
requests out from a sleep to the end of the wake-up; that is the step in which
`NothingBehind` is kept. The proof also covers line interrupts, where the
source is enabled at its creation; the run has MSI.

`ChangesEnd` (`PowerChangeEnds`, under `NeverHeldUp` and the fairness of section 3)
is about changes whose Transition_Firmware ends; its own end is `TransitionEnds`
below. What is left follows from a measure, `Distance`, of at most ten steps: two for each command still ahead,
which is sent and answered, and two for the removal of the source, whose handler
ends first. No other actor makes it larger (`DistanceKept`); the thread's own step,
or the end of the handler it waits for, makes it smaller (`DistanceFalls`).

### Watchdog

`FeedingNeverLate`: for both versions, every `Timeout` in the documented range
and every width of the arithmetic that holds its products, a self-feeding driver
never resets a running kernel. Lemma `IntervalFits` compares the interval of the
thread, whole ticks of `Timeout - 2` seconds, with the programmed countdown, one
for version 2 and two for version 1. The invariant `FeedIInv` says the thread's
remaining sleep is shorter than the rest of the countdown, plus a whole countdown
while version 1 has its first one still running. Sleep and wake-up keep it since
arming restarts the countdown. (`FeedingInvariant` is the invariant itself.)

`LeftAsFound`: what the driver took away from the firmware's SMI enables it
remembers until it has put it back (`Remembered`); without the workaround, and if
the firmware lets the driver enable reboots, nothing else of SMI_EN is changed
either, so that it ends as it was found, bit for bit. free_common may run twice, at
shutdown and in free; the second time there is nothing left to remember.

The feeder, `FeederTyped` aside, has two theorems. `FedNeverReset`, for version 2,
every documented `Timeout` and whatever launchd does: once the program runs, its
next reload is nearer than the end of the countdown (`ReloadInTime`); between
arming and the first reload nothing bounds it, which is what `lateStart` excepts.
Version 1 is left out since arming does not clear the timeout status (section 5).
`TermNeverReset`, for both versions and every `Timeout`: after a SIGTERM the
program's next start is nearer than the end of any countdown, which a wake-up
may have begun (`RestartInTime`). It takes `KeepAlive` and a `RestartDelay` below
the programmed value; `RestartDelay = 12` in the run's cfg has TLC find the reset.

`HaltEndsInReset` and `StallEndsInReset` prove `HaltResets` and `StallResets` for
both versions and every `Timeout`, under the premises that the timer of a halted
or stalled machine can count (`HaltedTimerRuns`, `StalledTimerRuns`). What is left of
the countdowns until a reset (`TicksLeft`) becomes less with each tick and changes
with nothing else, since whoever could reload no longer runs.

How soon, in seconds, is `ResetOnTime`: for every documented `Timeout` and both versions
the reset of a halted kernel is never further away than `Timeout` seconds
(`WithinTimeout`), and each tick brings it nearer (`CountsDown`). It rests on
`SettingAccurate`: tcoWdSetTimer, which rounds down twice, never programs more than
`Timeout`, and less than a second less on version 2, at most one second less on version 1. (`LoadedInductive` says that
no register ever holds more than that setting.) `TimeleftReported` is about
readTimeleft of the debug build: right on version 1, and on version 2 as long as
fewer than 256 ticks are left (section 5).

### SMBus

For any callers and serial numbers. Whatever faults a run has: `BusTyped` and
`NobodyDisturbs`, from the lock having at most one caller past it (`Alone`) and
the look at the host status before the registers are written (`IdleBus`).
Without faults: `ReturnsTruthful`, `ReadsFresh` and `BuffersLive`. Their invariant
`Progress` gives the stages of the one transaction under way (`Started`,
`Signalled`, `Told`, `Over`) and what registers, event and buffer hold in each:
traces of the transaction before it, a late wake-up or an old marker, are what
it excludes.

`BusImplemented` is the refinement of `BusService`, with and without faults. A
transaction counts as asked from the look at the host status to the return of
I2CExec, and as run from the moment the controller took back its busy bit; all
between the two is invisible to the service. Each action of callers, controller,
filter and handler is shown to be one step of the service or none. Return is the
step that needs `Progress`: status and bytes have come through `fSt`, `I2C_Transfer` and
the caller's buffer by then, all of which the transaction before had used too.

`ExecReturns`: every call returns, without a deadline, under weak fairness and
`NobodyStuck`. It is a chain of stages as well: the controller ends the
transaction, its interrupt passes the filter, the handler goes through its three
parts, and the caller finds the event set or is woken.

### Fans

For every board with one fan per PWM and no sensor without a key before a fan
that another fan follows (`SoundBoard`), whatever transactions have no effect, and
with SetPwmMode between any two steps of GetConf: `FansTyped`, `ModesAreReal`,
`NoFanLeftStanding` and `DutyToManual`, which except what section 3 names;
`SpeedsEncodedOnce` for every board. The invariant behind the first ones,
`ModesIInv` (`ModesInductive`), says of every fan of a sound PWM what its published
mode and the configuration of its PWM have to do with each other (`Right`), what
GetConf and SetPwmMode have in their locals half-way (`Turns`, `Walks`), that two
which have one PWM in hand are known (`Overlaps`), and what a PWM the SMC has
commanded looks like (`Told`).

The second condition is exact. `WalkFindsFans`: SetPwmMode's walk, which steps over
bits and sensors together and looks for a key only at bits that differ, meets the
right sensor for every set of bits if and only if there is no such gap (`NoGaps`).
This holds for boards of any length. The walk is a recursive function; what it does is
proved from the least bit at which it would do something else (lemma `Least`,
`WalkStops`). In the other direction the last fan's bit alone
makes the walk go wrong: with a gap there is a fan on a sensor from that bit's number
on, which the walk takes for the last. A gap before the last
fan alone does no harm: that fan is looked for at its own bit, and none comes after.

### Firmware

For every length of the wait and every range of the count that is longer:
`StuckStoodStill` (a firmware that was given up had not moved for a whole wait)
and `NeverStandoff` (nor had it waited for a doorbell that was not rung), both
from the inductive invariant of `TransitionInductive`. The driver remembers two
register values, while the claim is about everything between them. So the
invariant ties the values to the looks that passed: while the loop of a wait
turns, the firmware has been quiet for as many looks as the loop has turns, or
its register differs from the one the wait began with and will be seen to. For a
scan this needs that the count cannot come round within one wait, which is where
`Slow` and the size of the count are used.

`TransitionEnds` (`Ends`, for a wait of up to 30000 looks; the loop of the code has
at most 180 * 10) assumes a firmware that has come to rest and shows that the
driver then leaves the loop: the looks of this wait and, if the state read at
its beginning was not yet the one at rest, of one more (`StepsLeft`) become fewer with each
step of the driver. Its premise `DriverReady`, that the driver can take its next
step, is implied by the run of `Ends`: a state that is not the last and has no
step of the driver would be the stutter that violates it.

`LoopIsOneStep` is what lets `MegaRAIDPower` take the loop for one step: called in any
state of the firmware, the loop ends as `Outcome` says, on a firmware that
leaves neither READY nor FAULT by itself (`Settles`, the assumption `MegaRAIDPower`
makes of it). The invariant (`AnswersIInv`) keeps the state found at the call: a firmware that was ready
was not left, one at fault was not reported ready, whatever it went through.

### Frames

For both kinds of scatter-list entries:
`SglInsideRegion` (any length the firmware takes: every entry OutputSegment
writes, and all that ccb_frame_size counts, lies in the ccb's own region),
`RegionsDisjoint` (any number of ccbs: no byte in common, low six address bits
clear), `ExtraFramesFit` (with the default MaxSGL the count of extra frames fits
the three bits mraid_xscale_post has for it), `PointedInOneFrame` (PointToData
may leave that count at 0), `InitInside`, and `MemoryHolds` (frames and sense data of every
ccb lie in the memory Attach allocates).
The first rests on `RegionRoom`: rounding the list up and adding a frame leaves
room for the 48 bytes a command takes at most. That the OR of the post encodings
loses nothing when the bits are clear is checked by TLC (`PostsDecode`), since
the bitwise operators are recursive.

`ListTakes` says which limits on transfers keep all of them within a list of m
entries: those of at most one byte more than m - 1 pages, and no others.
`TransferFitsList` concludes that without the option MaxTransferSize, or with one
that respects this, no transfer needs more than sc_max_sgl entries (CreateSGL asserts
it, 1057), whatever the controller says of its stripes. `BlocksAsNamed`: of each of
the four forms of READ and WRITE, IOCmd gets the block and the count that the command
names; for READ(6) this includes the mask that cuts operation code and unit number
off, and a count of 0.

### How liveness is proved

Induction over a natural number inside temporal formulas is out of the prover's
reach (over data, lemma `Least` of `FanControl_proofs` takes its place), so
a leads-to of n steps needs another argument. Each proof has a measure and a lemma that from
n + 1 the system comes to n or less. Where the measure is small the
lemma is cited for each of its values (power, SMBus). Where it is a register or
an index, another lemma says that a system that always comes down by d always
comes down by 2d (`HaltTwice`, `StallTwice`, `LeadsTwice`, `ShortensTwice`); cited
ten to twenty times it reaches the largest value of a 10-bit register, of the
loop index or of a 16-bit count. Fairness of each one of many threads is an operator of
that thread (`Scheduled(th)`), used for one thread at a time.

ENABLED is out of reach for the prover. Each theorem takes as its premise that
the actions it needs are enabled whenever they are wanted, as an invariant by
name; section 3 says how TLC tries it.

### Only model-checked

The premises `OnlyGateBlocks`, `NeverHeldUp`, `HaltedTimerRuns`, `StalledTimerRuns` and
`NobodyStuck`, since they speak of ENABLED; that `Ends` needs no more than the
fairness of the driver; and the posts of `FramePosts`. All properties of
the passing runs are theorems, the liveness ones under these premises.

## 5. Where the code disagrees with what is said of it

Four disagreements have a run that shows them; the texts are in `PROJECT.json`,
"findings":

1. MRAID_Exec asserts that it was awakened, and sleeps without a look at the
   event that was set for it (`commands_awakened`).
2. Attach sends GetInfo "to ensure that interrupts work"; a command that timed
   out counts as successful (`power_attach`).
3. Without self-feeding the timer is said to be left to a program; a wake-up
   arms it in any case (`watchdog_wake`).
4. A signal, or a firmware that takes more than a second, ends the sleep of
   MRAID_Exec; the ccb goes back to the pool while its frame is under way, and the
   late reply finds no completion routine, against `my_assert(ccb->s.ccb_done)`
   (`commands_late`).

Others can be seen by changing a constant of a run or dropping a condition:

* A write of two bytes puts both into the first data register (`ICHSMBus.cpp` 235,
  where HD1 is meant; 216 says "Limited to 2-byte data"): `WriteSent`, named as an
  INVARIANT in `smbus.cfg`, fails.
* GetConf against SetPwmMode (`Andigilog.cpp` 215-232, 252-270): "Return real states"
  (406) does not hold of a PWM both have in hand at once. GetConf reads zone 7 and
  loads pwm_mode, SetPwmMode stores a bit of another fan, GetConf stores over it;
  or SetPwmMode goes to automatic mode between GetConf's read and its store, and
  the bit is set over a PWM that is automatic. Without `overlapped` in `Sound`,
  `RealStates` fails, with `Faulty = FALSE` too.
* Without `drained`, a task that read EnteredSleep in time posts its frame behind
  the flush or behind the hibernate command (1507).
* Without `smooth`, MRAID_Sleep returns early with the event source still live
  and the wake-up creates a second one; a failed wake-up clears EnteredSleep and
  is reported as a success (1098-1117, 1173).
* `Timeout = 700` on version 2: tcoWdSetTimer falls back to the default and the
  thread sleeps 698 s; `ResetOnlyOnHalt` fails (`iTCOWatchdog.cpp` 215).
* The feeder with `Version = 1`: arming leaves the timeout status, so the machine
  may be reset within one countdown of a wake-up (296-309, 418-436).
* MaxSGL above 38 with 64-bit addresses: the count of extra frames needs a fourth
  bit, which mraid_xscale_post ORs into the frame's address (1694). The plist
  calls 33 an example and gives no limit.
* MaxTransferSize above (sc_max_sgl - 1) pages and one byte: Attach does not
  limit it by the list (519-525), so a transfer may need more entries than there are (`ListTakes`);
  GenerateSegments asks for as many as fit and does not look at what is left (569-584).
* `Board <- Common`: two fans on one PWM; `RealStates` fails
  (`Andigilog.cpp` 255-272).
* SMBus without the condition `faults = {}`: `TruthfulReturn`, `ReadFresh` and
  `BufferLive` fail, with late transactions as with alerts (`ICHSMBus.cpp` 79, 260).
* `Stray = TRUE`: a value of FS! with the bit after the last fan's makes SetPwmMode
  read Measures[8]; `AutoIsAuto` fails (`Andigilog.cpp` 245-253). On a board with
  a sensor without key before a fan that another one follows the walk takes one fan
  for another (`WalkFindsFans`); the property lists have none.
* readTimeleft (debug build) keeps the ten bits of version 2's counter in a UInt8:
  with 256 ticks (153.6 s) or more left it reports the rest modulo 256
  (`iTCOWatchdog.cpp` 315, 327).

## 6. What is not modelled

The contents of frames but for scatter lists and blocks; the decoding of controller and battery information; memory allocation and freeing,
except for event sources; the LPC bridge's match table; temperatures, the search
for the chip and the registration of keys in Andigilog; the patches to other
projects; installers and build files.

Andigilog's start and GetConf use ICHSMBus without its lock. Nothing orders such a
caller with the others, and with one every property of `SMBus` fails: its
callers take the lock. `FanControl` has every interleaving of GetConf's steps with
those of the callbacks, but a transaction is whole there: what two that mix in
I2C_Transfer would do to each other is not modelled beyond having no effect.

## 7. Plan

Order: command path first, since data depends on it; then the watchdog, whose
failure resets machines; then the bus and the fans; then power changes; then the
frames, the firmware's transition, the ioctl and the transactions without effect.
All of it is done. What a continuation could take up: GetInfo's and GetBBUInfo's
data, and Andigilog's search for the chip.
