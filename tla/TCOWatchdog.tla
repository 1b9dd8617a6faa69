----------------------------- MODULE TCOWatchdog -----------------------------
(***************************************************************************)
(* The iTCOWatchdog driver and the TCO timer it drives: probing (reboots   *)
(* enabled, SMIs disabled), setting, arming, feeding and halting the       *)
(* timer, the self-feeding kernel thread, system sleep and shutdown.       *)
(* Time passes in timer ticks of 0.6 s.                                    *)
(***************************************************************************)
EXTENDS Integers

CONSTANTS
    Version,      \* itco_version: 1 or 2
    Timeout,      \* the Settings/Timeout option, in seconds
    Default,      \* DEFAULT_TIMEOUT (30 in the driver)
    SelfFeeding,  \* the SelfFeeding option
    Workaround,   \* the UnsafeWorkaroundBIOSBug option
    Word          \* values of a UInt32 (2^32 in the driver)

ITCO_RL_TM_MIN == 4
ITCO_RL_TM_MAX == IF Version = 1 THEN 63 ELSE 1023

(***************************************************************************)
(* tcoWdSetTimer: seconds to ticks in UInt32 arithmetic; a value the       *)
(* register cannot take is replaced by the default.                        *)
(***************************************************************************)
Ticks(time) ==
    LET t == ((time * 5) % Word) \div 3 IN IF Version = 1 THEN t \div 2 ELSE t
Fits(ticks) == ITCO_RL_TM_MIN <= ticks /\ ticks <= ITCO_RL_TM_MAX
Setting(time) == IF Fits(Ticks(time)) THEN Ticks(time) ELSE Ticks(Default)

ASSUME VersionAssumption == Version \in {1, 2}
ASSUME WordAssumption    == Word \in Nat /\ Word > 614 * 5
ASSUME TimeoutAssumption == Timeout \in 0 .. Word - 1
ASSUME DefaultAssumption == Default \in Nat /\ Default < Word /\ Fits(Ticks(Default))
ASSUME OptionsAssumption == SelfFeeding \in BOOLEAN /\ Workaround \in BOOLEAN

\* Mutant of FeedInterval: no margin of two seconds.
FeedIntervalFull == (Timeout * 5 + 2) \div 3

\* How long thread_fcn sleeps: (Timeout - 2) seconds, unsigned, in whole ticks.
FeedInterval == (((Timeout - 2) % Word) * 5 + 2) \div 3

SmiBits == {"gbl", "tco"}

VARIABLES
    tm,           \* ITCO_TM: the value a reload starts from
    count,        \* ticks left in this countdown
    haltedTimer,  \* ITCO_TM_HALT
    timeoutSt,    \* ITCO_TIMEOUT_ST: version 1 has counted down once
    noReboot,     \* the NO_REBOOT flag
    rebooted,     \* the timer has reset the machine
    smien,        \* SMI enable bits
    smiAtBoot,    \* the bits the firmware left (history)
    is_active, SMIWereEnabled, WorkaroundBug,
    life,         \* of the driver
    feedIn,       \* ticks the kernel thread still sleeps
    asleep,       \* the system sleeps
    kernelHalted  \* nothing in the kernel runs any more

timerVars == <<tm, count, haltedTimer, timeoutSt, noReboot, rebooted>>
smiVars   == <<smien, smiAtBoot, SMIWereEnabled, WorkaroundBug>>
envVars   == <<asleep, kernelHalted>>
vars == <<tm, count, haltedTimer, timeoutSt, noReboot, rebooted, smien, smiAtBoot,
          is_active, SMIWereEnabled, WorkaroundBug, life, feedIn, asleep, kernelHalted>>

\* Ticks before a reset; on version 1 a second countdown may follow this one.
TicksLeft == count + (IF Version = 1 /\ ~timeoutSt THEN tm ELSE 0)

\* readTimeleft of the debug build: seconds, from ticks added up in a UInt8.
readTimeleft == ((TicksLeft % 256) * 3) \div 5

\* Code can run: the driver's, its thread's, a program's.
Running == ~asleep /\ ~kernelHalted /\ ~rebooted

-----------------------------------------------------------------------------
(* The operations on the timer.  Each is one critical section.             *)

\* tcoWdEnableTimer; reloadTimer leaves the timeout status alone.
EnableTimer ==
    /\ count' = tm
    /\ haltedTimer' = FALSE
    /\ is_active' = TRUE

DisableTimer ==
    /\ haltedTimer' = TRUE
    /\ is_active' = FALSE

\* tcoWdLoadTimer: version 1 also goes back to its first countdown.
LoadTimer ==
    /\ count' = tm
    /\ timeoutSt' = (timeoutSt /\ Version = 2)

-----------------------------------------------------------------------------
Init ==
    /\ tm = 4 /\ count = 4
    /\ haltedTimer \in BOOLEAN /\ timeoutSt \in BOOLEAN
    /\ noReboot = TRUE /\ rebooted = FALSE
    /\ smien \in SUBSET SmiBits /\ smiAtBoot = smien
    /\ is_active = FALSE /\ SMIWereEnabled = FALSE /\ WorkaroundBug = Workaround
    /\ life = "boot" /\ feedIn = 0
    /\ asleep = FALSE /\ kernelHalted = FALSE

\* probe; enableReboots fails where the firmware locks the NO_REBOOT flag.
Probe ==
    /\ life = "boot"
    /\ \E locked \in BOOLEAN :
          /\ noReboot' = locked
          /\ SMIWereEnabled' = (~locked /\ ~WorkaroundBug /\ "tco" \in smien)
          /\ smien' = IF locked THEN smien \cup {"tco"}
                      ELSE IF WorkaroundBug THEN smien \ {"tco", "gbl"}
                      ELSE smien \ {"tco"}
    /\ timeoutSt' = FALSE
    /\ DisableTimer
    /\ life' = "probed"
    /\ UNCHANGED <<tm, count, rebooted, smiAtBoot, WorkaroundBug, feedIn, envVars>>

\* Mutant of Start: the timer is set and the thread created, nothing armed.
StartUnarmed ==
    /\ life = "probed" /\ Running
    /\ life' = "started"
    /\ tm' = IF SelfFeeding THEN Setting(Timeout) ELSE tm
    /\ feedIn' = IF SelfFeeding THEN FeedInterval ELSE feedIn
    /\ UNCHANGED <<count, haltedTimer, is_active, timeoutSt, noReboot, rebooted, smiVars, envVars>>

\* start: a self-feeding driver arms the timer and creates its thread.
Start ==
    /\ life = "probed" /\ Running
    /\ life' = "started"
    /\ IF SelfFeeding
         THEN /\ tm' = Setting(Timeout)
              /\ count' = Setting(Timeout)
              /\ haltedTimer' = FALSE
              /\ is_active' = TRUE
              /\ feedIn' = FeedInterval
         ELSE UNCHANGED <<tm, count, haltedTimer, is_active, feedIn>>
    /\ UNCHANGED <<timeoutSt, noReboot, rebooted, smiVars, envVars>>

\* thread_fcn after IOSleep.
Feed ==
    /\ SelfFeeding /\ life = "started" /\ Running /\ feedIn = 0
    /\ LoadTimer
    /\ feedIn' = FeedInterval
    /\ UNCHANGED <<tm, haltedTimer, noReboot, rebooted, smiVars, is_active, life, envVars>>

\* setPowerState.
SystemSleep ==
    /\ life = "started" /\ Running
    /\ DisableTimer
    /\ asleep' = TRUE
    /\ UNCHANGED <<tm, count, timeoutSt, noReboot, rebooted, smiVars, life, feedIn, kernelHalted>>

SystemWake ==
    /\ asleep
    /\ EnableTimer
    /\ asleep' = FALSE
    /\ UNCHANGED <<tm, timeoutSt, noReboot, rebooted, smiVars, life, feedIn, kernelHalted>>

\* Mutant of Shutdown: free_common forgets the SMIs it found enabled.
ShutdownNoSmi ==
    /\ life # "boot" /\ Running
    /\ IF is_active THEN DisableTimer ELSE UNCHANGED <<haltedTimer, is_active>>
    /\ smien' = IF WorkaroundBug THEN smien \cup SmiBits ELSE smien
    /\ timeoutSt' = (timeoutSt /\ ~(WorkaroundBug \/ SMIWereEnabled))
    /\ WorkaroundBug' = FALSE
    /\ SMIWereEnabled' = (WorkaroundBug /\ SMIWereEnabled)
    /\ life' = "stopped"
    /\ feedIn' = 0
    /\ UNCHANGED <<tm, count, noReboot, rebooted, smiAtBoot, envVars>>

\* systemWillShutdown, and free after it: free_common.
Shutdown ==
    /\ life # "boot" /\ Running
    /\ IF is_active THEN DisableTimer ELSE UNCHANGED <<haltedTimer, is_active>>
    /\ smien' = IF WorkaroundBug THEN smien \cup SmiBits
                ELSE IF SMIWereEnabled THEN smien \cup {"tco"} ELSE smien
    /\ timeoutSt' = (timeoutSt /\ ~(WorkaroundBug \/ SMIWereEnabled))
    /\ WorkaroundBug' = FALSE
    /\ SMIWereEnabled' = (WorkaroundBug /\ SMIWereEnabled)
    /\ life' = "stopped"
    /\ feedIn' = 0
    /\ UNCHANGED <<tm, count, noReboot, rebooted, smiAtBoot, envVars>>

-----------------------------------------------------------------------------
(* The hardware and the kernel around the driver                           *)

\* One tick of the timer; version 1 resets at the end of its second countdown.
Countdown ==
    IF haltedTimer THEN UNCHANGED <<count, timeoutSt, rebooted>>
    ELSE IF count > 1 THEN count' = count - 1 /\ UNCHANGED <<timeoutSt, rebooted>>
    ELSE /\ count' = tm
         /\ timeoutSt' = TRUE
         /\ rebooted' = (~noReboot /\ (Version = 2 \/ timeoutSt))

\* Time passes; a thread whose sleep is over runs first.
Tick ==
    /\ life # "boot" /\ ~asleep /\ ~rebooted
    /\ SelfFeeding /\ life = "started" /\ ~kernelHalted => feedIn > 0
    /\ Countdown
    /\ feedIn' = IF feedIn > 0 /\ ~kernelHalted THEN feedIn - 1 ELSE feedIn
    /\ UNCHANGED <<tm, haltedTimer, noReboot, smiVars, is_active, life, envVars>>

KernelHalt ==
    /\ life = "started" /\ Running
    /\ kernelHalted' = TRUE
    /\ UNCHANGED <<timerVars, smiVars, is_active, life, feedIn, asleep>>

Next ==
    \/ Probe \/ Start \/ Feed \/ SystemSleep \/ SystemWake \/ Shutdown
    \/ Tick \/ KernelHalt

Spec == Init /\ [][Next]_vars

\* Time passes, the driver is started, and a system that sleeps wakes up.
FairSpec ==
    Spec /\ WF_vars(Probe) /\ WF_vars(Start) /\ WF_vars(Feed) /\ WF_vars(SystemWake) /\ WF_vars(Tick)

-----------------------------------------------------------------------------
\* The values every variable may take.
TypeOK ==
    /\ tm \in 1 .. ITCO_RL_TM_MAX /\ count \in 1 .. ITCO_RL_TM_MAX
    /\ {haltedTimer, timeoutSt, noReboot, rebooted, is_active, SMIWereEnabled,
        WorkaroundBug, asleep, kernelHalted} \subseteq BOOLEAN
    /\ smien \subseteq SmiBits /\ smiAtBoot \subseteq SmiBits
    /\ life \in {"boot", "probed", "started", "stopped"}
    /\ feedIn \in Nat

(***************************************************************************)
(* SelfFeeding: the device resets the machine on a kernel halt and at no   *)
(* other time, through sleeps, wake-ups and shutdowns (thread_fcn against  *)
(* the timer that tcoWdSetTimer programmed).                               *)
(***************************************************************************)
ResetOnlyOnHalt == SelfFeeding /\ rebooted => kernelHalted

(***************************************************************************)
(* SelfFeeding: a halted kernel is reset, unless the firmware keeps the    *)
(* NO_REBOOT flag (enableReboots).                                         *)
(***************************************************************************)
HaltResets == (SelfFeeding /\ kernelHalted /\ ~noReboot) ~> rebooted

(***************************************************************************)
(* A premise of liveness, which says when the tick is enabled.  Whatever   *)
(* state the driver was in when the kernel halted, time passes for the     *)
(* timer it armed: no sleep, wake-up or feeding left it halted.            *)
(***************************************************************************)
HaltedTimerRuns == SelfFeeding /\ kernelHalted /\ ~rebooted => ENABLED <<Tick>>_vars

(***************************************************************************)
(* probe and free_common: a driver that has stopped leaves no timer        *)
(* running and has lost no SMI enable bit the firmware had set; and where  *)
(* it enabled reboots without the workaround, at shutdown and again in     *)
(* free, the bits are exactly the ones it found.                           *)
(***************************************************************************)
LeavesAsFound ==
    life = "stopped" =>
        /\ haltedTimer
        /\ smiAtBoot \subseteq smien
        /\ ~Workaround /\ ~noReboot => smien = smiAtBoot

(***************************************************************************)
(* "If false, it's expected that userspace app will do init": without      *)
(* self-feeding and without any program, the timer is not armed.           *)
(***************************************************************************)
ArmedOnDemand == ~SelfFeeding /\ life = "started" => haltedTimer

-----------------------------------------------------------------------------
\* "Range constraints depend on TCO WDT device version": [3..614] or [5..76].
DocumentedRange == IF Version = 1 THEN 5 .. 76 ELSE 3 .. 614

(***************************************************************************)
(* The inductive invariant behind ResetOnlyOnHalt: the thread wakes up     *)
(* before the countdown, the second one on version 1, is over.             *)
(***************************************************************************)
TimerFlags ==
    /\ haltedTimer \in BOOLEAN /\ timeoutSt \in BOOLEAN /\ rebooted \in BOOLEAN
    /\ life \in {"boot", "probed", "started", "stopped"}
    /\ life # "boot" => (is_active <=> ~haltedTimer)
    /\ life \in {"boot", "probed", "stopped"} => ~rebooted /\ ~asleep /\ ~kernelHalted
    /\ life \in {"probed", "stopped"} => haltedTimer
    /\ life = "probed" => ~timeoutSt
FeedsInTime ==
    life = "started" /\ ~kernelHalted =>
        /\ ~rebooted
        /\ tm = Setting(Timeout) /\ count \in 1 .. tm
        /\ feedIn \in Nat
        /\ feedIn < count + (IF Version = 1 /\ ~timeoutSt THEN tm ELSE 0)
FeedIInv == TimerFlags /\ FeedsInTime
=============================================================================
