---------------------------- MODULE WatchdogFeeder ----------------------------
(***************************************************************************)
(* The user-space "Watchdog Feeder" on top of the driver (SelfFeeding      *)
(* false): its start-up, which programs and arms the timer through         *)
(* setProperties before it installs its signal handlers, its periodic      *)
(* reload, and its signals; launchd starts it and keeps it alive.          *)
(***************************************************************************)
EXTENDS TCOWatchdog

CONSTANTS
    KeepAlive,   \* launchd restarts the program when it is gone
    RestartDelay \* after so many ticks at the most

ASSUME LaunchdAssumption == KeepAlive \in BOOLEAN /\ RestartDelay \in Nat

VARIABLES
    fpc,         \* where the program is
    handlers,    \* the signals whose handler is installed
    boneIn,      \* ticks until the NSTimer fires
    restartIn,   \* ticks until launchd starts the program again
    stalled,     \* the program is not scheduled
    disarmed,    \* its last act was to disable the timer (history)
    lateStart    \* time passed between Arm and Install (history)

feederVars == <<fpc, handlers, boneIn, restartIn, stalled, disarmed, lateStart>>
allVars == <<vars, feederVars>>

FeederInit ==
    /\ Init
    /\ fpc = "dead" /\ handlers = {} /\ boneIn = 0 /\ restartIn = 0
    /\ stalled = FALSE /\ disarmed = FALSE /\ lateStart = FALSE

\* The program can take a step of its own.
Scheduled == Running /\ ~stalled

-----------------------------------------------------------------------------
(* The program                                                             *)

\* launchd starts it; init finds the driver once that is registered.
Launch ==
    /\ fpc = "dead" /\ restartIn = 0 /\ Running /\ life = "started"
    /\ fpc' = "found"
    /\ disarmed' = FALSE /\ lateStart' = FALSE
    /\ UNCHANGED <<vars, handlers, boneIn, restartIn, stalled>>

SetTimer ==
    /\ fpc = "found" /\ Scheduled
    /\ tm' = Setting(Timeout)
    /\ fpc' = "set"
    /\ UNCHANGED <<count, haltedTimer, timeoutSt, noReboot, rebooted, smiVars, is_active,
                   life, feedIn, envVars, handlers, boneIn, restartIn, stalled, disarmed, lateStart>>

Arm ==
    /\ fpc = "set" /\ Scheduled
    /\ EnableTimer
    /\ fpc' = "armed"
    /\ UNCHANGED <<tm, timeoutSt, noReboot, rebooted, smiVars, life, feedIn, envVars,
                   handlers, boneIn, restartIn, stalled, disarmed, lateStart>>

\* Only now the signals are caught, and the NSTimer is scheduled.
Install ==
    /\ fpc = "armed" /\ Scheduled
    /\ handlers' = {"INT", "TERM"}
    /\ boneIn' = FeedInterval
    /\ fpc' = "running"
    /\ UNCHANGED <<vars, restartIn, stalled, disarmed, lateStart>>

\* Mutant of Bone: the reload does not depend on the program being scheduled.
BoneUnscheduled ==
    /\ fpc = "running" /\ Running /\ boneIn = 0
    /\ LoadTimer
    /\ boneIn' = FeedInterval
    /\ lateStart' = FALSE
    /\ UNCHANGED <<tm, haltedTimer, noReboot, rebooted, smiVars, is_active, life, feedIn,
                   envVars, fpc, handlers, restartIn, stalled, disarmed>>

Bone ==
    /\ fpc = "running" /\ Scheduled /\ boneIn = 0
    /\ LoadTimer
    /\ boneIn' = FeedInterval
    /\ lateStart' = FALSE
    /\ UNCHANGED <<tm, haltedTimer, noReboot, rebooted, smiVars, is_active, life, feedIn,
                   envVars, fpc, handlers, restartIn, stalled, disarmed>>

Die ==
    /\ fpc' = "dead"
    /\ handlers' = {}
    /\ boneIn' = 0
    /\ restartIn' = RestartDelay

\* Mutant of Caught: the program exits without disabling the timer.
CaughtOnlyExits(sig) ==
    /\ sig \in handlers /\ Scheduled
    /\ IF sig = "TERM" THEN Die /\ disarmed' = TRUE
       ELSE handlers' = handlers \ {sig} /\ UNCHANGED <<fpc, boneIn, restartIn, disarmed>>
    /\ UNCHANGED <<vars, stalled, lateStart>>

\* disable: SIGTERM exits, SIGINT goes on and takes its default from then on.
Caught(sig) ==
    /\ sig \in handlers /\ Scheduled
    /\ DisableTimer
    /\ IF sig = "TERM" THEN Die /\ disarmed' = TRUE
       ELSE handlers' = handlers \ {sig} /\ UNCHANGED <<fpc, boneIn, restartIn, disarmed>>
    /\ UNCHANGED <<tm, count, timeoutSt, noReboot, rebooted, smiVars, life, feedIn,
                   envVars, stalled, lateStart>>

\* Nobody catches the signal: the timer stays as it is.
Uncaught(sig) ==
    /\ fpc # "dead" /\ sig \notin handlers /\ Running
    /\ Die
    /\ stalled' = FALSE
    /\ UNCHANGED <<vars, disarmed, lateStart>>

\* The scheduler fails the program, or remembers it.
Stall ==
    /\ fpc # "dead" /\ Running
    /\ stalled' = ~stalled
    /\ UNCHANGED <<vars, fpc, handlers, boneIn, restartIn, disarmed, lateStart>>

-----------------------------------------------------------------------------
\* The program has something to do now, or launchd has.
Ready ==
    \/ Scheduled /\ (fpc \in {"found", "set", "armed"} \/ (fpc = "running" /\ boneIn = 0))
    \/ fpc = "dead" /\ KeepAlive /\ restartIn = 0 /\ Running /\ life = "started"

CountTo0(n) == IF n > 0 THEN n - 1 ELSE 0

FeederTick ==
    /\ Tick /\ ~Ready
    /\ boneIn' = CountTo0(boneIn)
    /\ restartIn' = CountTo0(restartIn)
    /\ lateStart' = (lateStart \/ fpc = "armed")
    /\ UNCHANGED <<fpc, handlers, stalled, disarmed>>

Signals == {"INT", "TERM", "KILL"}

FeederNext ==
    \/ Launch \/ SetTimer \/ Arm \/ Install \/ Bone \/ Stall
    \/ \E sig \in Signals : Caught(sig) \/ Uncaught(sig)
    \/ FeederTick
    \/ Shutdown /\ fpc = "dead" /\ UNCHANGED feederVars
    \/ (Probe \/ Start \/ SystemSleep \/ SystemWake \/ KernelHalt) /\ UNCHANGED feederVars

FeederSpec == FeederInit /\ [][FeederNext]_allVars

FairFeederSpec ==
    /\ FeederSpec
    /\ WF_allVars(Probe /\ UNCHANGED feederVars) /\ WF_allVars(Start /\ UNCHANGED feederVars)
    /\ WF_allVars(SystemWake /\ UNCHANGED feederVars)
    /\ WF_allVars(FeederTick) /\ WF_allVars(Launch)
    /\ WF_allVars(SetTimer \/ Arm \/ Install \/ Bone)

-----------------------------------------------------------------------------
\* The values every variable may take.
FeederTypeOK ==
    /\ TypeOK
    /\ fpc \in {"dead", "found", "set", "armed", "running"}
    /\ handlers \subseteq {"INT", "TERM"}
    /\ boneIn \in 0 .. FeedInterval /\ restartIn \in 0 .. RestartDelay
    /\ stalled \in BOOLEAN /\ disarmed \in BOOLEAN /\ lateStart \in BOOLEAN

(***************************************************************************)
(* README, "reboot will also occur on process scheduling failure": a       *)
(* program that is alive and scheduled, and reloads every Timeout - 2      *)
(* seconds, is never answered with a reset, through signals, restarts and  *)
(* sleeps.  (One that is slow between arming and scheduling its first      *)
(* reload may be.)                                                         *)
(***************************************************************************)
NoResetWhileFed == rebooted /\ fpc # "dead" => stalled \/ kernelHalted \/ lateStart

(***************************************************************************)
(* disable, "For launchd": a SIGTERM the program caught never ends in a    *)
(* reset, not even when a wake-up has armed the timer behind its back.     *)
(***************************************************************************)
TermIsSafe == rebooted /\ disarmed => kernelHalted

\* A premise of liveness, which says when the tick is enabled: time passes for
\* the timer while the program is stalled; nothing that the program or launchd
\* still has to do comes before it.
StalledTimerRuns ==
    ~SelfFeeding /\ stalled /\ ~haltedTimer /\ ~rebooted => ENABLED <<FeederTick>>_allVars

(***************************************************************************)
(* A program that stays stalled under an armed timer is answered with a    *)
(* reset, if the firmware let the driver enable reboots.                   *)
(***************************************************************************)
StallResets == <>[](stalled /\ ~haltedTimer /\ ~noReboot) => <>rebooted
=============================================================================
