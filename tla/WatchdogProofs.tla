--------------------------- MODULE WatchdogProofs ---------------------------
(***************************************************************************)
(* Proofs about TCOWatchdog: a self-feeding driver whose Timeout is in the *)
(* documented range never resets a kernel that runs, and a driver leaves   *)
(* the SMI enables as it found them.  About WatchdogFeeder: a program that *)
(* is fed and scheduled is never reset, nor is one that SIGTERM ended.     *)
(***************************************************************************)
EXTENDS WatchdogFeeder, TLAPS

USE VersionAssumption, WordAssumption, TimeoutAssumption, OptionsAssumption
USE DefaultAssumption, LaunchdAssumption

\* The thread sleeps for less than the timer takes, two countdowns on version 1.
LEMMA IntervalFits ==
    ASSUME Timeout \in DocumentedRange
    PROVE  /\ Setting(Timeout) \in ITCO_RL_TM_MIN .. ITCO_RL_TM_MAX
           /\ FeedInterval \in Nat
           /\ FeedInterval < Setting(Timeout) + (IF Version = 1 THEN Setting(Timeout) ELSE 0)
<1>1. Timeout \in 3 .. 614 /\ (Version = 1 => Timeout \in 5 .. 76)
  BY DEF DocumentedRange
<1>2. (Timeout * 5) % Word = Timeout * 5 /\ (Timeout - 2) % Word = Timeout - 2
  BY <1>1
<1>3. Ticks(Timeout) = IF Version = 1 THEN ((Timeout * 5) \div 3) \div 2 ELSE (Timeout * 5) \div 3
  BY <1>2 DEF Ticks
<1>4. FeedInterval = ((Timeout - 2) * 5 + 2) \div 3
  BY <1>2 DEF FeedInterval
<1>5. Fits(Ticks(Timeout)) /\ Ticks(Timeout) \in Nat
  BY <1>1, <1>3 DEF Fits, ITCO_RL_TM_MIN, ITCO_RL_TM_MAX
<1>6. Setting(Timeout) = Ticks(Timeout)
  BY <1>5 DEF Setting
<1>7. FeedInterval \in Nat /\ FeedInterval < Ticks(Timeout) + (IF Version = 1 THEN Ticks(Timeout) ELSE 0)
  BY <1>1, <1>3, <1>4
<1> QED BY <1>5, <1>6, <1>7 DEF Fits, ITCO_RL_TM_MIN, ITCO_RL_TM_MAX

\* The flags of timer and driver agree, whoever feeds the timer.
LEMMA FlagsStep == ASSUME TimerFlags, [Next]_vars PROVE TimerFlags'
<1> USE DEF Running, envVars, smiVars, timerVars
<1>1. CASE Probe
  BY <1>1 DEF Probe, DisableTimer, TimerFlags
<1>2. CASE Start
  BY <1>2 DEF Start, TimerFlags
<1>3. CASE Feed
  BY <1>3 DEF Feed, LoadTimer, TimerFlags
<1>4. CASE SystemSleep
  BY <1>4 DEF SystemSleep, DisableTimer, TimerFlags
<1>5. CASE SystemWake
  BY <1>5 DEF SystemWake, EnableTimer, TimerFlags
<1>6. CASE Shutdown
  BY <1>6 DEF Shutdown, DisableTimer, TimerFlags
<1>7. CASE Tick
  BY <1>7 DEF Tick, Countdown, TimerFlags
<1>8. CASE KernelHalt
  BY <1>8 DEF KernelHalt, TimerFlags
<1>9. CASE UNCHANGED vars
  BY <1>9 DEF vars, TimerFlags
<1> QED BY <1>1, <1>2, <1>3, <1>4, <1>5, <1>6, <1>7, <1>8, <1>9 DEF Next

LEMMA FeedInit == Init => FeedIInv
BY DEF Init, FeedIInv, TimerFlags, FeedsInTime

LEMMA FeedStep ==
    ASSUME Timeout \in DocumentedRange, SelfFeeding, FeedIInv, [Next]_vars
    PROVE  FeedIInv'
<1>0. /\ Setting(Timeout) \in Nat /\ Setting(Timeout) >= 4
      /\ FeedInterval \in Nat
      /\ FeedInterval < Setting(Timeout) + (IF Version = 1 THEN Setting(Timeout) ELSE 0)
  BY IntervalFits DEF ITCO_RL_TM_MIN, ITCO_RL_TM_MAX
<1>t. TimerFlags /\ FeedsInTime
  BY DEF FeedIInv
<1>f. TimerFlags'
  BY <1>t, FlagsStep
<1> SUFFICES FeedsInTime'
  BY <1>f DEF FeedIInv
<1> USE DEF Running, envVars, smiVars, timerVars
<1>1. CASE Probe
  BY <1>1, <1>t DEF Probe, DisableTimer, TimerFlags, FeedsInTime
<1>2. CASE Start
  <2>2. /\ tm' = Setting(Timeout) /\ count' = Setting(Timeout) /\ feedIn' = FeedInterval
        /\ timeoutSt' = FALSE /\ rebooted' = rebooted /\ ~rebooted
    BY <1>2, <1>t DEF Start, TimerFlags
  <2>3. feedIn' < count' + (IF Version = 1 /\ ~timeoutSt' THEN tm' ELSE 0)
    BY <1>0, <2>2
  <2>4. tm' = Setting(Timeout) /\ count' \in 1 .. tm' /\ feedIn' \in Nat
    BY <1>0, <2>2
  <2> QED BY <2>2, <2>3, <2>4 DEF FeedsInTime
<1>3. CASE Feed
  BY <1>0, <1>3, <1>t DEF Feed, LoadTimer, TimerFlags, FeedsInTime
<1>4. CASE SystemSleep
  BY <1>4, <1>t DEF SystemSleep, DisableTimer, TimerFlags, FeedsInTime
<1>5. CASE SystemWake
  <2>2. count' = tm /\ UNCHANGED <<tm, timeoutSt, rebooted, life, feedIn, kernelHalted>>
    BY <1>5 DEF SystemWake, EnableTimer
  <2> QED BY <1>0, <1>t, <2>2 DEF FeedsInTime, TimerFlags
<1>6. CASE Shutdown
  BY <1>6, <1>t DEF Shutdown, DisableTimer, TimerFlags, FeedsInTime
<1>7. CASE Tick
  <2>1. UNCHANGED <<tm, haltedTimer, is_active, life, asleep, kernelHalted>> /\ life # "boot"
    BY <1>7 DEF Tick
  <2>5. life = "started" /\ ~kernelHalted =>
            feedIn \in Nat /\ feedIn > 0 /\ feedIn' = feedIn - 1
    BY <1>7, <1>t DEF Tick, FeedsInTime
  <2>2. CASE haltedTimer
    <3>1. UNCHANGED <<count, timeoutSt, rebooted>>
      BY <1>7, <2>2 DEF Tick, Countdown
    <3> QED BY <1>0, <1>t, <2>1, <2>5, <3>1 DEF FeedsInTime
  <2>3. CASE ~haltedTimer /\ count > 1
    <3>1. count' = count - 1 /\ UNCHANGED <<timeoutSt, rebooted>>
      BY <1>7, <2>3 DEF Tick, Countdown
    <3> QED BY <1>0, <1>t, <2>1, <2>3, <2>5, <3>1 DEF FeedsInTime
  <2>4. CASE ~haltedTimer /\ ~(count > 1)
    <3>1. life \notin {"boot", "probed", "stopped"}
      BY <1>t, <2>1, <2>4 DEF TimerFlags
    <3>2. count' = tm /\ timeoutSt' = TRUE
          /\ rebooted' = (~noReboot /\ (Version = 2 \/ timeoutSt))
      BY <1>7, <2>4 DEF Tick, Countdown
    <3>4. ASSUME life = "started", ~kernelHalted
          PROVE  count = 1 /\ feedIn > 0 /\ feedIn' = feedIn - 1 /\ Version = 1 /\ ~timeoutSt
      <4>1. count \in 1 .. tm /\ tm \in Nat /\ count = 1
        BY <1>0, <1>t, <2>4, <3>4 DEF FeedsInTime
      <4> QED BY <1>t, <2>5, <3>4, <4>1 DEF FeedsInTime
    <3>5. ASSUME life' = "started", ~kernelHalted'
          PROVE  /\ ~rebooted' /\ tm' = Setting(Timeout) /\ count' \in 1 .. tm'
                 /\ feedIn' \in Nat /\ feedIn' < count'
      <4>1. life = "started" /\ ~kernelHalted
        BY <2>1, <3>5
      <4>2. ~rebooted'
        <5>1. Version # 2 /\ ~timeoutSt
          BY <3>4, <4>1
        <5> QED BY <3>2, <5>1, Zenon
      <4>3. tm = Setting(Timeout) /\ feedIn < count + tm
        BY <1>t, <3>4, <4>1 DEF FeedsInTime
      <4>4. tm' = tm /\ count' = tm /\ tm \in Nat /\ tm >= 4
        BY <1>0, <2>1, <3>2, <4>3
      <4>5. count = 1 /\ feedIn \in Nat /\ feedIn' = feedIn - 1 /\ feedIn > 0
        BY <2>5, <3>4, <4>1
      <4>6. feedIn' \in Nat /\ feedIn' < tm
        BY <4>3, <4>4, <4>5
      <4> QED BY <4>2, <4>3, <4>4, <4>6
    <3> QED BY <3>2, <3>5 DEF FeedsInTime
  <2> QED BY <2>2, <2>3, <2>4
<1>8. CASE KernelHalt
  BY <1>8, <1>t DEF KernelHalt, TimerFlags, FeedsInTime
<1>9. CASE UNCHANGED vars
  BY <1>9, <1>t DEF vars, TimerFlags, FeedsInTime
<1> QED BY <1>1, <1>2, <1>3, <1>4, <1>5, <1>6, <1>7, <1>8, <1>9 DEF Next

(***************************************************************************)
(* The inductive invariant behind FeedingNeverLate, for every Timeout of   *)
(* the documented range and both versions.                                 *)
(***************************************************************************)
THEOREM FeedingInvariant ==
    Timeout \in DocumentedRange /\ SelfFeeding => (Spec => []FeedIInv)
<1> SUFFICES ASSUME Timeout \in DocumentedRange, SelfFeeding PROVE Spec => []FeedIInv
  OBVIOUS
<1>1. FeedIInv /\ [Next]_vars => FeedIInv'
  BY FeedStep
<1> QED BY <1>1, FeedInit, PTL DEF Spec

(***************************************************************************)
(* README, "kext will activate the device and do feeding; device will do   *)
(* machine reset on kernel halt": for every Timeout of the documented      *)
(* range, on both versions, the timer resets no kernel that runs.          *)
(***************************************************************************)
THEOREM FeedingNeverLate ==
    Timeout \in DocumentedRange => (Spec => []ResetOnlyOnHalt)
<1> SUFFICES ASSUME Timeout \in DocumentedRange PROVE Spec => []ResetOnlyOnHalt
  OBVIOUS
<1>1. CASE SelfFeeding
  <2>1. Spec => []FeedIInv
    BY <1>1, FeedingInvariant
  <2>2. FeedIInv => ResetOnlyOnHalt
    BY DEF FeedIInv, TimerFlags, FeedsInTime, ResetOnlyOnHalt
  <2> QED BY <2>1, <2>2, PTL
<1>2. CASE ~SelfFeeding
  <2>1. ResetOnlyOnHalt
    BY <1>2 DEF ResetOnlyOnHalt
  <2> QED BY <2>1, PTL
<1> QED BY <1>1, <1>2

-----------------------------------------------------------------------------
(***************************************************************************)
(* What the driver has taken away from the firmware's SMI enables it       *)
(* remembers until it has put it back.                                     *)
(***************************************************************************)
Missing ==
    IF WorkaroundBug THEN SmiBits ELSE IF SMIWereEnabled THEN {"tco"} ELSE {}
Remembered ==
    /\ smiAtBoot \subseteq SmiBits
    /\ WorkaroundBug \in BOOLEAN /\ SMIWereEnabled \in BOOLEAN
    /\ life = "boot" => smiAtBoot \subseteq smien
    /\ smiAtBoot \subseteq smien \cup Missing
    /\ life = "stopped" => Missing = {}
    /\ WorkaroundBug /\ life # "boot" => ~SMIWereEnabled
    /\ WorkaroundBug => Workaround
    /\ IF life = "boot" THEN smien = smiAtBoot
       ELSE ~Workaround /\ ~noReboot => smien \cup Missing = smiAtBoot

LEMMA RememberedStep == ASSUME TimerFlags, Remembered, [Next]_vars PROVE Remembered'
<1> USE DEF Running, envVars, smiVars, timerVars
<1>1. CASE Probe
  <2>1. PICK locked \in BOOLEAN :
           /\ noReboot' = locked
           /\ SMIWereEnabled' = (~locked /\ ~WorkaroundBug /\ "tco" \in smien)
           /\ smien' = IF locked THEN smien \cup {"tco"}
                       ELSE IF WorkaroundBug THEN smien \ {"tco", "gbl"}
                       ELSE smien \ {"tco"}
    BY <1>1 DEF Probe
  <2>2. life = "boot" /\ life' = "probed" /\ UNCHANGED <<smiAtBoot, WorkaroundBug>>
    BY <1>1 DEF Probe
  <2>3. smiAtBoot = smien /\ smien \subseteq SmiBits
    BY <2>2 DEF Remembered
  <2>4. CASE locked
    BY <2>1, <2>2, <2>3, <2>4 DEF Remembered, Missing
  <2>5. CASE ~locked /\ WorkaroundBug
    BY <2>1, <2>2, <2>3, <2>5 DEF Remembered, Missing, SmiBits
  <2>6. CASE ~locked /\ ~WorkaroundBug
    <3>1. smien' \cup Missing' = smiAtBoot
      BY <2>1, <2>2, <2>3, <2>6 DEF Missing
    <3> QED BY <2>1, <2>2, <2>3, <2>6, <3>1 DEF Remembered
  <2> QED BY <2>4, <2>5, <2>6
<1>2. CASE Shutdown
  <2>1. smiAtBoot' = smiAtBoot /\ WorkaroundBug' = FALSE /\ life' = "stopped"
    BY <1>2 DEF Shutdown
  <2>2. SMIWereEnabled' = (WorkaroundBug /\ SMIWereEnabled) /\ life # "boot"
    BY <1>2 DEF Shutdown
  <2>3. SMIWereEnabled' = FALSE
    BY <2>2 DEF Remembered
  <2>4. smien' = smien \cup Missing /\ noReboot' = noReboot
    BY <1>2 DEF Shutdown, Missing
  <2>5. Missing' = {}
    BY <2>1, <2>3 DEF Missing
  <2> QED BY <2>1, <2>2, <2>3, <2>4, <2>5 DEF Remembered
<1>3. CASE ~Probe /\ ~Shutdown
  <2>1. UNCHANGED <<smien, smiAtBoot, SMIWereEnabled, WorkaroundBug, noReboot>>
        /\ (life' # life => life = "probed" /\ life' = "started")
    BY <1>3 DEF Next, Start, Feed, SystemSleep, SystemWake, Tick, KernelHalt, vars, Countdown
  <2> QED BY <2>1 DEF Remembered, Missing
<1> QED BY <1>1, <1>2, <1>3

(***************************************************************************)
(* probe and free_common: whichever way the SMIs were disabled, with the   *)
(* workaround or without, a driver that has stopped, at shutdown and again *)
(* in free, has lost no enable bit of the firmware and halted the timer;   *)
(* without the workaround, and where reboots could be enabled, the bits    *)
(* are the ones it found.                                                  *)
(***************************************************************************)
THEOREM LeftAsFound == Spec => []LeavesAsFound
<1>1. Init => TimerFlags /\ Remembered
  <2> SUFFICES ASSUME Init PROVE TimerFlags /\ Remembered
    OBVIOUS
  <2>1. TimerFlags
    BY DEF Init, TimerFlags
  <2>2. /\ smiAtBoot \subseteq SmiBits /\ smien = smiAtBoot /\ life = "boot"
        /\ WorkaroundBug = Workaround /\ SMIWereEnabled = FALSE
    BY DEF Init
  <2>3. WorkaroundBug \in BOOLEAN /\ SMIWereEnabled \in BOOLEAN
    BY <2>2
  <2>4. smiAtBoot \subseteq smien \cup Missing
    BY <2>2
  <2> QED BY <2>1, <2>2, <2>3, <2>4 DEF Remembered
<1>2. TimerFlags /\ Remembered /\ [Next]_vars => TimerFlags' /\ Remembered'
  BY FlagsStep, RememberedStep
<1>3. TimerFlags /\ Remembered => LeavesAsFound
  BY DEF TimerFlags, Remembered, LeavesAsFound
<1> QED BY <1>1, <1>2, <1>3, PTL DEF Spec

-----------------------------------------------------------------------------
(* The feeder: types                                                       *)

LEMMA SettingTyped ==
    /\ Setting(Timeout) \in 4 .. ITCO_RL_TM_MAX /\ ITCO_RL_TM_MAX \in {63, 1023}
    /\ FeedInterval \in Nat
<1>1. Setting(Timeout) \in ITCO_RL_TM_MIN .. ITCO_RL_TM_MAX
  <2>1. (Timeout * 5) % Word \in Nat /\ (Default * 5) % Word \in Nat
    OBVIOUS
  <2>2. Ticks(Timeout) \in Int /\ Ticks(Default) \in Int
    BY <2>1 DEF Ticks
  <2> QED BY <2>2 DEF Setting, Fits, ITCO_RL_TM_MIN, ITCO_RL_TM_MAX
<1>2. (Timeout - 2) % Word \in Nat
  OBVIOUS
<1> QED BY <1>1, <1>2 DEF ITCO_RL_TM_MIN, ITCO_RL_TM_MAX, FeedInterval

LEMMA CountdownTyped ==
    ASSUME TypeOK, Countdown
    PROVE  count' \in 1 .. ITCO_RL_TM_MAX /\ timeoutSt' \in BOOLEAN /\ rebooted' \in BOOLEAN
<1>0. ITCO_RL_TM_MAX \in Nat
  BY SettingTyped
<1>1. CASE haltedTimer
  BY <1>1 DEF Countdown, TypeOK
<1>2. CASE ~haltedTimer /\ count > 1
  BY <1>0, <1>2 DEF Countdown, TypeOK
<1>3. CASE ~haltedTimer /\ ~(count > 1)
  <2>1. count' = tm /\ timeoutSt' = TRUE /\ rebooted' = (~noReboot /\ (Version = 2 \/ timeoutSt))
    BY <1>3 DEF Countdown
  <2>2. rebooted' \in BOOLEAN
    BY <2>1, Zenon
  <2> QED BY <2>1, <2>2 DEF TypeOK
<1> QED BY <1>1, <1>2, <1>3

LEMMA TypeStep == ASSUME TypeOK, [Next]_vars PROVE TypeOK'
<1>0. Setting(Timeout) \in 1 .. ITCO_RL_TM_MAX /\ ITCO_RL_TM_MAX \in Nat /\ FeedInterval \in Nat
  BY SettingTyped
<1> USE DEF TypeOK, envVars, smiVars, timerVars
<1>1. CASE Probe
  BY <1>1 DEF Probe, DisableTimer, SmiBits
<1>2. CASE Start
  BY <1>0, <1>2 DEF Start
<1>3. CASE Feed
  BY <1>0, <1>3 DEF Feed, LoadTimer
<1>4. CASE SystemSleep \/ SystemWake
  BY <1>4 DEF SystemSleep, SystemWake, EnableTimer, DisableTimer
<1>5. CASE Shutdown
  BY <1>5 DEF Shutdown, DisableTimer, SmiBits
<1>6. CASE Tick
  <2>1. count' \in 1 .. ITCO_RL_TM_MAX /\ timeoutSt' \in BOOLEAN /\ rebooted' \in BOOLEAN
    BY <1>6, CountdownTyped DEF Tick
  <2>2. feedIn' \in Nat
    BY <1>6 DEF Tick
  <2> QED BY <1>6, <2>1, <2>2 DEF Tick
<1>7. CASE KernelHalt
  BY <1>7 DEF KernelHalt
<1>8. CASE UNCHANGED vars
  BY <1>8 DEF vars
<1> QED BY <1>1, <1>2, <1>3, <1>4, <1>5, <1>6, <1>7, <1>8 DEF Next

LEMMA TypeInit == Init => TypeOK
<1> SUFFICES ASSUME Init PROVE TypeOK
  OBVIOUS
<1>1. tm \in 1 .. ITCO_RL_TM_MAX /\ count \in 1 .. ITCO_RL_TM_MAX
  BY SettingTyped DEF Init
<1>2. WorkaroundBug \in BOOLEAN
  BY DEF Init
<1> QED BY <1>1, <1>2 DEF Init, TypeOK

\* What FeederTypeOK says of the program's own variables.
ProgramTyped ==
    /\ fpc \in {"dead", "found", "set", "armed", "running"}
    /\ handlers \subseteq {"INT", "TERM"}
    /\ boneIn \in 0 .. FeedInterval /\ restartIn \in 0 .. RestartDelay
    /\ stalled \in BOOLEAN /\ disarmed \in BOOLEAN /\ lateStart \in BOOLEAN

LEMMA FeederTypeStep == ASSUME FeederTypeOK, [FeederNext]_allVars PROVE FeederTypeOK'
<1>0. /\ Setting(Timeout) \in 1 .. ITCO_RL_TM_MAX /\ FeedInterval \in Nat /\ RestartDelay \in Nat
      /\ FeedInterval \in 0 .. FeedInterval /\ 0 \in 0 .. FeedInterval
      /\ RestartDelay \in 0 .. RestartDelay
  BY SettingTyped
<1>t. TypeOK /\ ProgramTyped
  BY DEF FeederTypeOK, ProgramTyped
<1>s. SUFFICES TypeOK' /\ ProgramTyped'
  BY DEF FeederTypeOK, ProgramTyped
<1> USE DEF feederVars
<1>1. CASE Launch \/ Stall \/ Install
  <2>1. UNCHANGED vars
    BY <1>1 DEF Launch, Stall, Install
  <2>2. ProgramTyped'
    BY <1>0, <1>1, <1>t DEF Launch, Stall, Install, ProgramTyped
  <2> QED BY <1>t, <2>1, <2>2, TypeStep
<1>2. CASE SetTimer \/ Arm \/ Bone
  <2>1. TypeOK'
    BY <1>0, <1>2, <1>t DEF SetTimer, Arm, Bone, EnableTimer, LoadTimer, TypeOK, envVars, smiVars
  <2>2. ProgramTyped'
    BY <1>0, <1>2, <1>t DEF SetTimer, Arm, Bone, ProgramTyped
  <2> QED BY <2>1, <2>2
<1>4. ASSUME NEW sig \in Signals, Caught(sig) PROVE TypeOK' /\ ProgramTyped'
  <2>1. TypeOK'
    BY <1>4, <1>t DEF Caught, DisableTimer, TypeOK, envVars, smiVars
  <2>2. ProgramTyped'
    BY <1>0, <1>4, <1>t DEF Caught, Die, ProgramTyped
  <2> QED BY <2>1, <2>2
<1>5. ASSUME NEW sig \in Signals, Uncaught(sig) PROVE TypeOK' /\ ProgramTyped'
  <2>1. UNCHANGED vars
    BY <1>5 DEF Uncaught
  <2>2. ProgramTyped'
    BY <1>0, <1>5, <1>t DEF Uncaught, Die, ProgramTyped
  <2> QED BY <1>t, <2>1, <2>2, TypeStep
<1>6. CASE FeederTick
  <2>1. TypeOK'
    BY <1>6, <1>t, TypeStep DEF FeederTick, Next
  <2>2. boneIn' \in 0 .. FeedInterval /\ restartIn' \in 0 .. RestartDelay
    BY <1>0, <1>6, <1>t DEF FeederTick, CountTo0, ProgramTyped
  <2>3. lateStart' \in BOOLEAN
    BY <1>6, Zenon DEF FeederTick
  <2> QED BY <1>6, <1>t, <2>1, <2>2, <2>3 DEF FeederTick, ProgramTyped
<1>7. CASE Next /\ UNCHANGED feederVars
  <2>1. ProgramTyped'
    BY <1>7, <1>t DEF ProgramTyped
  <2> QED BY <1>7, <1>t, <2>1, TypeStep
<1>8. CASE UNCHANGED allVars
  <2>1. UNCHANGED vars /\ UNCHANGED feederVars
    BY <1>8 DEF allVars
  <2>2. ProgramTyped'
    BY <1>t, <2>1 DEF ProgramTyped
  <2> QED BY <1>t, <2>1, <2>2, TypeStep
<1> QED BY <1>1, <1>2, <1>4, <1>5, <1>6, <1>7, <1>8 DEF FeederNext, Next

LEMMA FeederTypeInit == FeederInit => FeederTypeOK
<1> SUFFICES ASSUME FeederInit PROVE FeederTypeOK
  OBVIOUS
<1>1. TypeOK
  BY TypeInit DEF FeederInit
<1>2. 0 \in 0 .. FeedInterval /\ 0 \in 0 .. RestartDelay
  BY SettingTyped
<1> QED BY <1>1, <1>2 DEF FeederInit, FeederTypeOK

(***************************************************************************)
(* Driver, timer and program: every value stays in its range, for every    *)
(* value of the options and on both versions of the device.                *)
(***************************************************************************)
THEOREM FeederTyped == FeederSpec => []FeederTypeOK
<1>1. FeederTypeOK /\ [FeederNext]_allVars => FeederTypeOK'
  BY FeederTypeStep
<1> QED BY <1>1, FeederTypeInit, PTL DEF FeederSpec

-----------------------------------------------------------------------------
(* The feeder: in time                                                     *)

(***************************************************************************)
(* The program's next reload, while it runs, and its next start, after a   *)
(* SIGTERM, are never further away than the end of the countdown.          *)
(***************************************************************************)
Programmed ==
    /\ fpc # "dead" => life = "started"
    /\ handlers # {} => fpc = "running"
    /\ fpc \in {"set", "armed", "running"} => tm = Setting(Timeout)
    /\ disarmed => fpc = "dead" /\ tm = Setting(Timeout)
ReloadInTime ==
    /\ fpc = "armed" /\ ~lateStart => count = tm
    /\ fpc = "running" /\ ~lateStart => boneIn < count
RestartInTime == disarmed /\ ~haltedTimer => restartIn < count
FedIInv ==
    /\ FeederTypeOK /\ TimerFlags /\ Programmed
    /\ ReloadInTime /\ NoResetWhileFed

LEMMA FlagsInFeeder ==
    ASSUME FeederTypeOK, TimerFlags, Programmed, [FeederNext]_allVars PROVE TimerFlags'
<1> USE DEF Running, envVars, smiVars, timerVars, feederVars, Scheduled
<1>1. CASE SetTimer \/ Arm \/ Bone
  <2>1. life = "started"
    BY <1>1 DEF SetTimer, Arm, Bone, Programmed
  <2>2. CASE SetTimer
    BY <2>1, <2>2 DEF SetTimer, TimerFlags
  <2>3. CASE Arm
    BY <2>1, <2>3 DEF Arm, EnableTimer, TimerFlags
  <2>4. CASE Bone
    <3>1. timeoutSt' \in BOOLEAN
      BY <2>4 DEF Bone, LoadTimer
    <3> QED BY <2>1, <2>4, <3>1 DEF Bone, TimerFlags
  <2> QED BY <1>1, <2>2, <2>3, <2>4
<1>2. ASSUME NEW sig \in Signals, Caught(sig) PROVE TimerFlags'
  <2>1. life = "started"
    BY <1>2 DEF Caught, Programmed
  <2> QED BY <1>2, <2>1 DEF Caught, DisableTimer, TimerFlags
<1>3. ASSUME NEW sig \in Signals, Uncaught(sig) PROVE TimerFlags'
  BY <1>3, FlagsStep DEF Uncaught
<1>4. CASE UNCHANGED vars \/ Tick \/ Next
  BY <1>4, FlagsStep DEF Next
<1> QED BY <1>1, <1>2, <1>3, <1>4 DEF FeederNext, Launch, Stall, Install, FeederTick, Next, allVars

LEMMA ProgrammedStep ==
    ASSUME ~SelfFeeding, FeederTypeOK, Programmed, [FeederNext]_allVars PROVE Programmed'
<1> USE DEF Running, envVars, smiVars, timerVars, feederVars, Scheduled
<1>1. CASE Launch \/ Stall \/ Install
  BY <1>1 DEF Launch, Stall, Install, vars, Programmed
<1>2. CASE SetTimer \/ Arm \/ Bone
  BY <1>2 DEF SetTimer, Arm, Bone, EnableTimer, LoadTimer, Programmed
<1>4. ASSUME NEW sig \in Signals, Caught(sig) PROVE Programmed'
  <2>1. fpc = "running" /\ life = "started" /\ tm = Setting(Timeout) /\ ~disarmed
    BY <1>4 DEF Caught, Programmed
  <2>2. UNCHANGED <<tm, life>>
    BY <1>4 DEF Caught
  <2>3. CASE sig = "TERM"
    BY <1>4, <2>1, <2>2, <2>3 DEF Caught, Die, Programmed
  <2>4. CASE sig # "TERM"
    BY <1>4, <2>1, <2>2, <2>4 DEF Caught, Programmed
  <2> QED BY <2>3, <2>4
<1>5. ASSUME NEW sig \in Signals, Uncaught(sig) PROVE Programmed'
  BY <1>5 DEF Uncaught, Die, vars, Programmed
<1>6. CASE FeederTick
  BY <1>6 DEF FeederTick, Tick, Programmed
<1>7. CASE Shutdown /\ fpc = "dead" /\ UNCHANGED feederVars
  BY <1>7 DEF Shutdown, Programmed
<1>8. CASE (Probe \/ Start \/ SystemSleep \/ SystemWake \/ KernelHalt) /\ UNCHANGED feederVars
  BY <1>8 DEF Probe, Start, SystemSleep, SystemWake, KernelHalt, Programmed
<1>9. CASE UNCHANGED allVars
  BY <1>9 DEF allVars, vars, Programmed
<1> QED BY <1>1, <1>2, <1>4, <1>5, <1>6, <1>7, <1>8, <1>9 DEF FeederNext

\* One tick of the timer and of the program's clocks.
LEMMA TickCounts ==
    ASSUME FeederTypeOK, FeederTick
    PROVE  /\ haltedTimer => count' = count
           /\ ~haltedTimer /\ count > 1 => count' = count - 1
           /\ rebooted' => ~haltedTimer /\ count = 1
           /\ ~haltedTimer /\ count = 1 => count' = tm
           /\ count \in Nat /\ count > 0 /\ tm \in Nat /\ boneIn \in Nat /\ restartIn \in Nat
           /\ boneIn' = CountTo0(boneIn) /\ restartIn' = CountTo0(restartIn)
           /\ UNCHANGED <<tm, haltedTimer, life, asleep, kernelHalted>>
           /\ ~asleep /\ ~rebooted
<1>1. /\ count \in Nat /\ count > 0 /\ tm \in Nat /\ boneIn \in Nat /\ restartIn \in Nat
  BY SettingTyped DEF FeederTypeOK, TypeOK
<1>2. /\ UNCHANGED <<tm, haltedTimer, life, asleep, kernelHalted>>
      /\ boneIn' = CountTo0(boneIn) /\ restartIn' = CountTo0(restartIn)
      /\ ~asleep /\ ~rebooted /\ Countdown
  BY DEF FeederTick, Tick, envVars
<1>3. rebooted' => ~haltedTimer /\ count = 1
  <2>1. CASE haltedTimer \/ count > 1
    BY <1>2, <2>1 DEF Countdown
  <2>2. CASE ~haltedTimer /\ ~(count > 1)
    BY <1>1, <2>2
  <2> QED BY <2>1, <2>2
<1> QED BY <1>1, <1>2, <1>3 DEF Countdown

LEMMA FedStep ==
    ASSUME Version = 2, Timeout \in DocumentedRange, ~SelfFeeding, FedIInv, [FeederNext]_allVars
    PROVE  FedIInv'
<1>0. /\ Setting(Timeout) \in Nat /\ Setting(Timeout) >= 4 /\ FeedInterval \in Nat
      /\ FeedInterval < Setting(Timeout)
  BY IntervalFits, SMTT(30) DEF ITCO_RL_TM_MIN, ITCO_RL_TM_MAX
<1>t. /\ FeederTypeOK /\ TimerFlags /\ Programmed
      /\ ReloadInTime /\ NoResetWhileFed
  BY DEF FedIInv
<1>v. /\ count \in Nat /\ count > 0 /\ tm \in Nat /\ boneIn \in Nat /\ boneIn <= FeedInterval
      /\ stalled \in BOOLEAN /\ lateStart \in BOOLEAN /\ kernelHalted \in BOOLEAN
  BY <1>0, <1>t, SettingTyped DEF FeederTypeOK, TypeOK
<1>f. FeederTypeOK' /\ TimerFlags' /\ Programmed'
  BY <1>t, FeederTypeStep, FlagsInFeeder, ProgrammedStep
<1>s. SUFFICES ReloadInTime' /\ NoResetWhileFed'
  BY <1>f DEF FedIInv
<1> USE DEF Running, envVars, smiVars, timerVars, feederVars, Scheduled
<1>1. CASE Launch \/ Stall
  BY <1>1, <1>t DEF Launch, Stall, vars, ReloadInTime, NoResetWhileFed
<1>2. CASE SetTimer \/ Arm
  BY <1>2, <1>t DEF SetTimer, Arm, EnableTimer, ReloadInTime, NoResetWhileFed
<1>3. CASE Install
  <2>1. fpc = "armed" /\ tm = Setting(Timeout) /\ ~rebooted
    BY <1>3, <1>t DEF Install, Programmed
  <2>2. boneIn' = FeedInterval /\ UNCHANGED <<count, tm, rebooted, lateStart, stalled>> /\ fpc' = "running"
    BY <1>3 DEF Install, vars
  <2> QED BY <1>0, <1>t, <2>1, <2>2 DEF ReloadInTime, NoResetWhileFed
<1>4. CASE Bone
  <2>1. fpc = "running" /\ tm = Setting(Timeout) /\ ~rebooted
    BY <1>4, <1>t DEF Bone, Programmed
  <2>2. boneIn' = FeedInterval /\ count' = tm /\ UNCHANGED <<tm, rebooted, stalled, fpc>>
    BY <1>4 DEF Bone, LoadTimer
  <2> QED BY <1>0, <1>t, <2>1, <2>2 DEF ReloadInTime, NoResetWhileFed
<1>5. ASSUME NEW sig \in Signals, Caught(sig) PROVE ReloadInTime' /\ NoResetWhileFed'
  <2>1. ~rebooted /\ UNCHANGED <<tm, count, rebooted, lateStart, stalled>>
        /\ (fpc' = "dead" \/ UNCHANGED <<fpc, boneIn>>)
    BY <1>5 DEF Caught, Die
  <2> QED BY <1>t, <2>1 DEF ReloadInTime, NoResetWhileFed
<1>6. ASSUME NEW sig \in Signals, Uncaught(sig) PROVE ReloadInTime' /\ NoResetWhileFed'
  BY <1>6 DEF Uncaught, Die, ReloadInTime, NoResetWhileFed
<1>7. CASE FeederTick
  <2>1. UNCHANGED <<fpc, stalled>> /\ lateStart' = (lateStart \/ fpc = "armed") /\ ~Ready
    BY <1>7 DEF FeederTick
  <2>2. ASSUME fpc = "running", ~lateStart
        PROVE  boneIn' < count'
    <3>1. boneIn < count /\ tm = Setting(Timeout)
      BY <1>t, <2>2 DEF ReloadInTime, Programmed
    <3> QED BY <1>0, <1>7, <1>t, <3>1, TickCounts DEF CountTo0
  <2>3. ASSUME rebooted', fpc # "dead", ~stalled, ~kernelHalted, ~lateStart, fpc # "armed"
        PROVE  FALSE
    <3>1. ~haltedTimer /\ count = 1 /\ ~asleep /\ ~rebooted
      BY <1>7, <1>t, <1>v, <2>3, TickCounts
    <3>2. fpc = "running"
      BY <1>t, <2>1, <2>3, <3>1 DEF Ready, FeederTypeOK
    <3>3. boneIn = 0
      BY <1>t, <1>v, <2>3, <3>1, <3>2 DEF ReloadInTime
    <3> QED BY <2>1, <2>3, <3>1, <3>2, <3>3 DEF Ready
  <2>4. ReloadInTime'
    BY <2>1, <2>2 DEF ReloadInTime
  <2>5. UNCHANGED kernelHalted
    BY <1>7, <1>t, TickCounts
  <2>6. NoResetWhileFed'
    BY <2>1, <2>3, <2>5 DEF NoResetWhileFed
  <2> QED BY <2>4, <2>6
<1>8. CASE SystemWake /\ UNCHANGED feederVars
  <2>1. count' = tm /\ UNCHANGED <<tm, rebooted, kernelHalted>>
    BY <1>8 DEF SystemWake, EnableTimer
  <2>2. fpc = "running" => boneIn < tm
    BY <1>0, <1>t, <1>v DEF Programmed
  <2> QED BY <1>8, <1>t, <2>1, <2>2 DEF ReloadInTime, NoResetWhileFed
<1>9. CASE Shutdown /\ fpc = "dead" /\ UNCHANGED feederVars
  BY <1>9 DEF ReloadInTime, NoResetWhileFed
<1>10. CASE (Probe \/ Start \/ SystemSleep \/ KernelHalt) /\ UNCHANGED feederVars
  BY <1>10, <1>t DEF Probe, Start, SystemSleep, KernelHalt, ReloadInTime, NoResetWhileFed,
     Programmed
<1>11. CASE UNCHANGED allVars
  BY <1>11, <1>t DEF allVars, vars, ReloadInTime, NoResetWhileFed
<1> QED BY <1>1, <1>2, <1>3, <1>4, <1>5, <1>6, <1>7, <1>8, <1>9, <1>10, <1>11 DEF FeederNext

LEMMA FedInit == FeederInit => FedIInv
<1> SUFFICES ASSUME FeederInit PROVE FedIInv
  OBVIOUS
<1>1. FeederTypeOK
  BY FeederTypeInit
<1>2. TimerFlags /\ Programmed /\ ReloadInTime /\ NoResetWhileFed
  BY DEF FeederInit, Init, TimerFlags, Programmed, ReloadInTime, NoResetWhileFed
<1> QED BY <1>1, <1>2 DEF FedIInv

(***************************************************************************)
(* README, "reboot will also occur on process scheduling failure", and at  *)
(* no other time while the program lives: for every Timeout of the         *)
(* documented range on version 2, through signals, restarts and sleeps.    *)
(***************************************************************************)
THEOREM FedNeverReset ==
    Version = 2 /\ Timeout \in DocumentedRange /\ ~SelfFeeding => (FeederSpec => []NoResetWhileFed)
<1> SUFFICES ASSUME Version = 2, Timeout \in DocumentedRange, ~SelfFeeding
             PROVE  FeederSpec => []NoResetWhileFed
  OBVIOUS
<1>1. FedIInv /\ [FeederNext]_allVars => FedIInv'
  BY FedStep
<1>2. FedIInv => NoResetWhileFed
  BY DEF FedIInv
<1> QED BY <1>1, <1>2, FedInit, PTL DEF FeederSpec

LEMMA RestartStep ==
    ASSUME ~SelfFeeding, KeepAlive, RestartDelay < Setting(Timeout),
           FeederTypeOK, TimerFlags, Programmed, RestartInTime, TermIsSafe,
           [FeederNext]_allVars
    PROVE  RestartInTime' /\ TermIsSafe'
<1>v. /\ count \in Nat /\ count > 0 /\ restartIn \in Nat /\ restartIn <= RestartDelay
      /\ disarmed \in BOOLEAN /\ kernelHalted \in BOOLEAN /\ haltedTimer \in BOOLEAN
      /\ Setting(Timeout) \in Nat
  BY SettingTyped DEF FeederTypeOK, TypeOK
<1> USE DEF Running, envVars, smiVars, timerVars, feederVars, Scheduled
<1>1. CASE Launch \/ Stall \/ Install
  BY <1>1 DEF Launch, Stall, Install, vars, RestartInTime, TermIsSafe
<1>2. CASE SetTimer \/ Arm \/ Bone
  <2>1. ~disarmed
    BY <1>2 DEF SetTimer, Arm, Bone, Programmed
  <2> QED BY <1>2, <2>1 DEF SetTimer, Arm, Bone, RestartInTime, TermIsSafe
<1>4. ASSUME NEW sig \in Signals, Caught(sig) PROVE RestartInTime' /\ TermIsSafe'
  BY <1>4 DEF Caught, DisableTimer, RestartInTime, TermIsSafe
<1>5. ASSUME NEW sig \in Signals, Uncaught(sig) PROVE RestartInTime' /\ TermIsSafe'
  <2>1. ~disarmed /\ disarmed' = disarmed
    BY <1>5 DEF Uncaught, Programmed
  <2> QED BY <2>1 DEF RestartInTime, TermIsSafe
<1>6. CASE FeederTick
  <2>1. disarmed' = disarmed /\ fpc' = fpc /\ ~Ready
    BY <1>6 DEF FeederTick
  <2>2. ASSUME disarmed, ~haltedTimer PROVE restartIn' < count'
    <3>1. restartIn < count /\ tm = Setting(Timeout)
      BY <2>2 DEF RestartInTime, Programmed
    <3> QED BY <1>6, <1>v, <3>1, SettingTyped, TickCounts DEF CountTo0
  <2>3. ASSUME disarmed, rebooted', ~kernelHalted PROVE FALSE
    <3>1. ~haltedTimer /\ count = 1 /\ ~asleep /\ ~rebooted /\ fpc = "dead"
      BY <1>6, <1>v, <2>3, TickCounts DEF Programmed
    <3>2. restartIn = 0
      BY <1>v, <2>3, <3>1 DEF RestartInTime
    <3>3. life = "started"
      BY <1>6, <3>1 DEF TimerFlags, FeederTick, Tick
    <3> QED BY <2>1, <2>3, <3>1, <3>2, <3>3 DEF Ready
  <2>4. UNCHANGED <<haltedTimer, kernelHalted>>
    BY <1>6, TickCounts
  <2>5. RestartInTime'
    BY <2>1, <2>2, <2>4 DEF RestartInTime
  <2>6. TermIsSafe'
    BY <2>1, <2>3, <2>4 DEF TermIsSafe
  <2> QED BY <2>5, <2>6
<1>7. CASE SystemWake /\ UNCHANGED feederVars
  <2>1. count' = tm /\ UNCHANGED <<rebooted, kernelHalted>>
    BY <1>7 DEF SystemWake, EnableTimer
  <2>2. disarmed => restartIn < tm
    BY <1>v DEF Programmed
  <2> QED BY <1>7, <2>1, <2>2 DEF RestartInTime, TermIsSafe
<1>8. CASE Shutdown /\ fpc = "dead" /\ UNCHANGED feederVars
  <2>1. haltedTimer' /\ UNCHANGED <<rebooted, kernelHalted, disarmed>>
    BY <1>8 DEF Shutdown, DisableTimer, TimerFlags
  <2> QED BY <2>1 DEF RestartInTime, TermIsSafe
<1>9. CASE (Probe \/ SystemSleep) /\ UNCHANGED feederVars
  BY <1>9 DEF Probe, SystemSleep, DisableTimer, RestartInTime, TermIsSafe
<1>10. CASE (Start \/ KernelHalt) /\ UNCHANGED feederVars
  BY <1>10 DEF Start, KernelHalt, RestartInTime, TermIsSafe
<1>11. CASE UNCHANGED allVars
  BY <1>11 DEF allVars, vars, RestartInTime, TermIsSafe
<1> QED BY <1>1, <1>2, <1>4, <1>5, <1>6, <1>7, <1>8, <1>9, <1>10, <1>11 DEF FeederNext

(***************************************************************************)
(* disable, "For launchd": a program that SIGTERM ended is started again   *)
(* before a timer that a wake-up armed behind its back can reset, whenever *)
(* launchd keeps it alive and is quicker than the timer.                   *)
(***************************************************************************)
THEOREM TermNeverReset ==
    ~SelfFeeding /\ KeepAlive /\ RestartDelay < Setting(Timeout) => (FeederSpec => []TermIsSafe)
<1> SUFFICES ASSUME ~SelfFeeding, KeepAlive, RestartDelay < Setting(Timeout)
             PROVE  FeederSpec => []TermIsSafe
  OBVIOUS
<1> DEFINE Inv == FeederTypeOK /\ TimerFlags /\ Programmed /\ RestartInTime /\ TermIsSafe
<1>1. FeederInit => Inv
  <2>1. FeederInit => RestartInTime /\ TermIsSafe
    BY DEF FeederInit, RestartInTime, TermIsSafe
  <2> QED BY <2>1, FedInit DEF FedIInv
<1>2. Inv /\ [FeederNext]_allVars => Inv'
  BY FeederTypeStep, FlagsInFeeder, ProgrammedStep, RestartStep
<1>3. Inv => TermIsSafe
  OBVIOUS
<1> QED BY <1>1, <1>2, <1>3, PTL DEF FeederSpec

-----------------------------------------------------------------------------
(***************************************************************************)
(* What must happen.  The timer's register is finite, so the ticks left    *)
(* before a reset are at most 2048, and it is enough to show that each of  *)
(* them comes: what leads from n + d to n ticks, for all n, leads from     *)
(* n + 2 * d to n ticks.                                                   *)
(***************************************************************************)

LEMMA TicksBounded == ASSUME TypeOK PROVE TicksLeft \in 1 .. 2048
<1>1. count \in 1 .. 1023 /\ tm \in 1 .. 1023
  BY SettingTyped DEF TypeOK
<1> QED BY <1>1 DEF TicksLeft

LEMMA TickFalls ==
    ASSUME TypeOK, Countdown, ~haltedTimer, ~noReboot, UNCHANGED tm
    PROVE  rebooted' \/ TicksLeft' = TicksLeft - 1
<1>1. count \in Nat /\ tm \in Nat /\ count >= 1
  BY SettingTyped DEF TypeOK
<1>2. CASE count > 1
  <2>1. count' = count - 1 /\ timeoutSt' = timeoutSt
    BY <1>2 DEF Countdown
  <2> QED BY <1>1, <2>1 DEF TicksLeft
<1>3. CASE ~(count > 1)
  <2>1. count = 1 /\ count' = tm /\ timeoutSt' = TRUE
        /\ rebooted' = (~noReboot /\ (Version = 2 \/ timeoutSt))
    BY <1>1, <1>3 DEF Countdown
  <2>2. CASE Version = 2 \/ timeoutSt
    BY <2>1, <2>2, Zenon
  <2>3. CASE Version = 1 /\ ~timeoutSt
    BY <1>1, <2>1, <2>3 DEF TicksLeft
  <2> QED BY <2>2, <2>3
<1> QED BY <1>2, <1>3

-----------------------------------------------------------------------------
(* A halted kernel is reset                                                *)

\* A kernel that halts leaves the driver as it is: started, awake and armed.
ArmedWhileAwake ==
    /\ kernelHalted => life = "started" /\ ~asleep
    /\ SelfFeeding /\ life = "started" /\ ~asleep => ~haltedTimer
HaltInv == TypeOK /\ TimerFlags /\ ArmedWhileAwake

LEMMA HaltInductive == Spec => []HaltInv
<1>1. Init => HaltInv
  <2>1. Init => TimerFlags /\ ArmedWhileAwake
    BY DEF Init, TimerFlags, ArmedWhileAwake
  <2> QED BY <2>1, TypeInit DEF HaltInv
<1>2. ASSUME HaltInv, [Next]_vars PROVE HaltInv'
  <2>1. TypeOK' /\ TimerFlags'
    BY <1>2, TypeStep, FlagsStep DEF HaltInv
  <2>2. ArmedWhileAwake'
    <3> USE <1>2 DEF HaltInv, TimerFlags, ArmedWhileAwake, Running, envVars, smiVars, timerVars
    <3>1. CASE Probe \/ Start \/ Feed
      BY <3>1 DEF Probe, Start, Feed
    <3>2. CASE SystemSleep \/ SystemWake
      BY <3>2 DEF SystemSleep, SystemWake, EnableTimer
    <3>3. CASE Shutdown \/ Tick \/ KernelHalt \/ UNCHANGED vars
      BY <3>3 DEF Shutdown, Tick, KernelHalt, vars
    <3> QED BY <1>2, <3>1, <3>2, <3>3 DEF Next
  <2> QED BY <2>1, <2>2 DEF HaltInv
<1> QED BY <1>1, <1>2, PTL DEF Spec

\* What a self-feeding driver programmed, and the countdown from it.
Loaded == SelfFeeding /\ life = "started" => tm = Setting(Timeout) /\ count \in 1 .. tm

LEMMA LoadedInductive == Spec => []Loaded
<1>1. Init => Loaded
  BY DEF Init, Loaded
<1>2. ASSUME HaltInv, Loaded, [Next]_vars PROVE Loaded'
  <2>0. Setting(Timeout) \in Nat /\ Setting(Timeout) >= 4 /\ SelfFeeding \in BOOLEAN
    BY SettingTyped
  <2> USE DEF Loaded, Running, envVars, smiVars, timerVars
  <2>1. CASE Probe \/ Shutdown
    BY <2>1 DEF Probe, Shutdown
  <2>2. CASE Start
    BY <2>0, <2>2 DEF Start
  <2>3. CASE Feed
    BY <1>2, <2>0, <2>3 DEF Feed, LoadTimer
  <2>4. CASE SystemWake
    <3>1. count' = tm /\ tm' = tm /\ life' = life
      BY <2>4 DEF SystemWake, EnableTimer
    <3> QED BY <1>2, <2>0, <3>1
  <2>5. CASE Tick
    <3>1. tm' = tm /\ life' = life /\ Countdown /\ count \in Nat
      BY <1>2, <2>5 DEF Tick, HaltInv, TypeOK
    <3>2. count' = count \/ (count > 1 /\ count' = count - 1) \/ count' = tm
      BY <3>1 DEF Countdown
    <3> QED BY <1>2, <2>0, <3>1, <3>2
  <2>6. CASE SystemSleep \/ KernelHalt \/ UNCHANGED vars
    BY <1>2, <2>6 DEF SystemSleep, KernelHalt, vars
  <2> QED BY <1>2, <2>1, <2>2, <2>3, <2>4, <2>5, <2>6 DEF Next
<1> QED BY <1>1, <1>2, HaltInductive, PTL DEF Spec

\* All countdowns together, in ticks of 3/5 s.
FullTime == (IF Version = 1 THEN 2 ELSE 1) * Setting(Timeout)

(***************************************************************************)
(* tcoWdSetTimer, with its rounding down twice: what is programmed for a   *)
(* documented Timeout is never longer than it, and less than a second      *)
(* shorter on version 2, at most a second on version 1.                    *)
(***************************************************************************)
THEOREM SettingAccurate ==
    Timeout \in DocumentedRange =>
        /\ 3 * FullTime <= 5 * Timeout
        /\ 3 * FullTime >= 5 * Timeout - 5
        /\ Version = 2 => 3 * FullTime >= 5 * Timeout - 2
<1> SUFFICES ASSUME Timeout \in DocumentedRange
             PROVE  /\ 3 * FullTime <= 5 * Timeout
                    /\ 3 * FullTime >= 5 * Timeout - 5
                    /\ Version = 2 => 3 * FullTime >= 5 * Timeout - 2
  OBVIOUS
<1>1. Timeout \in 3 .. 614 /\ (Version = 1 => Timeout \in 5 .. 76)
  BY DEF DocumentedRange
<1>2. (Timeout * 5) % Word = Timeout * 5
  BY <1>1
<1>3. Setting(Timeout) = IF Version = 1 THEN ((Timeout * 5) \div 3) \div 2 ELSE (Timeout * 5) \div 3
  BY <1>1, <1>2 DEF Setting, Ticks, Fits, ITCO_RL_TM_MIN, ITCO_RL_TM_MAX
<1> QED BY <1>1, <1>3 DEF FullTime

\* A halted kernel has no more than Timeout seconds left,
WithinTimeout == SelfFeeding /\ kernelHalted => 3 * TicksLeft <= 5 * Timeout
\* and every step that it sees takes a tick of them, up to the reset.
CountsDown ==
    [][SelfFeeding /\ kernelHalted /\ ~noReboot => rebooted' \/ TicksLeft' = TicksLeft - 1]_vars

(***************************************************************************)
(* "device will do machine reset on kernel halt": for every documented     *)
(* Timeout and both versions the reset of a halted kernel is at most       *)
(* Timeout seconds away, and nothing puts it off.                          *)
(***************************************************************************)
THEOREM ResetOnTime == Timeout \in DocumentedRange => (Spec => []WithinTimeout /\ CountsDown)
<1> SUFFICES ASSUME Timeout \in DocumentedRange PROVE Spec => []WithinTimeout /\ CountsDown
  OBVIOUS
<1>1. ASSUME HaltInv, Loaded PROVE WithinTimeout
  <2> SUFFICES ASSUME SelfFeeding, kernelHalted PROVE 3 * TicksLeft <= 5 * Timeout
    BY DEF WithinTimeout
  <2>1. tm = Setting(Timeout) /\ count \in 1 .. tm
    BY <1>1 DEF HaltInv, ArmedWhileAwake, Loaded
  <2>2. Setting(Timeout) \in Nat
    BY SettingTyped
  <2>3. TicksLeft <= FullTime /\ TicksLeft \in Nat /\ FullTime \in Nat
    BY <2>1, <2>2 DEF TicksLeft, FullTime
  <2> QED BY <2>3, SettingAccurate
<1>2. ASSUME HaltInv, [Next]_vars, UNCHANGED vars \/ ~(SelfFeeding /\ kernelHalted /\ ~noReboot)
      PROVE  [SelfFeeding /\ kernelHalted /\ ~noReboot => rebooted' \/ TicksLeft' = TicksLeft - 1]_vars
  BY <1>2
<1>3. ASSUME HaltInv, Next, SelfFeeding, kernelHalted, ~noReboot
      PROVE  rebooted' \/ TicksLeft' = TicksLeft - 1
  <2>1. life = "started" /\ ~asleep /\ ~haltedTimer
    BY <1>3 DEF HaltInv, ArmedWhileAwake
  <2>2. Tick
    BY <1>3, <2>1 DEF Next, Probe, Start, Feed, SystemSleep, SystemWake, Shutdown, KernelHalt, Running
  <2> QED BY <1>3, <2>1, <2>2, TickFalls DEF Tick, HaltInv, envVars
<1>4. HaltInv /\ [Next]_vars =>
        [SelfFeeding /\ kernelHalted /\ ~noReboot => rebooted' \/ TicksLeft' = TicksLeft - 1]_vars
  BY <1>2, <1>3
<1> QED BY <1>1, <1>4, HaltInductive, LoadedInductive, PTL DEF Spec, CountsDown

(***************************************************************************)
(* readTimeleft: the debug build reports the seconds left before the reset *)
(* on version 1, whose two countdowns fit its UInt8; on version 2 it does  *)
(* so below 256 ticks only.                                                *)
(***************************************************************************)
THEOREM TimeleftReported ==
    TypeOK /\ (Version = 1 \/ TicksLeft < 256) => readTimeleft = (TicksLeft * 3) \div 5
<1> SUFFICES ASSUME TypeOK, Version = 1 \/ TicksLeft < 256 PROVE TicksLeft \in 0 .. 255
  BY DEF readTimeleft
<1>1. count \in 1 .. ITCO_RL_TM_MAX /\ tm \in 1 .. ITCO_RL_TM_MAX
  BY DEF TypeOK
<1>2. Version = 1 => ITCO_RL_TM_MAX = 63
  BY DEF ITCO_RL_TM_MAX
<1>3. TicksLeft \in Nat
  <2>1. TicksLeft \in 1 .. 2048
    BY TicksBounded
  <2> QED BY <2>1
<1>4. CASE Version = 1
  <2>1. count \in 1 .. 63 /\ tm \in 1 .. 63
    BY <1>1, <1>2, <1>4
  <2>2. TicksLeft <= 126
    BY <2>1 DEF TicksLeft
  <2> QED BY <1>3, <2>2
<1>5. CASE TicksLeft < 256
  BY <1>3, <1>5
<1> QED BY <1>4, <1>5

HaltAt(n)     == SelfFeeding /\ kernelHalted /\ ~noReboot /\ ~rebooted /\ TicksLeft <= n
HaltWithin(n) == rebooted \/ HaltAt(n)
HaltComes(n, m) == HaltWithin(n) ~> HaltWithin(m)
HaltFair == FairSpec /\ []HaltedTimerRuns

LEMMA HaltTick ==
    ASSUME NEW n \in Nat PROVE HaltFair => HaltComes(n + 1, n)
<1>1. ASSUME HaltInv, HaltAt(n + 1), Tick PROVE HaltWithin(n)'
  <2>1. ~haltedTimer /\ ~noReboot /\ TypeOK /\ Countdown
        /\ UNCHANGED <<tm, noReboot, kernelHalted>>
    BY <1>1 DEF HaltInv, ArmedWhileAwake, HaltAt, Tick, envVars
  <2>2. rebooted' \/ TicksLeft' = TicksLeft - 1
    BY <2>1, TickFalls
  <2>3. TicksLeft \in Nat
    <3>1. TicksLeft \in 1 .. 2048
      BY <2>1, TicksBounded
    <3> HIDE DEF TicksLeft
    <3> QED BY <3>1
  <2> QED BY <1>1, <2>1, <2>2, <2>3 DEF HaltAt, HaltWithin
<1>2. ASSUME HaltInv, HaltAt(n + 1), [Next]_vars, ~Tick PROVE HaltAt(n + 1)'
  <2>1. kernelHalted /\ ~asleep /\ life = "started"
    BY <1>2 DEF HaltInv, ArmedWhileAwake, HaltAt
  <2>2. UNCHANGED vars
    BY <1>2, <2>1 DEF Next, Probe, Start, Feed, SystemSleep, SystemWake, Shutdown, KernelHalt, Running
  <2> QED BY <1>2, <2>2 DEF vars, HaltAt, TicksLeft
<1>3. HaltInv /\ HaltAt(n + 1) /\ [Next]_vars => HaltAt(n + 1)' \/ HaltWithin(n)'
  BY <1>1, <1>2
<1>4. HaltInv /\ HaltAt(n + 1) /\ [Next]_vars /\ <<Tick>>_vars => HaltWithin(n)'
  BY <1>1
<1>5. HaltedTimerRuns /\ HaltAt(n + 1) => ENABLED <<Tick>>_vars
  BY DEF HaltedTimerRuns, HaltAt
<1>6. HaltWithin(n + 1) => HaltWithin(n) \/ HaltAt(n + 1)
  BY DEF HaltWithin
<1> QED BY <1>3, <1>4, <1>5, <1>6, HaltInductive, PTL DEF HaltFair, HaltComes, FairSpec, Spec

HaltLeads(d) == \A n \in Nat : HaltFair => HaltComes(n + d, n)

LEMMA HaltTwice == ASSUME NEW d \in Nat, HaltLeads(d) PROVE HaltLeads(d + d)
<1> SUFFICES ASSUME NEW n \in Nat PROVE HaltFair => HaltComes(n + (d + d), n)
  BY DEF HaltLeads
<1>1. HaltFair => HaltComes(n + d, n)
  BY DEF HaltLeads
<1>2. HaltFair => HaltComes((n + d) + d, n + d)
  BY DEF HaltLeads
<1>3. (n + d) + d = n + (d + d)
  OBVIOUS
<1>4. HaltFair => HaltComes(n + (d + d), n + d)
  BY <1>2, <1>3
<1> QED BY <1>1, <1>4, PTL DEF HaltComes

(***************************************************************************)
(* README, "device will do machine reset on kernel halt": for every        *)
(* Timeout and both versions, a halted kernel is reset, if the firmware    *)
(* let the driver enable reboots.  That the armed timer counts             *)
(* (HaltedTimerRuns) is a premise here.                                    *)
(***************************************************************************)
THEOREM HaltEndsInReset == FairSpec /\ []HaltedTimerRuns => HaltResets
<1>0. HaltLeads(1)
  BY HaltTick DEF HaltLeads
<1>1. HaltLeads(2)
  BY <1>0, HaltTwice, 1 + 1 = 2
<1>2. HaltLeads(4)
  BY <1>1, HaltTwice, 2 + 2 = 4
<1>3. HaltLeads(8)
  BY <1>2, HaltTwice, 4 + 4 = 8
<1>4. HaltLeads(16)
  BY <1>3, HaltTwice, 8 + 8 = 16
<1>5. HaltLeads(32)
  BY <1>4, HaltTwice, 16 + 16 = 32
<1>6. HaltLeads(64)
  BY <1>5, HaltTwice, 32 + 32 = 64
<1>7. HaltLeads(128)
  BY <1>6, HaltTwice, 64 + 64 = 128
<1>8. HaltLeads(256)
  BY <1>7, HaltTwice, 128 + 128 = 256
<1>9. HaltLeads(512)
  BY <1>8, HaltTwice, 256 + 256 = 512
<1>10. HaltLeads(1024)
  BY <1>9, HaltTwice, 512 + 512 = 1024
<1>11. HaltLeads(2048)
  BY <1>10, HaltTwice, 1024 + 1024 = 2048
<1>12. HaltFair => HaltComes(2048, 0)
  <2>1. HaltFair => HaltComes(0 + 2048, 0)
    BY <1>11 DEF HaltLeads
  <2> QED BY <2>1, 0 + 2048 = 2048
<1>13. HaltInv /\ SelfFeeding /\ kernelHalted /\ ~noReboot => HaltWithin(2048)
  BY TicksBounded DEF HaltInv, HaltWithin, HaltAt
<1>14. HaltInv /\ HaltWithin(0) => rebooted
  BY TicksBounded DEF HaltInv, HaltWithin, HaltAt
<1> QED BY <1>12, <1>13, <1>14, HaltInductive, PTL DEF HaltFair, HaltComes, HaltResets, FairSpec

-----------------------------------------------------------------------------
(* A program that stays stalled is reset                                   *)

\* Only a program that is there is stalled; a system that sleeps is not armed.
StallKnown == (stalled => fpc # "dead") /\ (asleep => haltedTimer)
StallInv == FeederTypeOK /\ TimerFlags /\ Programmed /\ StallKnown

LEMMA StallInductive == ASSUME ~SelfFeeding PROVE FeederSpec => []StallInv
<1>1. FeederInit => StallInv
  BY FeederTypeInit DEF FeederInit, Init, StallInv, TimerFlags, Programmed, StallKnown
<1>2. ASSUME StallInv, [FeederNext]_allVars PROVE StallInv'
  <2>1. FeederTypeOK' /\ TimerFlags' /\ Programmed'
    <3>1. FeederTypeOK /\ TimerFlags /\ Programmed
      BY <1>2 DEF StallInv
    <3> QED BY <1>2, <3>1, FeederTypeStep, FlagsInFeeder, ProgrammedStep
  <2>2. StallKnown'
    <3> USE <1>2 DEF StallInv, StallKnown, vars, feederVars, Running, Scheduled, envVars, timerVars
    <3>1. CASE Launch \/ SetTimer \/ Arm \/ Install \/ Bone \/ Stall
      BY <3>1 DEF Launch, SetTimer, Arm, Install, Bone, Stall, EnableTimer
    <3>2. ASSUME NEW sig \in Signals, Caught(sig) \/ Uncaught(sig) PROVE StallKnown'
      BY <3>2 DEF Caught, Uncaught, DisableTimer, Die
    <3>3. CASE FeederTick
      BY <3>3 DEF FeederTick, Tick
    <3>4. CASE (Shutdown \/ Probe \/ Start \/ SystemSleep \/ SystemWake \/ KernelHalt)
               /\ UNCHANGED feederVars
      BY <3>4 DEF Shutdown, Probe, Start, SystemSleep, SystemWake, KernelHalt, EnableTimer,
                  DisableTimer, TimerFlags
    <3>5. CASE UNCHANGED allVars
      BY <3>5 DEF allVars
    <3> QED BY <1>2, <3>1, <3>2, <3>3, <3>4, <3>5 DEF FeederNext
  <2> QED BY <2>1, <2>2 DEF StallInv
<1> QED BY <1>1, <1>2, PTL DEF FeederSpec

Stands         == stalled /\ ~haltedTimer /\ ~noReboot
StallAt(n)     == ~SelfFeeding /\ ~rebooted /\ Stands /\ TicksLeft <= n
StallWithin(n) == rebooted \/ StallAt(n)
StallComes(n, m) == [](StallWithin(n) /\ []Stands => <>StallWithin(m))
StallFair == FairFeederSpec /\ []StalledTimerRuns

LEMMA StallTick ==
    ASSUME ~SelfFeeding, NEW n \in Nat PROVE StallFair => StallComes(n + 1, n)
<1>1. ASSUME StallInv, StallAt(n + 1), FeederTick, Stands' PROVE StallWithin(n)'
  <2>1. ~haltedTimer /\ ~noReboot /\ TypeOK /\ Countdown /\ UNCHANGED tm
    BY <1>1 DEF StallInv, FeederTypeOK, StallAt, Stands, FeederTick, Tick
  <2>2. rebooted' \/ TicksLeft' = TicksLeft - 1
    BY <2>1, TickFalls
  <2>3. TicksLeft \in Nat
    <3>1. TicksLeft \in 1 .. 2048
      BY <2>1, TicksBounded
    <3> HIDE DEF TicksLeft
    <3> QED BY <3>1
  <2>4. TicksLeft' = TicksLeft - 1 => TicksLeft' <= n
    BY <1>1, <2>3 DEF StallAt
  <2> QED BY <1>1, <2>2, <2>4, Zenon DEF StallAt, StallWithin
<1>2. ASSUME StallInv, StallAt(n + 1), [FeederNext]_allVars, ~FeederTick, Stands'
      PROVE  StallAt(n + 1)'
  <2>1. /\ stalled /\ ~asleep /\ life = "started" /\ fpc # "dead" /\ stalled' /\ ~haltedTimer'
    BY <1>2 DEF StallInv, StallKnown, Programmed, StallAt, Stands
  <2>2. \/ UNCHANGED allVars \/ KernelHalt
    BY <1>2, <2>1 DEF FeederNext, Launch, SetTimer, Arm, Install, Bone, Stall, Caught, Uncaught,
       Scheduled, Shutdown, Probe, Start, SystemSleep, SystemWake, DisableTimer
  <2>3. UNCHANGED timerVars
    BY <2>2 DEF allVars, vars, KernelHalt, timerVars
  <2> QED BY <1>2, <2>3 DEF timerVars, StallAt, TicksLeft
<1>3. StallInv /\ StallAt(n + 1) /\ [FeederNext]_allVars /\ Stands' => StallAt(n + 1)' \/ StallWithin(n)'
  BY <1>1, <1>2
<1>4. StallInv /\ StallAt(n + 1) /\ <<FeederTick>>_allVars /\ Stands' => StallWithin(n)'
  BY <1>1
<1>5. StalledTimerRuns /\ StallAt(n + 1) => ENABLED <<FeederTick>>_allVars
  BY DEF StalledTimerRuns, StallAt, Stands
<1>6. StallWithin(n + 1) => StallWithin(n) \/ StallAt(n + 1)
  BY DEF StallWithin
<1> QED BY <1>3, <1>4, <1>5, <1>6, StallInductive, PTL
        DEF StallFair, StallComes, FairFeederSpec, FeederSpec

StallLeads(d) == \A n \in Nat : StallFair => StallComes(n + d, n)

LEMMA StallTwice == ASSUME NEW d \in Nat, StallLeads(d) PROVE StallLeads(d + d)
<1> SUFFICES ASSUME NEW n \in Nat PROVE StallFair => StallComes(n + (d + d), n)
  BY DEF StallLeads
<1>1. StallFair => StallComes(n + d, n)
  BY DEF StallLeads
<1>2. StallFair => StallComes((n + d) + d, n + d)
  BY DEF StallLeads
<1>3. (n + d) + d = n + (d + d)
  OBVIOUS
<1>4. StallFair => StallComes(n + (d + d), n + d)
  BY <1>2, <1>3
<1> QED BY <1>1, <1>4, PTL DEF StallComes

(***************************************************************************)
(* README, "reboot will also occur on process scheduling failure": for     *)
(* every Timeout, both versions and any delay of launchd, a program that   *)
(* stays stalled under an armed timer is answered with a reset, if nobody  *)
(* else feeds.  That the timer counts (StalledTimerRuns) is a premise.     *)
(***************************************************************************)
THEOREM StallEndsInReset ==
    ~SelfFeeding => (FairFeederSpec /\ []StalledTimerRuns => StallResets)
<1> SUFFICES ASSUME ~SelfFeeding PROVE FairFeederSpec /\ []StalledTimerRuns => StallResets
  OBVIOUS
<1>0. StallLeads(1)
  BY StallTick DEF StallLeads
<1>1. StallLeads(2)
  BY <1>0, StallTwice, 1 + 1 = 2
<1>2. StallLeads(4)
  BY <1>1, StallTwice, 2 + 2 = 4
<1>3. StallLeads(8)
  BY <1>2, StallTwice, 4 + 4 = 8
<1>4. StallLeads(16)
  BY <1>3, StallTwice, 8 + 8 = 16
<1>5. StallLeads(32)
  BY <1>4, StallTwice, 16 + 16 = 32
<1>6. StallLeads(64)
  BY <1>5, StallTwice, 32 + 32 = 64
<1>7. StallLeads(128)
  BY <1>6, StallTwice, 64 + 64 = 128
<1>8. StallLeads(256)
  BY <1>7, StallTwice, 128 + 128 = 256
<1>9. StallLeads(512)
  BY <1>8, StallTwice, 256 + 256 = 512
<1>10. StallLeads(1024)
  BY <1>9, StallTwice, 512 + 512 = 1024
<1>11. StallLeads(2048)
  BY <1>10, StallTwice, 1024 + 1024 = 2048
<1>12. StallFair => StallComes(2048, 0)
  <2>1. StallFair => StallComes(0 + 2048, 0)
    BY <1>11 DEF StallLeads
  <2> QED BY <2>1, 0 + 2048 = 2048
<1>13. StallInv /\ Stands => StallWithin(2048)
  BY TicksBounded DEF StallInv, FeederTypeOK, StallWithin, StallAt
<1>14. StallInv /\ StallWithin(0) => rebooted
  BY TicksBounded DEF StallInv, FeederTypeOK, StallWithin, StallAt
<1>15. (stalled /\ ~haltedTimer /\ ~noReboot) <=> Stands
  BY DEF Stands
<1> QED BY <1>12, <1>13, <1>14, <1>15, StallInductive, PTL
        DEF StallFair, StallComes, StallResets, FairFeederSpec
=============================================================================
