----------------------------- MODULE MegaRAIDPower -----------------------------
(***************************************************************************)
(* The life of a SASMegaRAID controller: Attach, MRAID_Sleep, MRAID_WakeUp,*)
(* MRAID_Shutdown and TerminateController, with what they share with the   *)
(* rest of the driver: three flags, the interrupt event source, the reply  *)
(* queue memory, the tasks ProcessParallelTask goes on admitting, and the  *)
(* commands of programs that come through MRAID_Ioctl.                     *)
(*                                                                         *)
(* One thread, Pm, runs the life-cycle calls.  Each is a chain of steps;   *)
(* the management commands in it are sent polled or interrupt driven as    *)
(* Do_Management decides, and the chain goes on by what Management says.   *)
(* Single commands are the matter of MegaRAIDCommands: here a reply is a   *)
(* member of a set and a ccb is not named.                                 *)
(*                                                                         *)
(* Any request may fail or be late, and tasks may be under way when a      *)
(* power change begins.  smooth and drained remember that none of this has *)
(* happened yet: what the driver promises only then is stated under them.  *)
(***************************************************************************)
EXTENDS Naturals, FiniteSets, FirmwareOutcome

CONSTANTS
    Tasks,         \* SCSI tasks (writes) that may be outstanding
    Users,         \* threads of programs that pass commands through
    Pm,            \* the thread that runs the life-cycle calls
    PreferMSI,     \* Settings/PreferMSI
    HasMSI,        \* the PCI device offers message signalled interrupts
    Wired,         \* the controller's interrupts reach the processor
    MaxSleeps,     \* bound: how often the system goes to sleep
    MaxUnderWay    \* bound: tasks and users that are under way at once

ASSUME FlagsAssumption == {PreferMSI, HasMSI, Wired} \subseteq BOOLEAN
ASSUME BoundsAssumption == MaxSleeps \in Nat /\ MaxUnderWay \in Nat \ {0}
ASSUME NamesAssumption == Pm \notin Tasks \cup Users /\ Tasks \cap Users = {}

\* Attach and each wake-up create an interrupt event source.
Sources == 1 .. MaxSleeps + 1

VARIABLES
    fw,                    \* what the controller's firmware is doing
    late,                  \* commands it holds that Pm no longer waits for
    dirty, lost,           \* data in its cache; data that power loss took
    unmasked,              \* the controller may raise interrupts
    FirmwareInitialized, InterruptsActivated, EnteredSleep,
    created, refs, on,     \* event sources: count, retains, work loop chain
    fInterruptSrc,         \* the source the driver points to, 0 for NULL
    MyWorkLoop,            \* whether the work loop pointer is not NULL
    stale,                 \* a freed event source was used
    replies, held,         \* unread replies; what each running handler took
    tpc, upc,              \* where each task and each user is
    ppc, mgmt, heard,      \* the life-cycle thread and its command
    sleeps,
    smooth,                \* nothing failed or was late so far (history)
    drained                \* no task and no user was under way when a change
                           \* began, no user came during a termination (history)

fwVars     == <<fw, late, dirty, lost, unmasked>>
flagVars   == <<FirmwareInitialized, InterruptsActivated, EnteredSleep>>
sourceVars == <<created, refs, on, fInterruptSrc, MyWorkLoop, stale>>
queueVars  == <<replies, held>>
pmVars     == <<ppc, mgmt, heard, sleeps>>
history    == <<smooth, drained>>
requests   == <<tpc, upc>>
vars == <<fw, late, dirty, lost, unmasked, FirmwareInitialized, InterruptsActivated,
          EnteredSleep, created, refs, on, fInterruptSrc, MyWorkLoop, stale,
          replies, held, tpc, upc, ppc, mgmt, heard, sleeps, smooth, drained>>

-----------------------------------------------------------------------------
(* The management commands of each chain, and where it goes on afterwards. *)

OpOf   == [a_init  |-> "init",  a_info |-> "info",      w_init  |-> "init",
           s_flush |-> "flush", s_hib  |-> "hibernate", d_flush |-> "flush",
           d_shut  |-> "shutdown", t_flush |-> "flush", t_shut |-> "shutdown"]
OnOk   == [a_init  |-> "a_enable", a_info |-> "running", w_init |-> "w_intr",
           s_flush |-> "s_hib",  s_hib  |-> "s_quiet",  d_flush |-> "d_shut",
           d_shut  |-> "halt",   t_flush |-> "t_shut",  t_shut  |-> "t_quiet"]
OnFail == [a_init  |-> "failed", a_info |-> "failed",   w_init  |-> "w_end",
           s_flush |-> "asleep", s_hib  |-> "asleep",   d_flush |-> "halt",
           d_shut  |-> "halt",   t_flush |-> "t_quiet", t_shut  |-> "t_quiet"]

Sending == DOMAIN OpOf
Idle    == [mode |-> "none", st |-> "none"]
PPCs    == Sending \cup {"a_trans", "a_intr", "a_enable", "running", "failed",
             "s_quiet", "s_drop", "asleep", "unpowered", "w_trans", "w_intr", "w_enable",
             "w_end", "t_quiet", "t_drop", "halt", "off", "gone"}

\* An enabled source hears an interrupt the controller may raise.
Hearing == Wired /\ unmasked /\ \E s \in Sources : on[s] = "enabled"

Init ==
    /\ fw \in {"boot", "up"} /\ late = {} /\ dirty = FALSE /\ lost = FALSE
    /\ unmasked = FALSE
    /\ FirmwareInitialized = FALSE /\ InterruptsActivated = FALSE
    \* until Attach is over, EnteredSleep holds the option AllowSleep
    /\ EnteredSleep \in BOOLEAN
    /\ created = 0 /\ fInterruptSrc = 0 /\ MyWorkLoop = FALSE /\ stale = FALSE
    /\ refs = [s \in Sources |-> 0] /\ on = [s \in Sources |-> "none"]
    /\ replies = {} /\ held = [s \in Sources |-> {}]
    /\ tpc = [t \in Tasks |-> "idle"] /\ upc = [u \in Users |-> "idle"]
    /\ ppc = "a_trans" /\ mgmt = Idle /\ heard = FALSE /\ sleeps = 0
    /\ smooth = TRUE /\ drained = TRUE

-----------------------------------------------------------------------------
(* Steps that several chains share                                         *)

Goto(to) == ppc' = to /\ UNCHANGED <<mgmt, heard, sleeps>>

\* Transition_Firmware answers after the firmware got ready, failed or stuck.
\* Its loop has no limit on the states of the firmware: the step may never come,
\* and nothing here says it does (FirmwareTransition has the loop itself).
Transition(ready, notReady) ==
    \E isReady \in BOOLEAN :
        /\ fw' \in {fw, "ready", "fault"} /\ Outcome(fw, fw', isReady)
        /\ Goto(IF isReady THEN ready ELSE notReady)
        /\ smooth' = (smooth /\ isReady)

\* Message interrupts where they are wanted and there, else the level interrupt
\* every provider is taken to have.
fMSIEnabled == PreferMSI /\ HasMSI

\* Mutant of CreateDeviceInterrupt: a source that is there already is taken.
CreateOnlyOnce(ok, notOk) ==
    LET new == IF fInterruptSrc # 0 THEN fInterruptSrc ELSE created + 1
        state == IF fMSIEnabled THEN "attached" ELSE "enabled"
    IN  /\ created' = IF new > created THEN new ELSE created
        /\ fInterruptSrc' = new /\ MyWorkLoop' = TRUE
        /\ refs' = IF fInterruptSrc # 0 THEN refs ELSE [refs EXCEPT ![new] = 2]
        /\ on' = [on EXCEPT ![new] = state]
        /\ Goto(ok) /\ UNCHANGED smooth

\* PCIHelper::CreateDeviceInterrupt: a new work loop, a new source, the chain.
\* It may fail before the source, at the source, or at the chain.
CreateDeviceInterrupt(ok, notOk) ==
    LET new == created + 1
        \* a filter source on a line that is shared is enabled here
        state == IF fMSIEnabled THEN "attached" ELSE "enabled"
    IN  \/ /\ created' = new /\ fInterruptSrc' = new /\ MyWorkLoop' = TRUE
           /\ refs' = [refs EXCEPT ![new] = 2] /\ on' = [on EXCEPT ![new] = state]
           /\ Goto(ok) /\ UNCHANGED smooth
        \/ /\ Goto(notOk) /\ smooth' = FALSE /\ UNCHANGED on
           /\ \/ MyWorkLoop' = FALSE /\ UNCHANGED <<created, refs, fInterruptSrc>>
              \/ MyWorkLoop' = TRUE /\ fInterruptSrc' = 0 /\ UNCHANGED <<created, refs>>
              \/ /\ MyWorkLoop' = TRUE /\ created' = new /\ fInterruptSrc' = new
                 /\ refs' = [refs EXCEPT ![new] = 1]

\* Mutant of EnableInterrupts: with MSI the source is left disabled.
EnableControllerOnly ==
    /\ UNCHANGED on
    /\ unmasked' = TRUE /\ InterruptsActivated' = TRUE

\* if (PreferMSI) enable(); mraid_intr_enable(); InterruptsActivated = true
EnableInterrupts ==
    /\ on' = IF PreferMSI THEN [on EXCEPT ![fInterruptSrc] = "enabled"] ELSE on
    /\ unmasked' = TRUE /\ InterruptsActivated' = TRUE

\* Only if InterruptsActivated does the driver mask the controller.
DisableInterrupts ==
    /\ unmasked' = (unmasked /\ ~InterruptsActivated)
    /\ InterruptsActivated' = FALSE


\* Mutant of DropSource: released, and left in the work loop's chain.
DropReleaseOnly ==
    LET s == fInterruptSrc
    IN  IF s = 0
        THEN UNCHANGED sourceVars
        ELSE /\ stale' = (stale \/ refs[s] = 0)
             /\ refs' = [refs EXCEPT ![s] = IF @ = 0 THEN 0 ELSE @ - 1]
             /\ UNCHANGED <<created, on, fInterruptSrc, MyWorkLoop>>

(***************************************************************************)
(* removeEventSource takes the work loop's gate, so it waits for a running *)
(* handler, and drops the chain's retain; release drops the driver's.      *)
(* fInterruptSrc keeps its value.                                          *)
(***************************************************************************)
DropSource ==
    LET s == fInterruptSrc
        chained == MyWorkLoop /\ on[s] # "none"
        left == IF chained THEN refs[s] - 1 ELSE refs[s]
    IN  IF s = 0
        THEN UNCHANGED sourceVars
        ELSE /\ held[s] = {}
             /\ stale' = (stale \/ refs[s] = 0)
             /\ refs' = [refs EXCEPT ![s] = IF left = 0 THEN 0 ELSE left - 1]
             /\ on' = IF chained THEN [on EXCEPT ![s] = "none"] ELSE on
             /\ UNCHANGED <<created, fInterruptSrc, MyWorkLoop>>

-----------------------------------------------------------------------------
(* Do_Management, MRAID_Poll and MRAID_Exec                                *)

\* Initialize_Firmware polls by itself, Do_Management asks the flag.
Send ==
    /\ ppc \in Sending /\ mgmt = Idle
    /\ LET polled == OpOf[ppc] = "init" \/ ~InterruptsActivated
       IN  mgmt' = [mode |-> IF polled THEN "poll" ELSE "exec", st |-> "posted"]
    /\ heard' = FALSE
    /\ UNCHANGED <<fwVars, flagVars, sourceVars, queueVars, requests, ppc, sleeps, history>>

\* External: the firmware carries out a command.
Carry(op) ==
    /\ fw = (IF op = "init" THEN "ready" ELSE "up")
    /\ fw' = (IF op \in {"hibernate", "shutdown"} THEN "down" ELSE "up")
    /\ dirty' = (dirty /\ op # "flush")

\* External: a frame marked DONT_POST_IN_REPLY_QUEUE, as polled ones, is not replied.
Perform ==
    /\ ppc \in Sending /\ mgmt.st = "posted"
    /\ \/ Carry(OpOf[ppc]) /\ mgmt' = [mgmt EXCEPT !.st = "ok"] /\ UNCHANGED smooth
       \/ /\ fw \in {"ready", "up"} /\ UNCHANGED <<fw, dirty>>
          /\ mgmt' = [mgmt EXCEPT !.st = "error"] /\ smooth' = FALSE
    /\ replies' = IF mgmt.mode = "exec" THEN replies \cup {Pm} ELSE replies
    /\ UNCHANGED <<late, lost, unmasked, flagVars, sourceVars, held, requests, ppc,
                   heard, sleeps, drained>>

\* External: what Pm gave up waiting for is carried out all the same.
PerformLate ==
    \E op \in late :
        /\ Carry(op) /\ late' = late \ {op}
        /\ replies' \in {replies, replies \cup {Pm}}   \* polled, interrupt driven
        /\ UNCHANGED <<lost, unmasked, flagVars, sourceVars, held, requests, pmVars, history>>

\* Mutant of Answer: the wait for a status has no limit.
AnswerPatient ==
    /\ ppc \in Sending /\ mgmt.st \in {"ok", "error"}
    /\ smooth' = (smooth /\ (mgmt.mode = "exec" => heard))
    /\ ppc' = IF mgmt.st = "ok" THEN OnOk[ppc] ELSE OnFail[ppc]
    /\ FirmwareInitialized' =
         (CASE mgmt.st = "ok" /\ OpOf[ppc] = "init" -> TRUE
            [] mgmt.st = "ok" /\ OpOf[ppc] \in {"hibernate", "shutdown"} -> FALSE
            [] OTHER -> FirmwareInitialized)
    /\ EnteredSleep' = (EnteredSleep /\ ppc' # "running")
    /\ mgmt' = Idle
    /\ UNCHANGED <<fwVars, InterruptsActivated,
                   sourceVars, queueVars, requests, heard, sleeps, drained>>

\* MRAID_Poll leaves its loop on a status, or after 500 cycles without one;
\* MRAID_Exec leaves its sleep when woken, or after one second.
Answered == mgmt.st \in {"ok", "error"} /\ (mgmt.mode = "exec" => heard)

(***************************************************************************)
(* The caller reads mrh_cmd_status.  MRAID_Poll set it to 0xff before the  *)
(* post; before MRAID_Exec it is the 0x0 of scrubCommand, MRAID_STAT_OK.   *)
(***************************************************************************)
Success == mgmt.st = "ok" \/ (mgmt.mode = "exec" /\ mgmt.st = "posted")

Answer ==
    /\ ppc \in Sending /\ mgmt # Idle
    /\ smooth' = (smooth /\ Answered)
    /\ ppc' = IF Success THEN OnOk[ppc] ELSE OnFail[ppc]
    /\ FirmwareInitialized' =
         (CASE Success /\ OpOf[ppc] = "init" -> TRUE
            [] Success /\ OpOf[ppc] \in {"hibernate", "shutdown"} -> FALSE
            [] OTHER -> FirmwareInitialized)
    /\ EnteredSleep' = (EnteredSleep /\ ppc' # "running")
    /\ late' = IF mgmt.st = "posted" THEN late \cup {OpOf[ppc]} ELSE late
    /\ mgmt' = Idle
    /\ UNCHANGED <<fw, dirty, lost, unmasked, InterruptsActivated,
                   sourceVars, queueVars, requests, heard, sleeps, drained>>

-----------------------------------------------------------------------------
(* Attach                                                                  *)

AttachTransition ==
    /\ ppc = "a_trans" /\ Transition("a_intr", "failed")
    /\ UNCHANGED <<late, dirty, lost, unmasked, flagVars, sourceVars, queueVars, requests, drained>>

AttachInterrupt ==
    /\ ppc = "a_intr" /\ CreateDeviceInterrupt("a_init", "failed")
    /\ UNCHANGED <<fwVars, flagVars, stale, queueVars, requests, drained>>

\* GetInfo follows, "in exec mode in order to ensure that interrupts work"; of
\* GetBBUInfo after it only a log line and the battery's state depend.
AttachEnable ==
    /\ ppc = "a_enable" /\ EnableInterrupts /\ Goto("a_info")
    /\ UNCHANGED <<fw, late, dirty, lost, FirmwareInitialized, EnteredSleep,
                   created, refs, fInterruptSrc, MyWorkLoop, stale, queueVars, requests, history>>

-----------------------------------------------------------------------------
(* Sleep, wake-up, shutdown, termination                                   *)

\* A program's command is under way until its reply is read, were it given up.
UnderWay   == {t \in Tasks : tpc[t] # "idle"}
              \cup {u \in Users : upc[u] # "idle" \/ u \in replies}
NoRequests == UnderWay = {}

\* Mutant of Sleep: EnteredSleep is not set before MRAID_Sleep.
SleepAdmitting ==
    /\ ppc = "running" /\ sleeps < MaxSleeps
    /\ sleeps' = sleeps + 1
    /\ drained' = (drained /\ NoRequests)
    /\ ppc' = IF FirmwareInitialized THEN "s_flush" ELSE "s_quiet"
    /\ UNCHANGED <<fwVars, flagVars, sourceVars, queueVars, requests, mgmt, heard, smooth>>

\* setPowerState(MRAID_POWER_SLEEP): the flag first, then MRAID_Sleep.
Sleep ==
    /\ ppc = "running" /\ sleeps < MaxSleeps
    /\ EnteredSleep' = TRUE /\ sleeps' = sleeps + 1
    /\ drained' = (drained /\ NoRequests)
    /\ ppc' = IF FirmwareInitialized THEN "s_flush" ELSE "s_quiet"
    /\ UNCHANGED <<fwVars, FirmwareInitialized, InterruptsActivated, sourceVars,
                   queueVars, requests, mgmt, heard, smooth>>

\* The rest of MRAID_Sleep and of TerminateController: interrupts off, ...
Mask(from, to) ==
    /\ ppc = from /\ DisableInterrupts /\ Goto(to)
    /\ UNCHANGED <<fw, late, dirty, lost, FirmwareInitialized, EnteredSleep, sourceVars,
                   queueVars, requests, history>>

\* ... source gone.
Drop(from, to) ==
    /\ ppc = from /\ DropSource /\ Goto(to)
    /\ UNCHANGED <<fwVars, flagVars, queueVars, requests, history>>

\* Mutant of TerminateMask: nothing is turned off.
TerminateLoud ==
    /\ ppc = "t_quiet" /\ Goto("gone")
    /\ UNCHANGED <<fwVars, flagVars, sourceVars, queueVars, requests, history>>

SleepMask     == Mask("s_quiet", "s_drop")
SleepDrop     == Drop("s_drop", "asleep")
TerminateMask == Mask("t_quiet", "t_drop")
TerminateDrop == Drop("t_drop", "gone")

\* External: setPowerState acknowledged, whatever came of it; power goes.
PowerOff ==
    /\ ppc \in {"asleep", "halt"}
    /\ lost' = (lost \/ dirty) /\ dirty' = FALSE /\ unmasked' = FALSE /\ late' = {}
    /\ fw' \in {"boot", "fault"} /\ smooth' = (smooth /\ fw' = "boot")
    /\ Goto(IF ppc = "asleep" THEN "unpowered" ELSE "off")
    /\ UNCHANGED <<flagVars, sourceVars, queueVars, requests, drained>>

\* Mutant of WakeUp: tasks are admitted again before MRAID_WakeUp.
WakeUpAdmitting ==
    /\ ppc = "unpowered" /\ Goto("w_trans")
    /\ EnteredSleep' = FALSE
    /\ UNCHANGED <<fwVars, FirmwareInitialized, InterruptsActivated, sourceVars,
                   queueVars, requests, history>>

\* setPowerState(MRAID_POWER_ACTIVE) enters MRAID_WakeUp.
WakeUp ==
    /\ ppc = "unpowered" /\ Goto("w_trans")
    /\ UNCHANGED <<fwVars, flagVars, sourceVars, queueVars, requests, history>>

\* Once the firmware is ready, producer and consumer are zeroed.
WakeTransition ==
    /\ ppc = "w_trans" /\ Transition("w_init", "w_end")
    /\ replies' = IF ppc' = "w_init" THEN {} ELSE replies
    /\ UNCHANGED <<late, dirty, lost, unmasked, flagVars, sourceVars, held, requests, drained>>

WakeInterrupt ==
    /\ ppc = "w_intr" /\ CreateDeviceInterrupt("w_enable", "w_end")
    /\ UNCHANGED <<fwVars, flagVars, stale, queueVars, requests, drained>>

WakeEnable ==
    /\ ppc = "w_enable" /\ EnableInterrupts /\ Goto("w_end")
    /\ UNCHANGED <<fw, late, dirty, lost, FirmwareInitialized, EnteredSleep,
                   created, refs, fInterruptSrc, MyWorkLoop, stale, queueVars, requests, history>>

\* However MRAID_WakeUp returned, tasks are admitted again.
WakeEnd ==
    /\ ppc = "w_end" /\ EnteredSleep' = FALSE /\ Goto("running")
    /\ UNCHANGED <<fwVars, FirmwareInitialized, InterruptsActivated, sourceVars,
                   queueVars, requests, history>>

\* systemWillShutdown: MRAID_Shutdown, nothing else.
Shutdown ==
    /\ ppc = "running" /\ drained' = (drained /\ NoRequests)
    /\ Goto(IF FirmwareInitialized THEN "d_flush" ELSE "halt")
    /\ UNCHANGED <<fwVars, flagVars, sourceVars, queueVars, requests, smooth>>

\* TerminateController, for a controller that was attached and for one that was not.
Terminate ==
    /\ ppc \in {"running", "failed"} /\ drained' = (drained /\ NoRequests)
    /\ Goto(IF FirmwareInitialized THEN "t_flush" ELSE "t_quiet")
    /\ UNCHANGED <<fwVars, flagVars, sourceVars, queueVars, requests, smooth>>

-----------------------------------------------------------------------------
(* Tasks                                                                   *)

\* What the thread is in, apart from power changes.
Attaching   == {"a_trans", "a_intr", "a_init", "a_enable", "a_info", "failed"}
GoingDown   == {"d_flush", "d_shut", "halt", "off"}
Terminating == {"t_flush", "t_shut", "t_quiet", "t_drop"}

\* External: the SCSI family sends tasks to a controller that is attached, and
\* none once the system goes down or the driver is terminated.
FamilyCalls == ppc \notin Attaching \cup GoingDown \cup Terminating \cup {"gone"}

\* Bound: no more than MaxUnderWay requests are under way with this one.
Room(r) == Cardinality(UnderWay \ {r}) < MaxUnderWay

\* ProcessParallelTask reads EnteredSleep ...
Admit(t) ==
    /\ FamilyCalls /\ Room(t)
    /\ tpc[t] = "idle" /\ ~EnteredSleep
    /\ tpc' = [tpc EXCEPT ![t] = "admitted"]
    /\ UNCHANGED <<fwVars, flagVars, sourceVars, queueVars, upc, pmVars, history>>

\* ... and posts the frame some time later.
Post(t) ==
    /\ tpc[t] = "admitted"
    /\ tpc' = [tpc EXCEPT ![t] = "posted"]
    /\ UNCHANGED <<fwVars, flagVars, sourceVars, queueVars, upc, pmVars, history>>

\* External: the firmware takes a write into its cache and replies.
Write(t) ==
    /\ tpc[t] = "posted" /\ fw = "up"
    /\ dirty' = TRUE /\ replies' = replies \cup {t}
    /\ tpc' = [tpc EXCEPT ![t] = "replied"]
    /\ UNCHANGED <<fw, late, lost, unmasked, flagVars, sourceVars, held, upc, pmVars, history>>

-----------------------------------------------------------------------------
(* The ioctl MFIIO_PASSTHRU                                                *)

\* External: the device node is there from Attach until the object is freed;
\* programs are gone when the system shuts down.
ProgramsCall == ppc \notin Attaching \cup GoingDown \cup {"gone"}

\* Bound: no program comes once something failed, when nothing is promised to it.
Promised == smooth

\* MRAID_Ioctl reads EnteredSleep.
Ask(u) ==
    /\ ProgramsCall /\ Promised /\ Room(u)
    /\ upc[u] = "idle" /\ ~EnteredSleep
    /\ upc' = [upc EXCEPT ![u] = "admitted"]
    /\ drained' = (drained /\ ppc \notin Terminating)
    /\ UNCHANGED <<fwVars, flagVars, sourceVars, queueVars, tpc, pmVars, smooth>>

\* It may get no memory.  It waited for that and for a ccb when Do_Management
\* sees whether to poll or to sleep.
Command(u) ==
    /\ upc[u] = "admitted"
    /\ \E to \in {"idle", IF InterruptsActivated THEN "asleep" ELSE "polling"} :
          upc' = [upc EXCEPT ![u] = to]
    /\ UNCHANGED <<fwVars, flagVars, sourceVars, queueVars, tpc, pmVars, history>>

\* External: the command is carried out, and leaves the cache alone.
Execute(u) ==
    /\ upc[u] \in {"asleep", "polling"} /\ fw = "up"
    /\ upc' = [upc EXCEPT ![u] = IF @ = "asleep" THEN "replied" ELSE "answered"]
    /\ replies' = IF upc[u] = "asleep" THEN replies \cup {u} ELSE replies
    /\ UNCHANGED <<fwVars, flagVars, sourceVars, held, tpc, pmVars, history>>

\* It returns with the answer, or without one after its time.
IoctlReturn(u) ==
    /\ upc[u] \notin {"idle", "admitted"}
    /\ smooth' = (smooth /\ upc[u] \in {"answered", "woken"})
    /\ upc' = [upc EXCEPT ![u] = "idle"]
    /\ UNCHANGED <<fwVars, flagVars, sourceVars, queueVars, tpc, pmVars, drained>>

-----------------------------------------------------------------------------
(* Handlers                                                                *)

\* The handler on s reads producer and consumer, ...
HandlerStart(s) ==
    /\ Wired /\ unmasked /\ on[s] = "enabled"
    /\ replies # {} /\ held[s] = {}
    /\ held' = [held EXCEPT ![s] = replies]
    /\ UNCHANGED <<fwVars, flagVars, sourceVars, replies, requests, pmVars, history>>

(***************************************************************************)
(* ... completes what lay between them and moves consumer.  A reply of Pm  *)
(* or of a user wakes it: of a command it gave up, too, as the pool is     *)
(* LIFO and hands the same ccb out again.                                  *)
(***************************************************************************)
HandlerEnd(s) ==
    /\ held[s] # {}
    /\ replies' = replies \ held[s]
    /\ held' = [held EXCEPT ![s] = {}]
    /\ tpc' = [t \in Tasks |-> IF t \in held[s] THEN "idle" ELSE tpc[t]]
    /\ upc' = [u \in Users |-> IF u \in held[s] /\ upc[u] \in {"asleep", "replied"}
                                 THEN "woken" ELSE upc[u]]
    /\ heard' = (heard \/ (Pm \in held[s] /\ mgmt.mode = "exec"))
    /\ UNCHANGED <<fwVars, flagVars, sourceVars, ppc, mgmt, sleeps, history>>

-----------------------------------------------------------------------------
\* What the thread does by itself, and what it leaves to the firmware's moves.
OwnStep ==
    \/ Send \/ Answer
    \/ AttachInterrupt \/ AttachEnable
    \/ SleepMask \/ SleepDrop \/ WakeInterrupt \/ WakeEnable \/ WakeEnd
    \/ TerminateMask \/ TerminateDrop
PmStep == OwnStep \/ AttachTransition \/ WakeTransition

TaskStep(t) == Admit(t) \/ Post(t) \/ Write(t)
UserStep(u) == Ask(u) \/ Command(u) \/ Execute(u) \/ IoctlReturn(u)
Handler(s)  == HandlerStart(s) \/ HandlerEnd(s)

Next ==
    \/ PmStep \/ Sleep \/ WakeUp \/ Shutdown \/ Terminate
    \/ Perform \/ PerformLate \/ PowerOff
    \/ \E t \in Tasks : TaskStep(t)
    \/ \E u \in Users : UserStep(u)
    \/ \E s \in Sources : Handler(s)

Spec == Init /\ [][Next]_vars

\* removeEventSource waits at the gate for the handler of the source to end.
AwaitsHandler ==
    ppc \in {"s_drop", "t_drop"} /\ \E s \in Sources : s = fInterruptSrc /\ held[s] # {}
EndAwaited == \E s \in Sources : s = fInterruptSrc /\ HandlerEnd(s)

\* The thread and the work loop it may wait for are scheduled; nothing is asked
\* of the firmware, on which the end of Transition_Firmware depends.
FairSpec == Spec /\ WF_vars(OwnStep) /\ WF_vars(EndAwaited)

-----------------------------------------------------------------------------
(* Properties                                                              *)

\* What the variables range over.
TypeOK ==
    /\ fw \in {"boot", "ready", "up", "down", "fault"}
    /\ late \subseteq {"init", "info", "flush", "hibernate", "shutdown"}
    /\ {dirty, lost, unmasked, FirmwareInitialized, InterruptsActivated,
        EnteredSleep, MyWorkLoop, stale, heard, smooth, drained} \subseteq BOOLEAN
    /\ created \in 0 .. MaxSleeps + 1 /\ fInterruptSrc \in 0 .. created
    /\ refs \in [Sources -> 0 .. 2]
    /\ on \in [Sources -> {"none", "attached", "enabled"}]
    /\ replies \subseteq Tasks \cup Users \cup {Pm}
    /\ held \in [Sources -> SUBSET (Tasks \cup Users \cup {Pm})]
    /\ tpc \in [Tasks -> {"idle", "admitted", "posted", "replied"}]
    /\ upc \in [Users -> {"idle", "admitted", "polling", "asleep", "replied", "answered",
                          "woken"}]
    /\ ppc \in PPCs /\ sleeps \in 0 .. MaxSleeps
    /\ mgmt \in [mode : {"none", "poll", "exec"}, st : {"none", "posted", "ok", "error"}]

(***************************************************************************)
(* No write the controller acknowledged is lost when power goes: the cache *)
(* is flushed before the firmware is told to hibernate or to shut down,    *)
(* and EnteredSleep lets no write in behind the flush.                     *)
(***************************************************************************)
NothingLost == smooth /\ drained => ~lost

(***************************************************************************)
(* A task or a command of a program is only ever handed to a firmware that *)
(* runs: EnteredSleep is set before MRAID_Sleep begins and cleared after   *)
(* MRAID_WakeUp is through.                                                *)
(***************************************************************************)
PostedToLive ==
    smooth /\ drained =>
        /\ \A t \in Tasks : tpc[t] = "posted" => fw = "up"
        /\ \A u \in Users : upc[u] \in {"asleep", "polling"} => fw = "up"

\* The event source fInterruptSrc keeps pointing to after its release is not
\* used again: each sleep and the termination release the source of their own.
NoStaleSource == smooth => ~stale

\* A reply a handler took is still unread: no second handler, on the source of
\* an earlier wake-up, took it too, and the queue was not zeroed under it.
RepliesHandledOnce == smooth => \A s \in Sources : held[s] \subseteq replies

\* When the driver is gone, no event source calls its handler any more.
GoneIsQuiet ==
    smooth /\ ppc = "gone" =>
        \A s \in Sources : held[s] = {} /\ ~(unmasked /\ on[s] = "enabled")

(***************************************************************************)
(* Whoever sleeps in MRAID_Exec can be woken: Do_Management sends a        *)
(* command interrupt driven only when a source listens, as                 *)
(* InterruptsActivated tells, and the source stays while a command of a    *)
(* program is under way.                                                   *)
(***************************************************************************)
ExecHasListener ==
    LET listening == unmasked /\ \E s \in Sources : on[s] = "enabled"
    IN  /\ smooth /\ mgmt.mode = "exec" => listening
        /\ smooth /\ drained => \A u \in Users : upc[u] = "asleep" => listening

Changing     == PPCs \ {"running", "failed", "asleep", "unpowered", "halt", "off", "gone"}
InTransition == ppc \in {"a_trans", "w_trans"}

(***************************************************************************)
(* In a power change the thread waits for nothing but the firmware's way   *)
(* into its ready state or a handler that runs, and that handler can       *)
(* always go on: neither a late answer of the firmware nor an event source *)
(* that is missing holds it up.  (A premise of liveness; it says when the  *)
(* steps are enabled.)                                                     *)
(***************************************************************************)
NeverHeldUp ==
    /\ ppc \in Changing /\ ~InTransition /\ ~AwaitsHandler => ENABLED <<OwnStep>>_vars
    /\ AwaitsHandler => ENABLED <<EndAwaited>>_vars

(***************************************************************************)
(* A power change is over at some time although commands stay unanswered   *)
(* and parts of it fail, unless Transition_Firmware is never left (whose   *)
(* end is the matter of FirmwareTransition): MRAID_Poll and MRAID_Exec     *)
(* give up, and the gate waits only for a handler that ends.               *)
(***************************************************************************)
TransitionsEnd  == []<>~InTransition
PowerChangeEnds == TransitionsEnd => (ppc \in Changing ~> ppc \notin Changing)

\* "In exec mode in order to ensure that interrupts work": a driver that has
\* attached has had an interrupt.
AttachEnsuresInterrupts == ppc = "running" /\ sleeps = 0 => Wired
=============================================================================
