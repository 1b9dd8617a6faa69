------------------------- MODULE MegaRAIDPower_proofs -------------------------
(***************************************************************************)
(* Proofs about MegaRAIDPower, for any number of sleeps, tasks and         *)
(* programs, and both kinds of interrupt.  Types first, whatever fails;    *)
(* then the inductive invariant of the histories in which nothing failed.  *)
(***************************************************************************)
EXTENDS MegaRAIDPower, TLAPS

USE FlagsAssumption, BoundsAssumption, NamesAssumption

-----------------------------------------------------------------------------
(* The chains                                                              *)

Commands == {"a_init", "a_info", "w_init", "s_flush", "s_hib", "d_flush", "d_shut", "t_flush", "t_shut"}

LEMMA Chains ==
    /\ Sending = Commands
    /\ \A p \in Commands :
          /\ OpOf[p] = IF p \in {"a_init", "w_init"} THEN "init"
                       ELSE IF p = "a_info" THEN "info"
                       ELSE IF p \in {"s_flush", "d_flush", "t_flush"} THEN "flush"
                       ELSE IF p = "s_hib" THEN "hibernate" ELSE "shutdown"
          /\ OnOk[p] = IF p = "a_init" THEN "a_enable" ELSE IF p = "a_info" THEN "running"
                       ELSE IF p = "w_init" THEN "w_intr" ELSE IF p = "s_flush" THEN "s_hib"
                       ELSE IF p = "s_hib" THEN "s_quiet" ELSE IF p = "d_flush" THEN "d_shut"
                       ELSE IF p = "d_shut" THEN "halt" ELSE IF p = "t_flush" THEN "t_shut"
                       ELSE "t_quiet"
          /\ OnFail[p] \in {"failed", "w_end", "halt", "t_quiet"}
                \cup (IF p \in {"s_flush", "s_hib"} THEN {"asleep"} ELSE {})
<1>1. Sending = Commands
  BY DEF Sending, OpOf, Commands
<1>2. ASSUME NEW p \in Commands
      PROVE  OpOf[p] = IF p \in {"a_init", "w_init"} THEN "init"
                       ELSE IF p = "a_info" THEN "info"
                       ELSE IF p \in {"s_flush", "d_flush", "t_flush"} THEN "flush"
                       ELSE IF p = "s_hib" THEN "hibernate" ELSE "shutdown"
  BY DEF OpOf, Commands
<1>3. ASSUME NEW p \in Commands
      PROVE  OnOk[p] = IF p = "a_init" THEN "a_enable" ELSE IF p = "a_info" THEN "running"
                       ELSE IF p = "w_init" THEN "w_intr" ELSE IF p = "s_flush" THEN "s_hib"
                       ELSE IF p = "s_hib" THEN "s_quiet" ELSE IF p = "d_flush" THEN "d_shut"
                       ELSE IF p = "d_shut" THEN "halt" ELSE IF p = "t_flush" THEN "t_shut"
                       ELSE "t_quiet"
  BY DEF OnOk, Commands
<1>4. ASSUME NEW p \in Commands
      PROVE  OnFail[p] \in {"failed", "w_end", "halt", "t_quiet"}
                \cup (IF p \in {"s_flush", "s_hib"} THEN {"asleep"} ELSE {})
  BY DEF OnFail, Commands
<1> QED BY <1>1, <1>2, <1>3, <1>4

-----------------------------------------------------------------------------
(* What each group of variables is changed by                              *)

LEMMA QueueFrame ==
    ASSUME [Next]_vars
    PROVE  \/ UNCHANGED queueVars
           \/ Perform \/ PerformLate \/ WakeTransition
           \/ \E t \in Tasks : Write(t)
           \/ \E u \in Users : Execute(u)
           \/ \E s \in Sources : Handler(s)
<1> USE DEF queueVars, vars
<1>1. CASE PmStep
  BY <1>1 DEF PmStep, OwnStep, Send, Answer, AttachTransition, AttachInterrupt, AttachEnable, SleepMask,
       Mask, SleepDrop, Drop, WakeInterrupt, WakeEnable, WakeEnd, TerminateMask, TerminateDrop
<1>2. CASE Sleep \/ WakeUp \/ Shutdown \/ Terminate \/ PowerOff \/ UNCHANGED vars
  BY <1>2 DEF Sleep, WakeUp, Shutdown, Terminate, PowerOff
<1>3. ASSUME NEW t \in Tasks, TaskStep(t) PROVE UNCHANGED queueVars \/ Write(t)
  BY <1>3 DEF TaskStep, Admit, Post
<1>4. ASSUME NEW u \in Users, UserStep(u) PROVE UNCHANGED queueVars \/ Execute(u)
  BY <1>4 DEF UserStep, Ask, Command, IoctlReturn
<1> QED BY <1>1, <1>2, <1>3, <1>4 DEF Next

LEMMA SourceFrame ==
    ASSUME [Next]_vars
    PROVE  \/ UNCHANGED sourceVars
           \/ AttachInterrupt \/ WakeInterrupt \/ AttachEnable \/ WakeEnable
           \/ SleepDrop \/ TerminateDrop
<1> USE DEF sourceVars, vars
<1>1. CASE PmStep
  BY <1>1 DEF PmStep, OwnStep, Send, Answer, AttachTransition, SleepMask, Mask, WakeTransition, WakeEnd,
       TerminateMask
<1>2. CASE Sleep \/ WakeUp \/ Shutdown \/ Terminate \/ PowerOff \/ UNCHANGED vars
  BY <1>2 DEF Sleep, WakeUp, Shutdown, Terminate, PowerOff
<1>3. ASSUME NEW t \in Tasks, TaskStep(t) PROVE UNCHANGED sourceVars
  BY <1>3 DEF TaskStep, Admit, Post, Write
<1>4. ASSUME NEW u \in Users, UserStep(u) PROVE UNCHANGED sourceVars
  BY <1>4 DEF UserStep, Ask, Command, IoctlReturn, Execute
<1>5. ASSUME NEW s \in Sources, Handler(s) PROVE UNCHANGED sourceVars
  BY <1>5 DEF Handler, HandlerStart, HandlerEnd
<1>6. CASE Perform \/ PerformLate
  BY <1>6 DEF Perform, PerformLate
<1> QED BY <1>1, <1>2, <1>3, <1>4, <1>5, <1>6 DEF Next

LEMMA RequestFrame ==
    ASSUME [Next]_vars
    PROVE  \/ UNCHANGED requests
           \/ \E t \in Tasks : TaskStep(t)
           \/ \E u \in Users : UserStep(u)
           \/ \E s \in Sources : HandlerEnd(s)
<1> USE DEF requests, vars
<1>1. CASE PmStep
  BY <1>1 DEF PmStep, OwnStep, Send, Answer, AttachTransition, AttachInterrupt, AttachEnable, SleepMask,
       Mask, SleepDrop, Drop, WakeTransition, WakeInterrupt, WakeEnable, WakeEnd, TerminateMask,
       TerminateDrop
<1>2. CASE Sleep \/ WakeUp \/ Shutdown \/ Terminate \/ PowerOff \/ UNCHANGED vars
  BY <1>2 DEF Sleep, WakeUp, Shutdown, Terminate, PowerOff
<1>3. CASE Perform \/ PerformLate
  BY <1>3 DEF Perform, PerformLate
<1>4. ASSUME NEW s \in Sources, Handler(s) PROVE UNCHANGED requests \/ HandlerEnd(s)
  BY <1>4 DEF Handler, HandlerStart
<1> QED BY <1>1, <1>2, <1>3, <1>4 DEF Next

-----------------------------------------------------------------------------
(* Types                                                                   *)

QueueTyped ==
    /\ replies \subseteq Tasks \cup Users \cup {Pm}
    /\ held \in [Sources -> SUBSET (Tasks \cup Users \cup {Pm})]
RequestTyped ==
    /\ tpc \in [Tasks -> {"idle", "admitted", "posted", "replied"}]
    /\ upc \in [Users -> {"idle", "admitted", "polling", "asleep", "replied", "answered",
                          "woken"}]
PmTyped ==
    /\ ppc \in PPCs /\ sleeps \in 0 .. MaxSleeps
    /\ mgmt \in [mode : {"none", "poll", "exec"}, st : {"none", "posted", "ok", "error"}]
FirmwareTyped ==
    /\ fw \in {"boot", "ready", "up", "down", "fault"}
    /\ late \subseteq {"init", "info", "flush", "hibernate", "shutdown"}
FlagsTyped ==
    /\ dirty \in BOOLEAN /\ lost \in BOOLEAN /\ unmasked \in BOOLEAN
    /\ FirmwareInitialized \in BOOLEAN /\ InterruptsActivated \in BOOLEAN /\ EnteredSleep \in BOOLEAN
    /\ heard \in BOOLEAN /\ smooth \in BOOLEAN /\ drained \in BOOLEAN

(***************************************************************************)
(* An event source that is in the chain of the driver's work loop has both *)
(* its retains, whatever went wrong before; there is one source for each   *)
(* sleep and one for Attach.                                               *)
(***************************************************************************)
HaveSource == {"a_init", "a_enable", "w_enable"}
Fresh      == {"a_trans", "a_intr"}
Powerless  == {"s_flush", "s_hib", "s_quiet", "s_drop", "asleep", "unpowered", "w_trans",
               "w_init", "w_intr"}
SourceTyped ==
    /\ created \in 0 .. MaxSleeps + 1 /\ fInterruptSrc \in 0 .. created
    /\ refs \in [Sources -> 0 .. 2]
    /\ on \in [Sources -> {"none", "attached", "enabled"}]
    /\ MyWorkLoop \in BOOLEAN /\ stale \in BOOLEAN
    /\ \A s \in Sources : s > created => on[s] = "none"
    /\ fInterruptSrc # 0 /\ MyWorkLoop /\ on[fInterruptSrc] # "none" => refs[fInterruptSrc] = 2
    /\ ppc \in HaveSource => fInterruptSrc # 0 /\ MyWorkLoop /\ on[fInterruptSrc] # "none"
SourceCount ==
    /\ created <= sleeps + 1
    /\ ppc \in Fresh => created = 0 /\ fInterruptSrc = 0
    /\ ppc \in Powerless => created <= sleeps

LEMMA QueueType ==
    ASSUME QueueTyped, [Next]_vars PROVE QueueTyped'
<1> USE DEF QueueTyped
<1>1. CASE UNCHANGED queueVars
  BY <1>1 DEF queueVars
<1>2. CASE Perform \/ PerformLate
  BY <1>2 DEF Perform, PerformLate
<1>3. CASE WakeTransition
  BY <1>3 DEF WakeTransition
<1>4. ASSUME NEW t \in Tasks, Write(t) PROVE QueueTyped'
  BY <1>4 DEF Write
<1>5. ASSUME NEW u \in Users, Execute(u) PROVE QueueTyped'
  BY <1>5 DEF Execute
<1>6. ASSUME NEW s \in Sources, Handler(s) PROVE QueueTyped'
  BY <1>6 DEF Handler, HandlerStart, HandlerEnd
<1> QED BY <1>1, <1>2, <1>3, <1>4, <1>5, <1>6, QueueFrame

LEMMA RequestType ==
    ASSUME RequestTyped, [Next]_vars PROVE RequestTyped'
<1> USE DEF RequestTyped
<1>1. CASE UNCHANGED requests
  BY <1>1 DEF requests
<1>2. ASSUME NEW t \in Tasks, TaskStep(t) PROVE RequestTyped'
  BY <1>2 DEF TaskStep, Admit, Post, Write
<1>3. ASSUME NEW u \in Users, UserStep(u) PROVE RequestTyped'
  <2>1. CASE Ask(u)
    BY <2>1 DEF Ask
  <2>2. CASE Command(u)
    BY <2>2 DEF Command
  <2>3. CASE Execute(u) \/ IoctlReturn(u)
    BY <2>3 DEF Execute, IoctlReturn
  <2> QED BY <1>3, <2>1, <2>2, <2>3 DEF UserStep
<1>4. ASSUME NEW s \in Sources, HandlerEnd(s) PROVE RequestTyped'
  BY <1>4 DEF HandlerEnd
<1> QED BY <1>1, <1>2, <1>3, <1>4, RequestFrame

\* Where the life-cycle thread may go in one step.
LEMMA PmFrame ==
    ASSUME PmTyped, [Next]_vars
    PROVE  \/ UNCHANGED <<ppc, mgmt, sleeps>>
           \/ PmStep \/ Sleep \/ WakeUp \/ Shutdown \/ Terminate \/ Perform \/ PowerOff
<1>1. CASE PerformLate \/ UNCHANGED vars
  BY <1>1 DEF PerformLate, vars, pmVars
<1>3. ASSUME NEW t \in Tasks, TaskStep(t) PROVE UNCHANGED <<ppc, mgmt, sleeps>>
  BY <1>3 DEF TaskStep, Admit, Post, Write, pmVars
<1>4. ASSUME NEW u \in Users, UserStep(u) PROVE UNCHANGED <<ppc, mgmt, sleeps>>
  BY <1>4 DEF UserStep, Ask, Command, IoctlReturn, Execute, pmVars
<1>5. ASSUME NEW s \in Sources, Handler(s) PROVE UNCHANGED <<ppc, mgmt, sleeps>>
  BY <1>5 DEF Handler, HandlerStart, HandlerEnd, pmVars
<1> QED BY <1>1, <1>3, <1>4, <1>5 DEF Next

LEMMA PmType ==
    ASSUME PmTyped, [Next]_vars PROVE PmTyped'
<1>0. Commands \subseteq PPCs /\ PPCs = Commands \cup {"a_trans", "a_intr", "a_enable", "running",
             "failed", "s_quiet", "s_drop", "asleep", "unpowered", "w_trans", "w_intr", "w_enable",
             "w_end", "t_quiet", "t_drop", "halt", "off", "gone"}
  BY Chains DEF PPCs
<1> USE DEF PmTyped, Goto, Idle
<1>1. CASE UNCHANGED <<ppc, mgmt, sleeps>>
  BY <1>1
<1>2. CASE Send
  BY <1>2 DEF Send
<1>3. CASE Answer
  <2>1. ppc \in Commands /\ ppc' \in {OnOk[ppc], OnFail[ppc]} /\ mgmt' = Idle /\ sleeps' = sleeps
    BY <1>3, Chains DEF Answer
  <2>2. ppc' \in PPCs
    BY <1>0, <2>1, Chains DEF Commands
  <2> QED BY <2>1, <2>2
<1>4. CASE AttachTransition \/ AttachInterrupt \/ AttachEnable \/ SleepMask \/ SleepDrop
  BY <1>0, <1>4 DEF AttachTransition, Transition, Outcome, AttachInterrupt, CreateDeviceInterrupt,
     AttachEnable,
     SleepMask, Mask, SleepDrop, Drop, Commands
<1>5. CASE WakeTransition \/ WakeInterrupt \/ WakeEnable \/ WakeEnd
  BY <1>0, <1>5 DEF WakeTransition, Transition, Outcome, WakeInterrupt, CreateDeviceInterrupt, WakeEnable,
     WakeEnd, Commands
<1>6. CASE TerminateMask \/ TerminateDrop \/ Terminate \/ WakeUp \/ Shutdown \/ PowerOff
  BY <1>0, <1>6 DEF TerminateMask, Mask, TerminateDrop, Drop, Terminate, WakeUp, Shutdown, PowerOff,
     Commands
<1>7. CASE Sleep
  BY <1>0, <1>7 DEF Sleep, Commands
<1>8. CASE Perform
  <2>1. UNCHANGED <<ppc, sleeps>>
    BY <1>8 DEF Perform
  <2>2. mgmt' \in [mode : {"none", "poll", "exec"}, st : {"none", "posted", "ok", "error"}]
    BY <1>8 DEF Perform
  <2> QED BY <2>1, <2>2
<1> QED BY <1>1, <1>2, <1>3, <1>4, <1>5, <1>6, <1>7, <1>8, PmFrame DEF PmStep, OwnStep

\* A chain reaches its enabling only through the creation, and a sleep only by Sleep.
LEMMA PmMoves ==
    ASSUME PmTyped, [Next]_vars
    PROVE  /\ ~Sleep => sleeps' = sleeps
           /\ ppc' \in HaveSource =>
                ppc \in HaveSource \/ AttachInterrupt \/ WakeInterrupt
           /\ ppc' \in Fresh => ppc \in Fresh
           /\ ppc' \in Powerless => ppc \in Powerless \/ Sleep
<1> USE DEF HaveSource, Fresh, Powerless, Goto
<1>1. CASE UNCHANGED <<ppc, mgmt, sleeps>>
  BY <1>1
<1>2. CASE Send \/ Perform
  BY <1>2 DEF Send, Perform
<1>3. CASE Answer
  <2>1. ppc \in Commands /\ ppc' \in {OnOk[ppc], OnFail[ppc]} /\ sleeps' = sleeps
    BY <1>3, Chains DEF Answer
  <2> QED BY <2>1, Chains DEF Commands
<1>4. CASE AttachTransition \/ AttachInterrupt \/ AttachEnable \/ SleepMask \/ SleepDrop
  BY <1>4 DEF AttachTransition, Transition, Outcome, AttachInterrupt, CreateDeviceInterrupt, AttachEnable,
     SleepMask, Mask, SleepDrop, Drop
<1>5. CASE WakeTransition \/ WakeInterrupt \/ WakeEnable \/ WakeEnd
  BY <1>5 DEF WakeTransition, Transition, Outcome, WakeInterrupt, CreateDeviceInterrupt, WakeEnable, WakeEnd
<1>6. CASE TerminateMask \/ TerminateDrop \/ Terminate \/ WakeUp \/ Shutdown \/ PowerOff
  BY <1>6 DEF TerminateMask, Mask, TerminateDrop, Drop, Terminate, WakeUp, Shutdown, PowerOff
<1>7. CASE Sleep
  BY <1>7 DEF Sleep
<1> QED BY <1>1, <1>2, <1>3, <1>4, <1>5, <1>6, <1>7, PmFrame DEF PmStep, OwnStep

LEMMA SourceType ==
    ASSUME SourceTyped, SourceCount, PmTyped, [Next]_vars PROVE SourceTyped'
<1>0. /\ created \in Nat /\ MaxSleeps \in Nat /\ fInterruptSrc \in Nat /\ fInterruptSrc <= created
      /\ sleeps \in Nat /\ sleeps <= MaxSleeps
      /\ \A s : s \in Sources <=> s \in Nat /\ s >= 1 /\ s <= MaxSleeps + 1
  BY DEF SourceTyped, PmTyped, Sources
<1>1. CASE UNCHANGED sourceVars /\ ~AttachInterrupt /\ ~WakeInterrupt
  <2>1. ppc' \in HaveSource => ppc \in HaveSource
    BY <1>1, PmMoves
  <2> QED BY <1>1, <2>1 DEF sourceVars, SourceTyped
<1>2. ASSUME AttachInterrupt \/ WakeInterrupt PROVE SourceTyped'
  <2> DEFINE new == created + 1
             state == IF fMSIEnabled THEN "attached" ELSE "enabled"
  <2>1. new \in Sources /\ created <= MaxSleeps
    BY <1>0, <1>2 DEF AttachInterrupt, WakeInterrupt, SourceCount, Fresh, Powerless
  <2>2. stale' = stale
    BY <1>2 DEF AttachInterrupt, WakeInterrupt
  <2>3. \/ /\ created' = new /\ fInterruptSrc' = new /\ MyWorkLoop' = TRUE
           /\ refs' = [refs EXCEPT ![new] = 2] /\ on' = [on EXCEPT ![new] = state]
        \/ /\ ppc' \in {"failed", "w_end"} /\ UNCHANGED on
           /\ \/ MyWorkLoop' = FALSE /\ UNCHANGED <<created, refs, fInterruptSrc>>
              \/ MyWorkLoop' = TRUE /\ fInterruptSrc' = 0 /\ UNCHANGED <<created, refs>>
              \/ /\ MyWorkLoop' = TRUE /\ created' = new /\ fInterruptSrc' = new
                 /\ refs' = [refs EXCEPT ![new] = 1]
    BY <1>2 DEF AttachInterrupt, WakeInterrupt, CreateDeviceInterrupt, Goto
  <2> HIDE DEF state
  <2>4. state \in {"attached", "enabled"} /\ state # "none"
    BY DEF state
  <2>5. on[new] = "none"
    BY <1>0, <2>1 DEF SourceTyped
  <2>6. CASE /\ created' = new /\ fInterruptSrc' = new /\ MyWorkLoop' = TRUE
             /\ refs' = [refs EXCEPT ![new] = 2] /\ on' = [on EXCEPT ![new] = state]
    <3>1. refs' \in [Sources -> 0 .. 2] /\ on' \in [Sources -> {"none", "attached", "enabled"}]
      BY <2>1, <2>4, <2>6 DEF SourceTyped
    <3>2. refs'[new] = 2 /\ on'[new] = state
      BY <2>1, <2>6 DEF SourceTyped
    <3> QED BY <1>0, <2>1, <2>2, <2>4, <2>6, <3>1, <3>2 DEF SourceTyped
  <2>7. CASE ppc' \in {"failed", "w_end"} /\ UNCHANGED <<on, created, refs, fInterruptSrc>>
             /\ MyWorkLoop' = FALSE
    BY <1>0, <2>2, <2>7 DEF SourceTyped, HaveSource
  <2>8. CASE ppc' \in {"failed", "w_end"} /\ UNCHANGED <<on, created, refs>>
             /\ MyWorkLoop' = TRUE /\ fInterruptSrc' = 0
    BY <1>0, <2>2, <2>8 DEF SourceTyped, HaveSource
  <2>9. CASE ppc' \in {"failed", "w_end"} /\ UNCHANGED on /\ MyWorkLoop' = TRUE
             /\ created' = new /\ fInterruptSrc' = new /\ refs' = [refs EXCEPT ![new] = 1]
    <3>1. refs' \in [Sources -> 0 .. 2]
      BY <2>1, <2>9 DEF SourceTyped
    <3> QED BY <1>0, <2>1, <2>2, <2>5, <2>9, <3>1 DEF SourceTyped, HaveSource
  <2> QED BY <2>3, <2>6, <2>7, <2>8, <2>9
<1>3. ASSUME AttachEnable \/ WakeEnable PROVE SourceTyped'
  <2>1. UNCHANGED <<created, refs, fInterruptSrc, MyWorkLoop, stale>> /\ ppc \in HaveSource
        /\ ppc' \notin HaveSource
    BY <1>3 DEF AttachEnable, WakeEnable, Goto, HaveSource
  <2>2. on' = on \/ on' = [on EXCEPT ![fInterruptSrc] = "enabled"]
    BY <1>3 DEF AttachEnable, WakeEnable, EnableInterrupts
  <2> QED BY <1>0, <2>1, <2>2 DEF SourceTyped
<1>4. ASSUME SleepDrop \/ TerminateDrop PROVE SourceTyped'
  <2>1. DropSource /\ ppc' \notin HaveSource
    BY <1>4 DEF SleepDrop, TerminateDrop, Drop, Goto, HaveSource
  <2>2. CASE fInterruptSrc = 0
    BY <2>1, <2>2 DEF DropSource, sourceVars, SourceTyped
  <2>3. CASE fInterruptSrc # 0
    <3>1. fInterruptSrc \in Sources /\ refs[fInterruptSrc] \in 0 .. 2
      BY <1>0, <2>3 DEF SourceTyped
    <3>2. UNCHANGED <<created, fInterruptSrc, MyWorkLoop>>
          /\ stale' = (stale \/ refs[fInterruptSrc] = 0)
      BY <2>1, <2>3 DEF DropSource
    <3>3. CASE MyWorkLoop /\ on[fInterruptSrc] # "none"
      <4>1. refs[fInterruptSrc] = 2
        BY <2>3, <3>3 DEF SourceTyped
      <4>2. refs' = [refs EXCEPT ![fInterruptSrc] = 0] /\ on' = [on EXCEPT ![fInterruptSrc] = "none"]
        BY <2>1, <2>3, <3>3, <4>1 DEF DropSource
      <4> QED BY <1>0, <2>1, <2>3, <3>1, <3>2, <4>2 DEF SourceTyped
    <3>4. CASE ~(MyWorkLoop /\ on[fInterruptSrc] # "none")
      <4>1. /\ on' = on
            /\ refs' = [refs EXCEPT ![fInterruptSrc] =
                           IF refs[fInterruptSrc] = 0 THEN 0 ELSE refs[fInterruptSrc] - 1]
        BY <2>1, <2>3, <3>4 DEF DropSource
      <4>2. refs' \in [Sources -> 0 .. 2]
        BY <3>1, <4>1 DEF SourceTyped
      <4> QED BY <1>0, <2>1, <2>3, <3>2, <3>4, <4>1, <4>2 DEF SourceTyped
    <3> QED BY <3>3, <3>4
  <2> QED BY <2>2, <2>3
<1> QED BY <1>1, <1>2, <1>3, <1>4, SourceFrame

LEMMA CountStep ==
    ASSUME SourceTyped, SourceCount, PmTyped, [Next]_vars PROVE SourceCount'
<1>0. /\ created \in Nat /\ fInterruptSrc \in Nat /\ sleeps \in Nat
  BY DEF SourceTyped, PmTyped
<1>1. CASE AttachInterrupt \/ WakeInterrupt
  <2>1. /\ created' \in {created, created + 1} /\ sleeps' = sleeps /\ created <= sleeps
        /\ ppc' \notin Fresh \cup Powerless
    BY <1>0, <1>1 DEF AttachInterrupt, WakeInterrupt, CreateDeviceInterrupt, Goto, SourceCount,
       Fresh, Powerless
  <2> QED BY <1>0, <2>1 DEF SourceCount
<1>2. CASE AttachEnable \/ WakeEnable \/ SleepDrop \/ TerminateDrop
  <2>1. UNCHANGED <<created, sleeps>> /\ ppc' \notin Fresh /\ (ppc' \in Powerless => ppc \in Powerless)
    BY <1>2 DEF AttachEnable, WakeEnable, SleepDrop, TerminateDrop, Drop, DropSource, sourceVars,
       Goto,
       Fresh, Powerless
  <2> QED BY <2>1 DEF SourceCount
<1>3. CASE Sleep
  <2>1. created' = created /\ sleeps' = sleeps + 1 /\ ppc' \notin Fresh
    BY <1>3 DEF Sleep, sourceVars, Fresh
  <2> QED BY <1>0, <2>1 DEF SourceCount
<1>4. CASE UNCHANGED sourceVars /\ ~Sleep
  <2>1. UNCHANGED <<created, fInterruptSrc, sleeps>> /\ (ppc' \in Fresh => ppc \in Fresh)
        /\ (ppc' \in Powerless => ppc \in Powerless)
    BY <1>4, PmMoves DEF sourceVars
  <2> QED BY <2>1 DEF SourceCount
<1> QED BY <1>1, <1>2, <1>3, <1>4, SourceFrame

LEMMA FirmwareType ==
    ASSUME PmTyped, FirmwareTyped, [Next]_vars PROVE FirmwareTyped'
<1> USE DEF FirmwareTyped, fwVars
<1>1. CASE PmStep
  <2>1. CASE Answer
    <3>1. OpOf[ppc] \in {"init", "info", "flush", "hibernate", "shutdown"}
      BY <2>1, Chains DEF Answer
    <3> QED BY <2>1, <3>1 DEF Answer
  <2>2. CASE AttachTransition \/ WakeTransition
    BY <2>2 DEF AttachTransition, WakeTransition, Transition, Outcome
  <2>3. CASE ~Answer /\ ~AttachTransition /\ ~WakeTransition
    BY <1>1, <2>3 DEF PmStep, OwnStep, Send, AttachInterrupt, AttachEnable, SleepMask, Mask, SleepDrop, Drop,
       WakeInterrupt, WakeEnable, WakeEnd, TerminateMask, TerminateDrop
  <2> QED BY <2>1, <2>2, <2>3
<1>2. CASE Sleep \/ WakeUp \/ Shutdown \/ Terminate \/ PowerOff \/ UNCHANGED vars
  BY <1>2 DEF Sleep, WakeUp, Shutdown, Terminate, PowerOff, vars
<1>3. CASE Perform \/ PerformLate
  BY <1>3 DEF Perform, PerformLate, Carry
<1>4. ASSUME NEW t \in Tasks, TaskStep(t) PROVE FirmwareTyped'
  BY <1>4 DEF TaskStep, Admit, Post, Write
<1>5. ASSUME NEW u \in Users, UserStep(u) PROVE FirmwareTyped'
  BY <1>5 DEF UserStep, Ask, Command, IoctlReturn, Execute
<1>6. ASSUME NEW s \in Sources, Handler(s) PROVE FirmwareTyped'
  BY <1>6 DEF Handler, HandlerStart, HandlerEnd
<1> QED BY <1>1, <1>2, <1>3, <1>4, <1>5, <1>6 DEF Next

LEMMA FlagsType ==
    ASSUME FlagsTyped, [Next]_vars PROVE FlagsTyped'
<1> USE DEF FlagsTyped, fwVars, flagVars, pmVars, history, Goto
<1>1. CASE PmStep
  <2>1. CASE Answer
    <3>1. FirmwareInitialized' \in {TRUE, FALSE, FirmwareInitialized}
      BY <2>1, Zenon DEF Answer
    <3>2. EnteredSleep' \in BOOLEAN /\ smooth' \in BOOLEAN
      BY <2>1, Zenon DEF Answer
    <3> QED BY <2>1, <3>1, <3>2 DEF Answer
  <2>2. CASE AttachTransition \/ WakeTransition
    BY <2>2 DEF AttachTransition, WakeTransition, Transition, Outcome
  <2>3. CASE AttachInterrupt \/ WakeInterrupt
    BY <2>3, ZenonT(60) DEF AttachInterrupt, WakeInterrupt, CreateDeviceInterrupt
  <2>4. CASE AttachEnable \/ WakeEnable
    BY <2>4 DEF AttachEnable, WakeEnable, EnableInterrupts
  <2>5. CASE SleepMask \/ TerminateMask
    BY <2>5 DEF SleepMask, TerminateMask, Mask, DisableInterrupts
  <2>6. CASE Send \/ SleepDrop \/ TerminateDrop \/ WakeEnd
    BY <2>6, ZenonT(60) DEF Send, SleepDrop, TerminateDrop, Drop, WakeEnd
  <2> QED BY <1>1, <2>1, <2>2, <2>3, <2>4, <2>5, <2>6 DEF PmStep, OwnStep
<1>2. CASE Sleep \/ Shutdown \/ Terminate
  <2>1. drained' \in BOOLEAN
    BY <1>2, Zenon DEF Sleep, Shutdown, Terminate
  <2> QED BY <1>2, <2>1 DEF Sleep, Shutdown, Terminate
<1>7. CASE WakeUp \/ UNCHANGED vars
  BY <1>7 DEF WakeUp, vars
<1>8. CASE PowerOff
  <2>1. lost' \in BOOLEAN /\ smooth' \in BOOLEAN
    BY <1>8, Zenon DEF PowerOff
  <2> QED BY <1>8, <2>1 DEF PowerOff
<1>3. CASE Perform \/ PerformLate
  <2>1. dirty' \in BOOLEAN /\ smooth' \in BOOLEAN
    BY <1>3, Zenon DEF Perform, PerformLate, Carry
  <2> QED BY <1>3, <2>1 DEF Perform, PerformLate
<1>4. ASSUME NEW t \in Tasks, TaskStep(t) PROVE FlagsTyped'
  BY <1>4, ZenonT(60) DEF TaskStep, Admit, Post, Write
<1>5. ASSUME NEW u \in Users, UserStep(u) PROVE FlagsTyped'
  <2>1. smooth' \in BOOLEAN /\ drained' \in BOOLEAN
    BY <1>5, Zenon DEF UserStep, Ask, Command, IoctlReturn, Execute
  <2> QED BY <1>5, <2>1 DEF UserStep, Ask, Command, IoctlReturn, Execute
<1>6. ASSUME NEW s \in Sources, Handler(s) PROVE FlagsTyped'
  <2>1. heard' \in BOOLEAN
    BY <1>6, Zenon DEF Handler, HandlerStart, HandlerEnd
  <2> QED BY <1>6, <2>1 DEF Handler, HandlerStart, HandlerEnd
<1> QED BY <1>1, <1>2, <1>3, <1>4, <1>5, <1>6, <1>7, <1>8 DEF Next

\* All of it, with the counts.
Typed ==
    /\ QueueTyped /\ RequestTyped /\ PmTyped /\ FirmwareTyped /\ FlagsTyped
    /\ SourceTyped /\ SourceCount

LEMMA TypedStep == ASSUME Typed, [Next]_vars PROVE Typed'
<1>1. QueueTyped' /\ RequestTyped' /\ PmTyped' /\ FirmwareTyped' /\ FlagsTyped'
  BY QueueType, RequestType, PmType, FirmwareType, FlagsType DEF Typed
<1>2. SourceTyped' /\ SourceCount'
  BY SourceType, CountStep DEF Typed
<1> QED BY <1>1, <1>2 DEF Typed

LEMMA TypedInit == Init => Typed
<1> SUFFICES ASSUME Init PROVE Typed
  OBVIOUS
<1>1. QueueTyped /\ RequestTyped /\ FirmwareTyped /\ FlagsTyped
  BY DEF Init, QueueTyped, RequestTyped, FirmwareTyped, FlagsTyped
<1>2. PmTyped
  BY DEF Init, PmTyped, PPCs, Idle
<1>3. SourceTyped
  <2>1. refs \in [Sources -> 0 .. 2] /\ on \in [Sources -> {"none", "attached", "enabled"}]
    BY DEF Init
  <2>2. created = 0 /\ fInterruptSrc = 0 /\ MyWorkLoop = FALSE /\ stale = FALSE /\ ppc = "a_trans"
    BY DEF Init
  <2>3. \A s \in Sources : on[s] = "none"
    BY DEF Init
  <2>4. ppc \notin HaveSource
    BY <2>2 DEF HaveSource
  <2>5. created \in 0 .. MaxSleeps + 1 /\ fInterruptSrc \in 0 .. created
    BY <2>2
  <2>6. MyWorkLoop \in BOOLEAN /\ stale \in BOOLEAN
    BY <2>2
  <2> QED BY <2>1, <2>2, <2>3, <2>4, <2>5, <2>6, Zenon DEF SourceTyped
<1>4. SourceCount
  BY DEF Init, SourceCount, Fresh, Powerless
<1> QED BY <1>1, <1>2, <1>3, <1>4 DEF Typed

LEMMA AlwaysTyped == Spec => []Typed
BY TypedInit, TypedStep, PTL DEF Spec

(***************************************************************************)
(* Attach to termination: every value stays in its range, whatever fails   *)
(* or is late; no event source is retained or released more often than the *)
(* driver and the work loop do.                                            *)
(***************************************************************************)
THEOREM PowerTyped == Spec => []TypeOK
<1>1. Typed => TypeOK
  BY DEF Typed, QueueTyped, RequestTyped, PmTyped, FirmwareTyped, FlagsTyped, SourceTyped, TypeOK
<1> QED BY <1>1, AlwaysTyped, PTL

-----------------------------------------------------------------------------
(* While nothing has failed                                                *)

Without   == {"a_trans", "a_intr", "asleep", "unpowered", "w_trans", "w_init", "w_intr", "gone"}
Listening == {"a_info", "running", "s_flush", "s_hib", "s_quiet", "w_end", "d_flush", "d_shut",
              "halt", "t_flush", "t_shut", "t_quiet"}

(***************************************************************************)
(* While nothing fails, the driver has the source of its last creation, if *)
(* any, and only that is in a work loop's chain or has a handler running.  *)
(***************************************************************************)
OneSource ==
    /\ ~stale
    /\ \A s \in Sources : ppc \in Without \/ s # fInterruptSrc => on[s] = "none" /\ held[s] = {}
    /\ ppc \notin Without =>
          fInterruptSrc # 0 /\ MyWorkLoop /\ on[fInterruptSrc] # "none"
    /\ ppc \notin Without /\ (PreferMSI => ppc \in Listening) => on[fInterruptSrc] = "enabled"
    /\ InterruptsActivated <=> ppc \in Listening \cup {"off"}
    /\ unmasked <=> ppc \in Listening
    /\ \A s \in Sources : held[s] \subseteq replies

\* ... each command is carried out before its answer is looked at, ...
OnTime ==
    /\ ppc # "failed" /\ late = {} /\ mgmt.st # "error"
    /\ mgmt.mode = "exec" => InterruptsActivated /\ ppc \in Sending

\* ... and the firmware is in the state that the chain believes it to be in.
FirmwareKnown ==
    LET done == mgmt.st = "ok"
    IN  /\ ppc = "a_intr" => fw = "ready"
        /\ ppc \in {"a_init", "w_init"} => fw = (IF done THEN "up" ELSE "ready")
        /\ ppc \in {"a_enable", "a_info", "w_intr", "w_enable", "w_end", "running"} =>
              fw = "up" /\ FirmwareInitialized
        /\ ppc \in {"s_flush", "d_flush", "t_flush"} => fw = "up"
        /\ ppc \in {"s_hib", "d_shut", "t_shut"} => fw = (IF done THEN "down" ELSE "up")
        /\ ppc \in {"s_flush", "s_hib", "s_quiet", "s_drop", "asleep", "unpowered", "w_trans",
                     "w_init", "w_intr", "w_enable", "w_end"} => EnteredSleep

\* Between the flush and the end of power, and while it is off, nothing is under way.
NothingBehind ==
    /\ ~lost
    /\ ppc # "running" => UnderWay = {}
    /\ ppc \in {"s_hib", "s_quiet", "s_drop", "asleep", "d_shut", "halt"} => ~dirty
    /\ ppc \in {"s_flush", "d_flush"} /\ mgmt.st = "ok" => ~dirty

SmoothIInv ==
    smooth => OneSource /\ OnTime /\ FirmwareKnown /\ (drained => NothingBehind)
IdlePm == mgmt # Idle => ppc \in Sending
PIInv == Typed /\ SmoothIInv /\ IdlePm

LEMMA StaysSmooth == ASSUME Typed, [Next]_vars, smooth' PROVE smooth
<1> SUFFICES ASSUME ~smooth PROVE FALSE
  OBVIOUS
<1> USE DEF vars, history
<1>1. CASE PmStep
  BY <1>1 DEF PmStep, OwnStep, Send, Answer, AttachTransition, AttachInterrupt, AttachEnable, SleepMask,
       Mask, SleepDrop, Drop, WakeTransition, WakeInterrupt, WakeEnable, WakeEnd, TerminateMask,
       TerminateDrop, Transition, CreateDeviceInterrupt
<1>2. CASE Sleep \/ WakeUp \/ Shutdown \/ Terminate \/ PowerOff \/ UNCHANGED vars
  BY <1>2 DEF Sleep, WakeUp, Shutdown, Terminate, PowerOff
<1>3. CASE Perform \/ PerformLate
  BY <1>3 DEF Perform, PerformLate
<1>4. ASSUME NEW t \in Tasks, TaskStep(t) PROVE FALSE
  BY <1>4 DEF TaskStep, Admit, Post, Write
<1>5. ASSUME NEW u \in Users, UserStep(u) PROVE FALSE
  BY <1>5 DEF UserStep, Ask, Command, IoctlReturn, Execute
<1>6. ASSUME NEW s \in Sources, Handler(s) PROVE FALSE
  BY <1>6 DEF Handler, HandlerStart, HandlerEnd
<1> QED BY <1>1, <1>2, <1>3, <1>4, <1>5, <1>6 DEF Next

\* A command that succeeded in time moves its chain on; there is no other way.
LEMMA AnswerOk ==
    ASSUME PIInv, Answer, smooth'
    PROVE  /\ smooth /\ mgmt.st = "ok" /\ ppc \in Commands /\ ppc' = OnOk[ppc]
           /\ mgmt' = Idle /\ late' = late
           /\ (ppc \in {"a_init", "w_init"} => FirmwareInitialized')
           /\ (ppc = "a_info" => FirmwareInitialized' = FirmwareInitialized)
           /\ EnteredSleep' = (EnteredSleep /\ ppc' # "running")
           /\ UNCHANGED <<fw, dirty, lost, unmasked, InterruptsActivated, sourceVars, queueVars,
                          requests, drained>>
<1>1. smooth /\ Answered
  BY DEF Answer
<1>2. OnTime
  BY <1>1 DEF PIInv, SmoothIInv
<1>3. mgmt.st = "ok"
  BY <1>1, <1>2 DEF Answered, OnTime
<1>4. ppc \in Commands /\ Success /\ ppc' = OnOk[ppc] /\ mgmt' = Idle /\ late' = late
      /\ EnteredSleep' = (EnteredSleep /\ ppc' # "running")
      /\ UNCHANGED <<fw, dirty, lost, unmasked, InterruptsActivated, sourceVars, queueVars,
                     requests, drained>>
  BY <1>3, Chains DEF Answer, Success
<1>5. ppc \in {"a_init", "w_init"} => FirmwareInitialized'
  <2>1. ppc \in {"a_init", "w_init"} => OpOf[ppc] = "init"
    BY <1>4, Chains
  <2> QED BY <1>4, <2>1, Zenon DEF Answer
<1>6. ppc = "a_info" => FirmwareInitialized' = FirmwareInitialized
  <2>1. ppc = "a_info" => OpOf[ppc] \notin {"init", "hibernate", "shutdown"}
    BY <1>4, Chains
  <2> QED BY <1>4, <2>1, Zenon DEF Answer
<1> QED BY <1>1, <1>3, <1>4, <1>5, <1>6

LEMMA OneSourceStep ==
    ASSUME PIInv, [Next]_vars, smooth' PROVE OneSource'
<1>t. /\ smooth /\ OneSource /\ OnTime /\ Typed
      /\ fInterruptSrc \in Nat /\ created \in Nat /\ fInterruptSrc <= created
      /\ (fInterruptSrc # 0 => fInterruptSrc \in Sources)
      /\ on \in [Sources -> {"none", "attached", "enabled"}]
      /\ held \in [Sources -> SUBSET (Tasks \cup Users \cup {Pm})]
  <2>1. Typed /\ smooth
    BY StaysSmooth DEF PIInv
  <2> QED BY <2>1 DEF PIInv, SmoothIInv, Typed, SourceTyped, QueueTyped, Sources
<1> USE DEF OneSource, Without, Listening, Goto
<1>1. CASE UNCHANGED vars \/ Send
  BY <1>1, <1>t DEF vars, Send, fwVars, flagVars, sourceVars, queueVars
<1>2. CASE Answer
  <2>1. UNCHANGED <<unmasked, InterruptsActivated, sourceVars, queueVars>> /\ ppc' = OnOk[ppc]
        /\ ppc \in Commands
    BY <1>2, AnswerOk
  <2>2. /\ ppc' \in Without <=> ppc \in Without
        /\ ppc' \in Listening <=> ppc \in Listening
        /\ ppc' \in Listening \cup {"off"} <=> ppc \in Listening \cup {"off"}
    BY <2>1, Chains DEF Commands
  <2> QED BY <1>t, <2>1, <2>2 DEF sourceVars, queueVars
<1>3. CASE AttachTransition \/ WakeTransition
  <2>1. /\ ppc \in Without /\ ppc' \in Without
        /\ UNCHANGED <<unmasked, InterruptsActivated, sourceVars, held>>
    BY <1>3, <1>t DEF AttachTransition, WakeTransition, Transition, Outcome, flagVars, queueVars
  <2> QED BY <1>t, <2>1 DEF sourceVars
<1>4. CASE AttachInterrupt \/ WakeInterrupt
  <2>1. /\ ppc \in Without /\ ppc' \in {"a_init", "w_enable"}
        /\ fInterruptSrc' = created + 1 /\ MyWorkLoop'
        /\ on' = [on EXCEPT ![created + 1] = IF fMSIEnabled THEN "attached" ELSE "enabled"]
        /\ UNCHANGED <<unmasked, InterruptsActivated, stale, queueVars>>
    BY <1>4, <1>t DEF AttachInterrupt, WakeInterrupt, CreateDeviceInterrupt, flagVars, fwVars
  <2>2. created + 1 \in Sources
    BY <1>4, <1>t DEF AttachInterrupt, WakeInterrupt, Typed, SourceCount, Fresh, Powerless,
       PmTyped, Sources
  <2> QED BY <1>t, <2>1, <2>2 DEF queueVars, fMSIEnabled
<1>5. CASE AttachEnable \/ WakeEnable
  <2>1. /\ ppc \in {"a_enable", "w_enable"} /\ ppc' \in {"a_info", "w_end"}
        /\ UNCHANGED <<fInterruptSrc, MyWorkLoop, stale, queueVars>> /\ unmasked' /\ InterruptsActivated'
        /\ (IF PreferMSI THEN on' = [on EXCEPT ![fInterruptSrc] = "enabled"] ELSE on' = on)
    BY <1>5 DEF AttachEnable, WakeEnable, EnableInterrupts
  <2> QED BY <1>t, <2>1 DEF queueVars
<1>6. CASE SleepMask \/ TerminateMask
  <2>1. /\ ppc \in {"s_quiet", "t_quiet"} /\ ppc' \in {"s_drop", "t_drop"}
        /\ UNCHANGED <<sourceVars, queueVars>> /\ ~unmasked' /\ ~InterruptsActivated'
    BY <1>6, <1>t DEF SleepMask, TerminateMask, Mask, DisableInterrupts
  <2> QED BY <1>t, <2>1 DEF sourceVars, queueVars
<1>7. CASE SleepDrop \/ TerminateDrop
  <2>1. /\ ppc \in {"s_drop", "t_drop"} /\ ppc' \in {"asleep", "gone"}
        /\ UNCHANGED <<unmasked, InterruptsActivated, queueVars>> /\ DropSource
    BY <1>7 DEF SleepDrop, TerminateDrop, Drop, fwVars, flagVars
  <2>2. /\ fInterruptSrc # 0 /\ MyWorkLoop /\ on[fInterruptSrc] # "none"
        /\ refs[fInterruptSrc] = 2
    BY <1>t, <2>1 DEF Typed, SourceTyped
  <2>3. /\ held[fInterruptSrc] = {} /\ on' = [on EXCEPT ![fInterruptSrc] = "none"]
        /\ stale' = (stale \/ refs[fInterruptSrc] = 0) /\ fInterruptSrc' = fInterruptSrc
    BY <2>1, <2>2 DEF DropSource
  <2>4. ~stale'
    <3>1. ~stale /\ ~(refs[fInterruptSrc] = 0)
      BY <1>t, <2>2
    <3> QED BY <2>3, <3>1, Zenon
  <2>5. \A s \in Sources : on'[s] = "none" /\ held[s] = {}
    BY <1>t, <2>1, <2>3
  <2> QED BY <1>t, <2>1, <2>4, <2>5 DEF queueVars
<1>8. CASE WakeEnd \/ Sleep \/ WakeUp \/ Shutdown \/ Terminate
  <2>1. UNCHANGED <<unmasked, InterruptsActivated, sourceVars, queueVars>>
    BY <1>8 DEF WakeEnd, Sleep, WakeUp, Shutdown, Terminate, fwVars, flagVars
  <2>2. /\ ppc' \in Without <=> ppc \in Without
        /\ ppc' \in Listening <=> ppc \in Listening
        /\ ppc' # "off" /\ ppc # "off"
    BY <1>8, <1>t DEF WakeEnd, Sleep, WakeUp, Shutdown, Terminate, OnTime
  <2> QED BY <1>t, <2>1, <2>2 DEF sourceVars, queueVars
<1>9. CASE PowerOff
  BY <1>9, <1>t DEF PowerOff, flagVars, sourceVars, queueVars
<1>10. CASE Perform
  <2>1. UNCHANGED <<ppc, unmasked, InterruptsActivated, sourceVars, held>> /\ replies \subseteq replies'
    BY <1>10 DEF Perform, flagVars
  <2> QED BY <1>t, <2>1 DEF sourceVars
<1>11. CASE PerformLate
  BY <1>11, <1>t DEF PerformLate, OnTime
<1>12. ASSUME NEW t \in Tasks, TaskStep(t) PROVE OneSource'
  <2>1. UNCHANGED <<ppc, unmasked, InterruptsActivated, sourceVars, held>> /\ replies \subseteq replies'
    BY <1>12 DEF TaskStep, Admit, Post, Write, flagVars, fwVars, pmVars, queueVars
  <2> QED BY <1>t, <2>1 DEF sourceVars
<1>13. ASSUME NEW u \in Users, UserStep(u) PROVE OneSource'
  <2>1. UNCHANGED <<ppc, unmasked, InterruptsActivated, sourceVars, held>> /\ replies \subseteq replies'
    BY <1>13 DEF UserStep, Ask, Command, IoctlReturn, Execute, flagVars, fwVars, pmVars, queueVars
  <2> QED BY <1>t, <2>1 DEF sourceVars
<1>14. ASSUME NEW s \in Sources, HandlerStart(s) PROVE OneSource'
  <2>1. UNCHANGED <<ppc, unmasked, InterruptsActivated, sourceVars, replies>>
        /\ held' = [held EXCEPT ![s] = replies] /\ on[s] = "enabled"
    BY <1>14 DEF HandlerStart, flagVars, fwVars, pmVars
  <2> QED BY <1>t, <2>1 DEF sourceVars
<1>15. ASSUME NEW s \in Sources, HandlerEnd(s) PROVE OneSource'
  <2>1. UNCHANGED <<ppc, unmasked, InterruptsActivated, sourceVars>>
        /\ held' = [held EXCEPT ![s] = {}] /\ held[s] # {} /\ replies' = replies \ held[s]
    BY <1>15 DEF HandlerEnd, flagVars, fwVars
  <2>2. \A r \in Sources : r # s => held[r] = {}
    BY <1>t, <2>1
  <2> QED BY <1>t, <2>1, <2>2 DEF sourceVars
<1> QED BY <1>1, <1>2, <1>3, <1>4, <1>5, <1>6, <1>7, <1>8, <1>9, <1>10, <1>11, <1>12, <1>13, <1>14,
           <1>15 DEF Next, PmStep, OwnStep, Handler

LEMMA IdleStep == ASSUME Typed, IdlePm, [Next]_vars PROVE IdlePm'
<1> USE DEF IdlePm, Goto
<1>1. CASE UNCHANGED <<ppc, mgmt, sleeps>>
  BY <1>1
<1>2. CASE Send \/ Perform
  BY <1>2 DEF Send, Perform
<1>3. CASE Answer
  BY <1>3 DEF Answer
<1>4. ASSUME ppc \notin Commands, mgmt' = mgmt PROVE IdlePm'
  BY <1>4, Chains
<1>5. CASE AttachTransition \/ AttachInterrupt \/ AttachEnable \/ SleepMask \/ SleepDrop
  BY <1>5, <1>4 DEF AttachTransition, Transition, Outcome, AttachInterrupt, CreateDeviceInterrupt,
     AttachEnable,
     SleepMask, Mask, SleepDrop, Drop, Commands
<1>6. CASE WakeTransition \/ WakeInterrupt \/ WakeEnable \/ WakeEnd
  BY <1>6, <1>4 DEF WakeTransition, Transition, Outcome, WakeInterrupt, CreateDeviceInterrupt, WakeEnable,
     WakeEnd,
     Commands
<1>7. CASE TerminateMask \/ TerminateDrop \/ Terminate \/ WakeUp \/ Shutdown \/ PowerOff \/ Sleep
  BY <1>7, <1>4 DEF TerminateMask, Mask, TerminateDrop, Drop, Terminate, WakeUp, Shutdown,
     PowerOff, Sleep,
     Commands
<1> QED BY <1>1, <1>2, <1>3, <1>5, <1>6, <1>7, PmFrame DEF PmStep, OwnStep, Typed

LEMMA OnTimeStep ==
    ASSUME PIInv, [Next]_vars, smooth' PROVE OnTime'
<1>t. /\ smooth /\ OneSource /\ OnTime /\ Typed /\ IdlePm
  <2>1. Typed /\ smooth
    BY StaysSmooth DEF PIInv
  <2> QED BY <2>1 DEF PIInv, SmoothIInv
<1>i. ppc \notin Commands => mgmt.mode = "none"
  BY <1>t, Chains DEF IdlePm, Idle
<1> USE DEF OnTime, Goto
<1>1. CASE UNCHANGED vars
  BY <1>1, <1>t DEF vars
<1>2. CASE Send
  <2>1. UNCHANGED <<ppc, late, InterruptsActivated>> /\ ppc \in Sending /\ mgmt'.st = "posted"
        /\ (mgmt'.mode = "exec" => InterruptsActivated)
    BY <1>2 DEF Send, fwVars, flagVars
  <2> QED BY <1>t, <2>1
<1>3. CASE Answer
  <2>1. /\ ppc' = OnOk[ppc] /\ ppc \in Commands /\ late' = late
        /\ mgmt'.mode = "none" /\ mgmt'.st = "none"
    BY <1>3, AnswerOk DEF Idle
  <2> QED BY <1>t, <2>1, Chains DEF Commands
<1>4. CASE AttachTransition \/ AttachInterrupt \/ AttachEnable \/ SleepMask \/ SleepDrop
  BY <1>4, <1>t, <1>i DEF AttachTransition, Transition, Outcome, AttachInterrupt, CreateDeviceInterrupt,
     AttachEnable,
     SleepMask, Mask, SleepDrop, Drop, Commands, fwVars
<1>5. CASE WakeTransition \/ WakeInterrupt \/ WakeEnable \/ WakeEnd
  BY <1>5, <1>t, <1>i DEF WakeTransition, Transition, Outcome, WakeInterrupt, CreateDeviceInterrupt,
     WakeEnable,
     WakeEnd, Commands, fwVars
<1>6. CASE TerminateMask \/ TerminateDrop \/ Terminate \/ WakeUp \/ Shutdown \/ PowerOff \/ Sleep
  BY <1>6, <1>t, <1>i DEF TerminateMask, Mask, TerminateDrop, Drop, Terminate, WakeUp, Shutdown,
     PowerOff,
     Sleep, Commands, fwVars
<1>7. CASE Perform
  <2>1. UNCHANGED <<ppc, late, InterruptsActivated>> /\ mgmt' = [mgmt EXCEPT !.st = "ok"]
    BY <1>7, <1>t DEF Perform, flagVars
  <2>2. mgmt'.st = "ok" /\ mgmt'.mode = mgmt.mode
    BY <1>t, <2>1 DEF Typed, PmTyped
  <2> QED BY <1>t, <2>1, <2>2
<1>8. CASE PerformLate
  BY <1>8, <1>t DEF PerformLate
<1>9. ASSUME NEW t \in Tasks, TaskStep(t) PROVE OnTime'
  BY <1>9, <1>t DEF TaskStep, Admit, Post, Write, fwVars, flagVars, pmVars
<1>10. ASSUME NEW u \in Users, UserStep(u) PROVE OnTime'
  BY <1>10, <1>t DEF UserStep, Ask, Command, IoctlReturn, Execute, fwVars, flagVars, pmVars
<1>11. ASSUME NEW s \in Sources, Handler(s) PROVE OnTime'
  BY <1>11, <1>t DEF Handler, HandlerStart, HandlerEnd, fwVars, flagVars, pmVars
<1> QED BY <1>1, <1>2, <1>3, <1>4, <1>5, <1>6, <1>7, <1>8, <1>9, <1>10, <1>11 DEF Next, PmStep, OwnStep

LEMMA FirmwareStep ==
    ASSUME PIInv, [Next]_vars, smooth' PROVE FirmwareKnown'
<1>t. /\ smooth /\ OneSource /\ OnTime /\ FirmwareKnown /\ Typed /\ IdlePm
  <2>1. Typed /\ smooth
    BY StaysSmooth DEF PIInv
  <2> QED BY <2>1 DEF PIInv, SmoothIInv
<1>i. ppc \notin Commands => mgmt.st = "none"
  BY <1>t, Chains DEF IdlePm, Idle
<1> USE DEF FirmwareKnown, Goto
<1>1. CASE UNCHANGED vars
  BY <1>1, <1>t DEF vars
<1>2. CASE Send
  <2>1. UNCHANGED <<ppc, fw, FirmwareInitialized, EnteredSleep>> /\ mgmt'.st = "posted" /\ mgmt.st = "none"
    BY <1>2 DEF Send, fwVars, flagVars, Idle
  <2> QED BY <1>t, <2>1
<1>3. CASE Answer
  <2>1. /\ ppc' = OnOk[ppc] /\ ppc \in Commands /\ fw' = fw /\ mgmt.st = "ok"
        /\ (ppc \in {"a_init", "w_init"} => FirmwareInitialized')
        /\ (ppc = "a_info" => FirmwareInitialized' = FirmwareInitialized)
        /\ (ppc' # "running" => EnteredSleep' = EnteredSleep)
        /\ mgmt'.st = "none"
    BY <1>3, AnswerOk, <1>t DEF Idle, Typed, FlagsTyped
  <2> QED BY <1>t, <2>1, Chains DEF Commands
<1>4. CASE AttachTransition \/ WakeTransition
  <2>1. /\ fw' = "ready" /\ mgmt'.st = "none" /\ UNCHANGED flagVars
        /\ \/ ppc = "a_trans" /\ ppc' = "a_intr"
           \/ ppc = "w_trans" /\ ppc' = "w_init"
    BY <1>4, <1>i DEF AttachTransition, WakeTransition, Transition, Outcome, Commands
  <2> QED BY <1>t, <2>1 DEF flagVars
<1>5. CASE AttachInterrupt \/ WakeInterrupt
  <2>1. /\ mgmt'.st = "none" /\ UNCHANGED <<fw, flagVars>>
        /\ \/ ppc = "a_intr" /\ ppc' = "a_init"
           \/ ppc = "w_intr" /\ ppc' = "w_enable"
    BY <1>5, <1>t, <1>i DEF AttachInterrupt, WakeInterrupt, CreateDeviceInterrupt, Commands, fwVars
  <2> QED BY <1>t, <2>1 DEF flagVars
<1>6. CASE AttachEnable \/ WakeEnable \/ WakeEnd
  BY <1>6, <1>t, <1>i DEF AttachEnable, WakeEnable, WakeEnd, Commands, fwVars
<1>7. CASE SleepMask \/ SleepDrop \/ TerminateMask \/ TerminateDrop
  BY <1>7, <1>t, <1>i DEF SleepMask, TerminateMask, Mask, SleepDrop, TerminateDrop, Drop,
     Commands, fwVars,
     flagVars
<1>8. CASE Sleep \/ WakeUp \/ Shutdown \/ Terminate
  BY <1>8, <1>t, <1>i DEF Sleep, WakeUp, Shutdown, Terminate, Commands, fwVars, flagVars, OnTime
<1>9. CASE PowerOff
  BY <1>9, <1>t, <1>i DEF PowerOff, Commands, flagVars
<1>10. CASE Perform
  <2>1. /\ UNCHANGED <<ppc, flagVars>> /\ mgmt'.st = "ok" /\ Carry(OpOf[ppc]) /\ ppc \in Commands
        /\ mgmt.st # "ok"
    BY <1>10, <1>t, Chains DEF Perform, Typed, PmTyped
  <2> QED BY <1>t, <2>1, Chains DEF Carry, flagVars, Commands
<1>11. CASE PerformLate
  BY <1>11, <1>t DEF PerformLate, OnTime
<1>12. ASSUME NEW t \in Tasks, TaskStep(t) PROVE FirmwareKnown'
  BY <1>12, <1>t DEF TaskStep, Admit, Post, Write, fwVars, flagVars, pmVars
<1>13. ASSUME NEW u \in Users, UserStep(u) PROVE FirmwareKnown'
  BY <1>13, <1>t DEF UserStep, Ask, Command, IoctlReturn, Execute, fwVars, flagVars, pmVars
<1>14. ASSUME NEW s \in Sources, Handler(s) PROVE FirmwareKnown'
  BY <1>14, <1>t DEF Handler, HandlerStart, HandlerEnd, fwVars, flagVars, pmVars
<1> QED BY <1>1, <1>2, <1>3, <1>4, <1>5, <1>6, <1>7, <1>8, <1>9, <1>10, <1>11, <1>12, <1>13, <1>14
        DEF Next, PmStep, OwnStep

LEMMA StaysDrained == ASSUME Typed, [Next]_vars, drained' PROVE drained
<1> SUFFICES ASSUME ~drained PROVE FALSE
  OBVIOUS
<1> USE DEF vars, history
<1>1. CASE PmStep
  BY <1>1 DEF PmStep, OwnStep, Send, Answer, AttachTransition, AttachInterrupt, AttachEnable, SleepMask,
       Mask, SleepDrop, Drop, WakeTransition, WakeInterrupt, WakeEnable, WakeEnd, TerminateMask,
       TerminateDrop
<1>2. CASE Sleep \/ WakeUp \/ Shutdown \/ Terminate \/ PowerOff \/ UNCHANGED vars
  BY <1>2 DEF Sleep, WakeUp, Shutdown, Terminate, PowerOff
<1>3. CASE Perform \/ PerformLate
  BY <1>3 DEF Perform, PerformLate
<1>4. ASSUME NEW t \in Tasks, TaskStep(t) PROVE FALSE
  BY <1>4 DEF TaskStep, Admit, Post, Write
<1>5. ASSUME NEW u \in Users, UserStep(u) PROVE FALSE
  BY <1>5 DEF UserStep, Ask, Command, IoctlReturn, Execute
<1>6. ASSUME NEW s \in Sources, Handler(s) PROVE FALSE
  BY <1>6 DEF Handler, HandlerStart, HandlerEnd
<1> QED BY <1>1, <1>2, <1>3, <1>4, <1>5, <1>6 DEF Next

LEMMA NothingBehindStep ==
    ASSUME PIInv, [Next]_vars, smooth', drained' PROVE NothingBehind'
<1>t. /\ smooth /\ drained /\ OneSource /\ OnTime /\ FirmwareKnown /\ NothingBehind /\ Typed /\ IdlePm
  <2>1. Typed /\ smooth /\ drained
    BY StaysSmooth, StaysDrained DEF PIInv
  <2> QED BY <2>1 DEF PIInv, SmoothIInv
<1>i. ppc \notin Commands => mgmt.st = "none"
  BY <1>t, Chains DEF IdlePm, Idle
<1>e. /\ ppc \in {"s_flush", "s_hib", "s_quiet", "s_drop", "asleep", "unpowered", "w_trans",
                  "w_init", "w_intr", "w_enable", "w_end"} => EnteredSleep
      /\ ppc = "running" => FirmwareInitialized
  BY <1>t DEF FirmwareKnown
\* A step of the driver's that leaves requests and cache alone.
<1>q. ASSUME UNCHANGED <<requests, dirty, lost>>, replies' \cap Users \subseteq replies,
             ppc = "running" /\ ppc' # "running" => NoRequests,
             /\ ppc' \in {"s_hib", "s_quiet", "s_drop", "asleep", "d_shut", "halt"} =>
                  \/ ppc \in {"s_hib", "s_quiet", "s_drop", "asleep", "d_shut", "halt"}
                  \/ ppc \in {"s_flush", "d_flush"} /\ mgmt.st = "ok",
             ppc' \in {"s_flush", "d_flush"} => mgmt'.st # "ok" \/ (ppc' = ppc /\ mgmt' = mgmt)
      PROVE  NothingBehind'
  <2>1. UnderWay' \subseteq UnderWay
    BY <1>q DEF UnderWay, requests
  <2>2. ppc' # "running" => UnderWay' = {}
    BY <1>q, <1>t, <2>1 DEF NoRequests, NothingBehind
  <2>3. ~lost'
    BY <1>q, <1>t DEF NothingBehind
  <2> QED BY <1>q, <1>t, <2>2, <2>3 DEF NothingBehind
<1> USE DEF Goto, queueVars, fwVars
<1>1. CASE UNCHANGED vars
  BY <1>1, <1>q, <1>t DEF vars, NothingBehind, requests
<1>2. CASE Send
  BY <1>2, <1>q DEF Send, Idle
<1>3. CASE Answer
  <2>1. /\ ppc' = OnOk[ppc] /\ ppc \in Commands /\ mgmt.st = "ok" /\ mgmt'.st = "none"
        /\ UNCHANGED <<requests, dirty, lost, replies>>
    BY <1>3, AnswerOk DEF Idle
  <2>2. ppc # "running"
    BY <2>1 DEF Commands
  <2>3. ppc' \in {"s_hib", "s_quiet", "s_drop", "asleep", "d_shut", "halt"} =>
            ppc \in {"s_flush", "d_flush", "s_hib", "d_shut"}
    BY <2>1, Chains DEF Commands
  <2> QED BY <1>q, <2>1, <2>2, <2>3
<1>4. CASE AttachTransition \/ AttachInterrupt \/ AttachEnable
  BY <1>4, <1>q, <1>t DEF AttachTransition, Transition, Outcome, AttachInterrupt, CreateDeviceInterrupt,
     AttachEnable
<1>5. CASE SleepMask \/ SleepDrop \/ TerminateMask \/ TerminateDrop
  BY <1>5, <1>q, <1>t DEF SleepMask, TerminateMask, Mask, SleepDrop, TerminateDrop, Drop
<1>6. CASE WakeTransition \/ WakeInterrupt \/ WakeEnable \/ WakeEnd
  BY <1>6, <1>q, <1>t DEF WakeTransition, Transition, Outcome, WakeInterrupt, CreateDeviceInterrupt,
     WakeEnable,
     WakeEnd
<1>7. CASE Sleep \/ Shutdown \/ Terminate
  <2>1. ppc = "running" /\ FirmwareInitialized /\ NoRequests
        /\ UNCHANGED <<requests, dirty, lost, replies, mgmt>> /\ ppc' \in {"s_flush", "d_flush", "t_flush"}
    BY <1>7, <1>e, <1>t DEF Sleep, Shutdown, Terminate, OnTime
  <2>2. mgmt'.st # "ok"
    BY <1>i, <2>1 DEF Commands
  <2> QED BY <1>q, <2>1, <2>2
<1>8. CASE WakeUp
  BY <1>8, <1>q DEF WakeUp
<1>9. CASE PowerOff
  <2>1. UNCHANGED <<requests, replies>> /\ ~dirty /\ ~dirty' /\ ~lost' /\ ppc' \in {"unpowered", "off"}
        /\ ppc # "running"
    BY <1>9, <1>t DEF PowerOff, NothingBehind
  <2> QED BY <1>t, <2>1 DEF NothingBehind, UnderWay, requests
<1>10. CASE Perform
  <2>1. /\ UNCHANGED <<ppc, requests, lost>> /\ ppc \in Commands /\ mgmt'.st = "ok" /\ Carry(OpOf[ppc])
        /\ replies' \cap Users \subseteq replies
    BY <1>10, <1>t, Chains DEF Perform, Typed, PmTyped
  <2>2. UnderWay' \subseteq UnderWay /\ UnderWay = {}
    BY <1>t, <2>1 DEF UnderWay, requests, NothingBehind, Commands
  <2>3. ppc \in {"s_flush", "d_flush"} => ~dirty'
    BY <2>1, Chains DEF Carry
  <2>4. ~dirty => ~dirty'
    BY <2>1 DEF Carry
  <2> QED BY <1>t, <2>1, <2>2, <2>3, <2>4 DEF NothingBehind
<1>11. CASE PerformLate
  BY <1>11, <1>t DEF PerformLate, OnTime
\* Only a controller that is up lets requests in.
<1>r. ASSUME ppc = "running", ppc' = "running", lost' = lost PROVE NothingBehind'
  BY <1>r, <1>t DEF NothingBehind
<1>12. ASSUME NEW t \in Tasks, TaskStep(t) PROVE NothingBehind'
  <2>1. ppc = "running"
    <3>1. CASE Admit(t)
      BY <1>e, <1>t, <3>1, Chains DEF Admit, FamilyCalls, Attaching, GoingDown, Terminating, Typed, PmTyped, PPCs, Commands, OnTime
    <3>2. CASE ~Admit(t)
      BY <1>12, <1>t, <3>2 DEF TaskStep, Post, Write, NothingBehind, UnderWay
    <3> QED BY <3>1, <3>2
  <2> QED BY <1>12, <1>r, <2>1 DEF TaskStep, Admit, Post, Write, pmVars
<1>13. ASSUME NEW u \in Users, UserStep(u) PROVE NothingBehind'
  <2>1. ppc = "running"
    <3>1. CASE Ask(u)
      BY <1>e, <1>t, <3>1, Chains DEF Ask, ProgramsCall, Attaching, GoingDown, Terminating, Typed, PmTyped, PPCs, Commands, OnTime
    <3>2. CASE ~Ask(u)
      BY <1>13, <1>t, <3>2 DEF UserStep, Command, Execute, IoctlReturn, NothingBehind, UnderWay
    <3> QED BY <3>1, <3>2
  <2> QED BY <1>13, <1>r, <2>1 DEF UserStep, Ask, Command, Execute, IoctlReturn, pmVars
<1>14. ASSUME NEW s \in Sources, Handler(s) PROVE NothingBehind'
  <2>1. UNCHANGED <<fwVars, ppc, mgmt>> /\ replies' \subseteq replies
    BY <1>14 DEF Handler, HandlerStart, HandlerEnd, pmVars
  <2>2. /\ \A t \in Tasks : tpc[t] = "idle" => tpc'[t] = "idle"
        /\ \A u \in Users : upc[u] = "idle" => upc'[u] = "idle"
    BY <1>14 DEF Handler, HandlerStart, HandlerEnd, requests
  <2>3. UnderWay' \subseteq UnderWay
    BY <2>1, <2>2 DEF UnderWay
  <2> QED BY <1>t, <2>1, <2>3 DEF NothingBehind
<1> QED BY <1>1, <1>2, <1>3, <1>4, <1>5, <1>6, <1>7, <1>8, <1>9, <1>10, <1>11, <1>12, <1>13, <1>14
        DEF Next, PmStep, OwnStep

LEMMA PowerInductive == Spec => []PIInv
<1>1. Init => PIInv
  <2> SUFFICES ASSUME Init PROVE PIInv
    OBVIOUS
  <2>1. Typed
    BY TypedInit
  <2>2. IdlePm
    BY DEF Init, IdlePm
  <2>3. OneSource
    BY DEF Init, OneSource, Without, Listening
  <2>4. OnTime /\ FirmwareKnown
    BY DEF Init, OnTime, FirmwareKnown, Idle
  <2>5. NothingBehind
    BY DEF Init, NothingBehind, UnderWay
  <2> QED BY <2>1, <2>2, <2>3, <2>4, <2>5 DEF PIInv, SmoothIInv
<1>2. PIInv /\ [Next]_vars => PIInv'
  <2> SUFFICES ASSUME PIInv, [Next]_vars PROVE PIInv'
    OBVIOUS
  <2>1. Typed' /\ IdlePm'
    BY TypedStep, IdleStep DEF PIInv
  <2>2. smooth' => OneSource' /\ OnTime' /\ FirmwareKnown' /\ (drained' => NothingBehind')
    BY OneSourceStep, OnTimeStep, FirmwareStep, NothingBehindStep
  <2> QED BY <2>1, <2>2 DEF PIInv, SmoothIInv
<1> QED BY <1>1, <1>2, PTL DEF Spec

(***************************************************************************)
(* MRAID_Sleep, MRAID_Shutdown, PowerOff: for any number of sleeps and of  *)
(* tasks, while nothing fails and no request is under way when a change    *)
(* begins, no write that was acknowledged is lost.                         *)
(***************************************************************************)
THEOREM WritesSurvive == Spec => []NothingLost
<1>1. PIInv => NothingLost
  BY DEF PIInv, SmoothIInv, NothingBehind, NothingLost
<1> QED BY <1>1, PowerInductive, PTL

(***************************************************************************)
(* setPowerState: under the same conditions a task or a command of a       *)
(* program is handed only to a firmware that runs.                         *)
(***************************************************************************)
THEOREM OnlyToLive == Spec => []PostedToLive
<1>1. PIInv => PostedToLive
  BY DEF PIInv, SmoothIInv, NothingBehind, FirmwareKnown, UnderWay, PostedToLive
<1> QED BY <1>1, PowerInductive, PTL

(***************************************************************************)
(* fInterruptSrc: while nothing fails, the source of an earlier wake-up is *)
(* not used again after its release, ...                                   *)
(***************************************************************************)
THEOREM SourcesFresh == Spec => []NoStaleSource
<1>1. PIInv => NoStaleSource
  BY DEF PIInv, SmoothIInv, OneSource, NoStaleSource
<1> QED BY <1>1, PowerInductive, PTL

\* ... no two handlers take one reply, and none is zeroed under a handler, ...
THEOREM HandledOnce == Spec => []RepliesHandledOnce
<1>1. PIInv => RepliesHandledOnce
  BY DEF PIInv, SmoothIInv, OneSource, RepliesHandledOnce
<1> QED BY <1>1, PowerInductive, PTL

\* ... and TerminateController leaves no source behind that calls a handler.
THEOREM QuietWhenGone == Spec => []GoneIsQuiet
<1>1. PIInv => GoneIsQuiet
  BY DEF PIInv, SmoothIInv, OneSource, Without, GoneIsQuiet
<1> QED BY <1>1, PowerInductive, PTL

(***************************************************************************)
(* Do_Management: whoever sleeps for an interrupt has an enabled source    *)
(* and a controller that may raise it, across any number of sleeps.        *)
(***************************************************************************)
THEOREM ListenerForExec == Spec => []ExecHasListener
<1>1. ASSUME PIInv, smooth, ppc \in Listening
      PROVE  unmasked /\ \E s \in Sources : on[s] = "enabled"
  <2>1. OneSource /\ Typed
    BY <1>1 DEF PIInv, SmoothIInv
  <2>2. fInterruptSrc \in Sources /\ on[fInterruptSrc] = "enabled" /\ unmasked
    BY <1>1, <2>1 DEF OneSource, Typed, SourceTyped, Sources, Listening, Without
  <2> QED BY <2>2
<1>2. ASSUME PIInv, smooth, mgmt.mode = "exec" PROVE ppc \in Listening
  <2>1. OnTime /\ OneSource
    BY <1>2 DEF PIInv, SmoothIInv
  <2> QED BY <1>2, <2>1, Chains DEF OnTime, OneSource, Commands
<1>3. ASSUME PIInv, smooth, drained, NEW u \in Users, upc[u] = "asleep" PROVE ppc \in Listening
  BY <1>3 DEF PIInv, SmoothIInv, NothingBehind, UnderWay, Listening
<1>4. PIInv => ExecHasListener
  BY <1>1, <1>2, <1>3 DEF ExecHasListener
<1> QED BY <1>4, PowerInductive, PTL

-----------------------------------------------------------------------------
(* A power change comes to its end                                         *)

\* While the source is dropped the controller is masked, whatever failed before.
Masked ==
    /\ unmasked => InterruptsActivated
    /\ ppc \in {"s_drop", "t_drop"} => ~unmasked
MovesInv == Typed /\ IdlePm /\ Masked

LEMMA MaskedStep == ASSUME MovesInv, [Next]_vars PROVE Masked'
<1> USE DEF Masked, fwVars, flagVars, pmVars, Goto
<1>0. Masked /\ Typed /\ unmasked \in BOOLEAN /\ InterruptsActivated \in BOOLEAN
  BY DEF MovesInv, Typed, FlagsTyped
<1>1. CASE Send \/ Perform \/ UNCHANGED vars
  BY <1>0, <1>1 DEF Send, Perform, vars
<1>2. CASE Answer
  <2>1. /\ ppc \in Commands /\ ppc' \in {OnOk[ppc], OnFail[ppc]}
        /\ UNCHANGED <<unmasked, InterruptsActivated>>
    BY <1>2, Chains DEF Answer
  <2>2. ppc' \notin {"s_drop", "t_drop"}
    BY <2>1, Chains DEF Commands
  <2> QED BY <1>0, <2>1, <2>2
<1>3. CASE AttachTransition \/ AttachInterrupt \/ WakeTransition \/ WakeInterrupt \/ WakeEnd
  BY <1>0, <1>3 DEF AttachTransition, WakeTransition, Transition, Outcome, AttachInterrupt, WakeInterrupt,
     CreateDeviceInterrupt, WakeEnd
<1>4. CASE AttachEnable \/ WakeEnable
  BY <1>4 DEF AttachEnable, WakeEnable, EnableInterrupts
<1>5. CASE SleepMask \/ TerminateMask
  BY <1>0, <1>5 DEF SleepMask, TerminateMask, Mask, DisableInterrupts
<1>6. CASE SleepDrop \/ TerminateDrop
  BY <1>0, <1>6 DEF SleepDrop, TerminateDrop, Drop
<1>7. CASE Sleep \/ WakeUp \/ Shutdown \/ Terminate
  BY <1>0, <1>7 DEF Sleep, WakeUp, Shutdown, Terminate
<1>8. CASE PowerOff \/ PerformLate
  BY <1>0, <1>8 DEF PowerOff, PerformLate
<1>9. ASSUME NEW t \in Tasks, TaskStep(t) PROVE Masked'
  BY <1>0, <1>9 DEF TaskStep, Admit, Post, Write
<1>10. ASSUME NEW u \in Users, UserStep(u) PROVE Masked'
  BY <1>0, <1>10 DEF UserStep, Ask, Command, IoctlReturn, Execute
<1>11. ASSUME NEW s \in Sources, Handler(s) PROVE Masked'
  BY <1>0, <1>11 DEF Handler, HandlerStart, HandlerEnd
<1> QED BY <1>1, <1>2, <1>3, <1>4, <1>5, <1>6, <1>7, <1>8, <1>9, <1>10, <1>11 DEF Next, PmStep, OwnStep

LEMMA MovesInductive == Spec => []MovesInv
<1>1. Init => MovesInv
  BY TypedInit DEF Init, MovesInv, IdlePm, Masked
<1>2. MovesInv /\ [Next]_vars => MovesInv'
  BY TypedStep, IdleStep, MaskedStep DEF MovesInv
<1> QED BY <1>1, <1>2, PTL DEF Spec

(***************************************************************************)
(* The steps a power change has ahead of it, at most: two for a command,   *)
(* which is sent and answered, and for a source, whose handler ends first. *)
(***************************************************************************)
Ahead(p) ==
    IF p \in {"a_trans", "w_trans"} THEN 9
    ELSE IF p \in {"a_intr", "w_init", "s_flush", "t_flush"} THEN 7
    ELSE IF p \in {"a_init", "w_intr", "s_hib", "t_shut"} THEN 5
    ELSE IF p \in {"a_enable", "w_enable", "s_quiet", "t_quiet", "d_flush"} THEN 3
    ELSE IF p \in {"a_info", "w_end", "s_drop", "t_drop", "d_shut"} THEN 1 ELSE 0
Waits    == (ppc \in Sending /\ mgmt = Idle) \/ AwaitsHandler
Distance == Ahead(ppc) + (IF Waits THEN 1 ELSE 0)

Within(n) == Distance <= n
Goes(n)   == Distance = n /\ InTransition
Walks(n)  == Distance = n /\ ~InTransition /\ ~AwaitsHandler
Stands(n) == Distance = n /\ AwaitsHandler

LEMMA Distances ==
    /\ Distance \in 0 .. 10 /\ (Distance = 0 <=> ppc \notin Changing)
    /\ AwaitsHandler => Distance = 2
<1>1. Changing = Commands \cup {"a_trans", "a_intr", "a_enable", "s_quiet", "s_drop", "w_trans",
                               "w_intr", "w_enable", "w_end", "t_quiet", "t_drop"}
  BY Chains DEF Changing, PPCs, Commands
<1>2. Waits => ppc \in Commands \cup {"s_drop", "t_drop"}
  BY Chains DEF Waits, AwaitsHandler
<1>3. Distance \in 0 .. 10 /\ (Distance = 0 <=> ppc \notin Changing)
  BY <1>1, <1>2 DEF Distance, Ahead, Commands
<1>4. AwaitsHandler => Distance = 2
  BY DEF AwaitsHandler, Distance, Ahead, Waits
<1> QED BY <1>3, <1>4

LEMMA DistancesLater == Distance' \in 0 .. 10
BY DEF Distance, Ahead

\* Only its own steps and the end of the handler it waits for move the thread.
LEMMA DistanceKept ==
    ASSUME MovesInv, Distance # 0, [Next]_vars, ~PmStep
    PROVE  /\ ppc' = ppc /\ (mgmt' = Idle <=> mgmt = Idle)
           /\ AwaitsHandler' => AwaitsHandler
           /\ ~AwaitsHandler' /\ AwaitsHandler => Distance' < Distance
           /\ (AwaitsHandler' <=> AwaitsHandler) => Distance' = Distance
<1>t. /\ Typed /\ PmTyped /\ QueueTyped /\ Masked
      /\ ppc \in Changing
  BY Distances DEF MovesInv, Typed
<1>1. /\ ppc' = ppc /\ (mgmt' = Idle <=> mgmt = Idle)
  <2>1. ~(Sleep \/ WakeUp \/ Shutdown \/ Terminate \/ PowerOff)
    BY <1>t DEF Changing, Sleep, WakeUp, Shutdown, Terminate, PowerOff
  <2>2. CASE Perform
    BY <1>t, <2>2 DEF Perform, PmTyped, Idle
  <2> QED BY <1>t, <2>1, <2>2, PmFrame
<1>2. fInterruptSrc' = fInterruptSrc
  <2>1. UNCHANGED sourceVars
    BY SourceFrame DEF PmStep, OwnStep
  <2> QED BY <2>1 DEF sourceVars
<1>3. ASSUME ppc \in {"s_drop", "t_drop"}, NEW s \in Sources, held'[s] # {} PROVE held[s] # {}
  <2>1. CASE UNCHANGED queueVars \/ Perform \/ PerformLate \/ (\E t \in Tasks : Write(t))
             \/ (\E u \in Users : Execute(u))
    BY <1>3, <2>1 DEF queueVars, Perform, PerformLate, Write, Execute
  <2>2. ASSUME NEW z \in Sources, Handler(z) PROVE held[s] # {}
    <3>1. ~HandlerStart(z)
      BY <1>3, <1>t DEF HandlerStart, Masked
    <3>2. held' = [held EXCEPT ![z] = {}]
      BY <2>2, <3>1 DEF Handler, HandlerEnd
    <3> QED BY <1>3, <1>t, <3>2 DEF QueueTyped
  <2> QED BY <2>1, <2>2, QueueFrame DEF PmStep, OwnStep
<1>4. AwaitsHandler' => AwaitsHandler
  BY <1>1, <1>2, <1>3 DEF AwaitsHandler
<1>5. (AwaitsHandler' <=> AwaitsHandler) => Distance' = Distance
  BY <1>1 DEF Distance, Waits
<1>6. ~AwaitsHandler' /\ AwaitsHandler => Distance' < Distance
  <2> SUFFICES ASSUME ~AwaitsHandler', AwaitsHandler PROVE Distance' < Distance
    OBVIOUS
  <2>1. ppc \in {"s_drop", "t_drop"} /\ ~(ppc' \in Sending)
    BY <1>1, Chains DEF AwaitsHandler, Commands
  <2>2. Distance = 2 /\ Distance' = 1
    BY <1>1, <2>1, Distances DEF Distance, Ahead, Waits
  <2> QED BY <2>2
<1> QED BY <1>1, <1>4, <1>5, <1>6

\* A step of the thread's own leads it on.
LEMMA DistanceFalls ==
    ASSUME MovesInv, Distance # 0, PmStep PROVE Distance' < Distance
<1>0. /\ Ahead(ppc) \in Nat /\ Ahead(ppc') \in Nat
      /\ Distance \in Nat /\ Distance' \in Nat /\ Ahead(ppc) <= Distance
      /\ Distance' <= Ahead(ppc') + 1
      /\ ppc' \notin Commands \cup {"s_drop", "t_drop"} => Distance' = Ahead(ppc')
  BY Chains DEF Distance, Waits, AwaitsHandler, Ahead
<1> USE DEF Goto
<1>1. CASE Send
  <2>1. ppc \in Commands /\ ppc' = ppc /\ mgmt = Idle /\ mgmt' # Idle
    BY <1>1, Chains DEF Send, Idle
  <2>2. ~Waits' /\ Waits
    BY <2>1, Chains DEF Waits, AwaitsHandler, Commands
  <2> QED BY <1>0, <2>1, <2>2 DEF Distance
<1>2. CASE Answer
  <2>1. ppc \in Commands /\ ppc' \in {OnOk[ppc], OnFail[ppc]}
    BY <1>2, Chains DEF Answer
  <2>2. \/ ppc' \in Commands /\ Ahead(ppc') + 2 = Ahead(ppc)
        \/ ppc' \notin Commands \cup {"s_drop", "t_drop"} /\ Ahead(ppc') < Ahead(ppc)
    <3>1. CASE ppc' = OnOk[ppc]
      BY <2>1, <3>1, Chains DEF Commands, Ahead
    <3>2. CASE ppc' = OnFail[ppc]
      <4>1. /\ OnFail[ppc] \in {"failed", "w_end", "asleep", "halt", "t_quiet"}
            /\ OnFail[ppc] = "w_end" => ppc = "w_init"
            /\ OnFail[ppc] = "t_quiet" => ppc \in {"t_flush", "t_shut"}
        BY <2>1 DEF OnFail, Commands
      <4> QED BY <2>1, <3>2, <4>1 DEF Commands, Ahead
    <3> QED BY <2>1, <3>1, <3>2
  <2> QED BY <1>0, <2>2
<1>3. CASE AttachTransition \/ AttachInterrupt \/ AttachEnable
  <2>1. \/ ppc = "a_trans" /\ ppc' \in {"a_intr", "failed"}
        \/ ppc = "a_intr" /\ ppc' \in {"a_init", "failed"}
        \/ ppc = "a_enable" /\ ppc' = "a_info"
    BY <1>3 DEF AttachTransition, Transition, Outcome, AttachInterrupt, CreateDeviceInterrupt, AttachEnable
  <2>2. Ahead(ppc') + 1 < Ahead(ppc)
    BY <2>1 DEF Ahead
  <2> QED BY <1>0, <2>2
<1>4. CASE WakeTransition \/ WakeInterrupt \/ WakeEnable \/ WakeEnd
  <2>1. \/ ppc = "w_trans" /\ ppc' \in {"w_init", "w_end"}
        \/ ppc = "w_intr" /\ ppc' \in {"w_enable", "w_end"}
        \/ ppc = "w_enable" /\ ppc' = "w_end"
        \/ ppc = "w_end" /\ ppc' = "running"
    BY <1>4 DEF WakeTransition, Transition, Outcome, WakeInterrupt, CreateDeviceInterrupt, WakeEnable, WakeEnd
  <2>2. \/ Ahead(ppc') + 1 < Ahead(ppc)
        \/ ppc' \notin Commands \cup {"s_drop", "t_drop"} /\ Ahead(ppc') < Ahead(ppc)
    BY <2>1 DEF Ahead, Commands
  <2> QED BY <1>0, <2>2
<1>5. CASE SleepMask \/ SleepDrop \/ TerminateMask \/ TerminateDrop
  <2>1. \/ ppc = "s_quiet" /\ ppc' = "s_drop"
        \/ ppc = "t_quiet" /\ ppc' = "t_drop"
        \/ ppc = "s_drop" /\ ppc' = "asleep"
        \/ ppc = "t_drop" /\ ppc' = "gone"
    BY <1>5 DEF SleepMask, TerminateMask, Mask, SleepDrop, TerminateDrop, Drop
  <2>2. \/ Ahead(ppc') + 1 < Ahead(ppc)
        \/ ppc' \notin Commands \cup {"s_drop", "t_drop"} /\ Ahead(ppc') < Ahead(ppc)
    BY <2>1 DEF Ahead, Commands
  <2> QED BY <1>0, <2>2
<1> QED BY <1>1, <1>2, <1>3, <1>4, <1>5 DEF PmStep, OwnStep

\* One step nearer to the end, taken by the thread, by the handler, or by the
\* firmware that got ready or failed.
LEMMA Nearer ==
    ASSUME NEW n \in 1 .. 10, NEW m \in 0 .. 9, n = m + 1
    PROVE  FairSpec /\ []NeverHeldUp /\ TransitionsEnd => (Within(n) ~> Within(m))
<1>d. Distance \in 0 .. 10
  BY Distances
<1>1. MovesInv /\ Within(n) => Within(m) \/ Goes(n) \/ Walks(n) \/ Stands(n)
  BY <1>d DEF Within, Goes, Walks, Stands
<1>2. NeverHeldUp /\ MovesInv /\ Walks(n) => ENABLED <<OwnStep>>_vars
  BY Distances DEF NeverHeldUp, Walks
<1>3. NeverHeldUp /\ Stands(n) => ENABLED <<EndAwaited>>_vars
  BY DEF NeverHeldUp, Stands
<1>4. ASSUME MovesInv, Goes(n) \/ Walks(n) \/ Stands(n), PmStep PROVE Within(m)'
  <2>1. Distance' \in 0 .. 10
    BY DistancesLater
  <2>2. Distance = n /\ Distance' < Distance
    BY <1>4, DistanceFalls DEF Goes, Walks, Stands
  <2> QED BY <2>1, <2>2 DEF Within
<1>5. ASSUME MovesInv, Goes(n) \/ Walks(n) \/ Stands(n), [Next]_vars, ~PmStep
      PROVE  /\ Goes(n) => Goes(n)'
             /\ Walks(n) => Walks(n)'
             /\ Stands(n) => Stands(n)' \/ Within(m)'
             /\ Stands(n) /\ EndAwaited => Within(m)'
  <2>1. Distance = n /\ Distance # 0
    BY <1>5 DEF Goes, Walks, Stands
  <2>2. Walks(n) => Walks(n)'
    BY <1>5, <2>1, DistanceKept DEF Walks, InTransition
  <2>3. AwaitsHandler /\ ~AwaitsHandler' => Within(m)'
    BY <1>5, <2>1, DistanceKept, DistancesLater DEF Within
  <2>4. Stands(n) => Stands(n)' \/ Within(m)'
    BY <1>5, <2>1, <2>3, DistanceKept DEF Stands
  <2>5. AwaitsHandler /\ EndAwaited => ~AwaitsHandler'
    <3> SUFFICES ASSUME AwaitsHandler, NEW s \in Sources, s = fInterruptSrc, HandlerEnd(s)
                 PROVE  ~AwaitsHandler'
      BY DEF EndAwaited
    <3>1. QueueTyped
      BY <1>5 DEF MovesInv, Typed
    <3>2. fInterruptSrc' = s /\ held'[s] = {}
      BY <3>1 DEF HandlerEnd, sourceVars, QueueTyped
    <3> QED BY <3>2 DEF AwaitsHandler
  <2>6. Goes(n) => Goes(n)'
    <3> SUFFICES ASSUME Goes(n) PROVE Goes(n)'
      OBVIOUS
    <3>1. ~AwaitsHandler
      BY DEF Goes, InTransition, AwaitsHandler
    <3> QED BY <1>5, <2>1, <3>1, DistanceKept DEF Goes, InTransition
  <2> QED BY <2>2, <2>3, <2>4, <2>5, <2>6 DEF Stands
<1>6. MovesInv /\ Walks(n) /\ [Next]_vars => Walks(n)' \/ Within(m)'
  BY <1>4, <1>5
<1>7. MovesInv /\ Walks(n) /\ [Next]_vars /\ <<OwnStep>>_vars => Within(m)'
  BY <1>4 DEF PmStep
<1>8. MovesInv /\ Stands(n) /\ [Next]_vars => Stands(n)' \/ Within(m)'
  BY <1>4, <1>5
<1>9. MovesInv /\ Stands(n) /\ [Next]_vars /\ <<EndAwaited>>_vars => Within(m)'
  BY <1>4, <1>5
<1>10. MovesInv /\ Goes(n) /\ [Next]_vars => Goes(n)' \/ Within(m)'
  BY <1>4, <1>5
<1>11. Goes(n) => InTransition
  BY DEF Goes
<1> QED BY <1>1, <1>2, <1>3, <1>6, <1>7, <1>8, <1>9, <1>10, <1>11, MovesInductive, PTL
        DEF FairSpec, Spec, TransitionsEnd

Comes(n, m) == Within(n) ~> Within(m)

(***************************************************************************)
(* MRAID_Sleep, MRAID_WakeUp, MRAID_Shutdown, TerminateController and what *)
(* follows Attach come to an end, whatever commands the firmware fails to  *)
(* answer, if Transition_Firmware does each time it is entered: for any    *)
(* number of sleeps, tasks and programs.  That the thread's steps are      *)
(* enabled when they are wanted (NeverHeldUp) is a premise here.           *)
(***************************************************************************)
THEOREM ChangesEnd == FairSpec /\ []NeverHeldUp => PowerChangeEnds
<1>1. ASSUME NEW n \in 1 .. 10, NEW m \in 0 .. 9, n = m + 1
      PROVE  FairSpec /\ []NeverHeldUp /\ TransitionsEnd => Comes(n, m)
  BY <1>1, Nearer DEF Comes
<1> HIDE DEF Comes
<1>2. FairSpec /\ []NeverHeldUp /\ TransitionsEnd =>
        /\ Comes(10, 9) /\ Comes(9, 8) /\ Comes(8, 7) /\ Comes(7, 6) /\ Comes(6, 5)
        /\ Comes(5, 4) /\ Comes(4, 3) /\ Comes(3, 2) /\ Comes(2, 1) /\ Comes(1, 0)
  BY <1>1
<1>3. Within(10)
  BY Distances DEF Within
<1>4. MovesInv /\ Within(0) => ppc \notin Changing
  BY Distances DEF Within
<1> QED BY <1>2, <1>3, <1>4, MovesInductive, PTL DEF Comes, PowerChangeEnds, FairSpec
=============================================================================
