--------------------------- MODULE MegaRAIDCommands ---------------------------
(***************************************************************************)
(* The command path of the SASMegaRAID driver while the controller is      *)
(* awake and its interrupts are on: the pool of command control blocks     *)
(* (ccb), the SCSI submission path ProcessParallelTask, management         *)
(* commands sent through MRAID_Exec, the firmware as the producer of the   *)
(* reply queue, and the interrupt filter and handler that consume it.      *)
(*                                                                         *)
(* A thread is a SCSI task being submitted or a management caller (an      *)
(* ioctl, GetInfo, a cache flush).  A ccb is identified by its context,    *)
(* the index the driver writes in mrh_context and the firmware echoes.     *)
(* Frame contents are reduced to mrh_cmd_status; transfers, CDBs and       *)
(* scatter lists are left to FrameLayout.                                  *)
(***************************************************************************)
EXTENDS Naturals, FiniteSets

CONSTANTS
    Ccbs,        \* the sc_max_cmds command control blocks
    Tasks,       \* identities a SCSI task may have
    Managers,    \* threads that issue management commands
    None,        \* a NULL pointer
    Invalid,     \* MRAID_INVALID_CTX
    Reserve,     \* ccbs kept from the SCSI family (3 in the driver)
    PreferMSI,   \* message signalled interrupts: the handler acknowledges
    SharedLoop,  \* the pool's gate is the interrupt work loop's gate, as it is
                 \* until a wake-up gives the interrupt a work loop of its own
    Prompt,      \* assumption: a management reply is handled before its 1 s
                 \* deadline and no signal comes before it; the code has no such
                 \* guarantee, and FALSE leaves the sleep as it is
    FwStatus,    \* the statuses the firmware answers with
    MaxPosts     \* bound: copies of one frame the firmware may hold

Threads == Tasks \cup Managers
MaxCmds == Cardinality(Ccbs)

ASSUME CcbsAssumption    == IsFiniteSet(Ccbs) /\ Ccbs # {}
ASSUME ThreadsAssumption == Tasks \cap Managers = {} /\ IsFiniteSet(Tasks)
ASSUME NullAssumption    == None \notin Ccbs \cup Threads /\ Invalid \notin Ccbs
ASSUME ReserveAssumption == Reserve \in Nat
ASSUME FlagsAssumption   ==
    PreferMSI \in BOOLEAN /\ SharedLoop \in BOOLEAN /\ Prompt \in BOOLEAN
ASSUME StatusAssumption  == FwStatus \subseteq {"ok", "error"}
ASSUME PostsAssumption   == MaxPosts \in Nat \ {0}

\* Mutant of RqEntries: INIT announces a queue without the spare slot.
RqEntriesExact == MaxCmds

(***************************************************************************)
(* sizeof(UInt32) * max_cmds + sizeof(mraid_prod_cons) holds one slot more *)
(* than there are commands, and INIT tells the firmware so.                *)
(***************************************************************************)
RqEntries == MaxCmds + 1
Slots     == 0 .. MaxCmds

\* The slot after s, as the firmware and as the handler count them.
FwAdvance(s)      == (s + 1) % RqEntries
HandlerAdvance(s) == IF s + 1 = MaxCmds + 1 THEN 0 ELSE s + 1

\* Mutant of MaxTaskCount: nothing is saved for management.
MaxTaskCountAll == MaxCmds

\* ReportMaximumTaskCount: the SCSI family sends no more tasks at a time.
MaxTaskCount == MaxCmds - Reserve

Status == {"ok", "error"}
PCs    == {"idle", "get", "fill", "post", "inflight", "xpost", "posted",
           "asleep", "awakened", "timedout", "put"}

VARIABLES
    pool,       \* ccbs in ccbCommandPool
    ccb,        \* ccb_done, ccb_context and the frame's mrh_cmd_status
    fwq,        \* posts of each frame the firmware has not executed
    fwRaise,    \* the firmware has published a reply and not yet signalled it
    intr,       \* the outbound status register says "reply pending"
    reply_q, producer, consumer,           \* the shared queue memory
    due,        \* the interrupt event source was signalled
    hpc, hProducer, hConsumer, hCcb,       \* interruptHandler's locals
    hTask, hStatus,                        \* cmd_context inside mraid_cmd_done
    pc,         \* where each thread is
    cmd,        \* the ccb a thread's request travels in
    event,      \* lock.event of the thread's MRAID_Exec
    result      \* what the thread's last request returned

poolVars    == <<pool, ccb>>
fwVars      == <<fwq, fwRaise>>
queueVars   == <<reply_q, producer, consumer>>
intrVars    == <<intr, due>>
handlerVars == <<hpc, hProducer, hConsumer, hCcb, hTask, hStatus>>
threadVars  == <<pc, cmd, event, result>>
vars == <<pool, ccb, fwq, fwRaise, intr, due, reply_q, producer, consumer, hpc,
          hProducer, hConsumer, hCcb, hTask, hStatus, pc, cmd, event, result>>

-----------------------------------------------------------------------------
\* scrubCommand: status 0x0 is MRAID_STAT_OK.
Scrubbed == [done |-> "none", ctx |-> None, status |-> "ok"]

Init ==
    /\ pool = Ccbs
    /\ ccb = [c \in Ccbs |-> Scrubbed]
    /\ fwq = [c \in Ccbs |-> 0]
    /\ fwRaise = FALSE /\ intr = FALSE /\ due = FALSE
    /\ reply_q = [s \in Slots |-> Invalid]
    /\ producer = 0 /\ consumer = 0
    /\ hpc = "idle" /\ hProducer = 0 /\ hConsumer = 0 /\ hCcb = None
    /\ hTask = None /\ hStatus = "ok"
    /\ pc = [th \in Threads |-> "idle"]
    /\ cmd = [th \in Threads |-> None]
    /\ event = [th \in Threads |-> FALSE]
    /\ result = [th \in Threads |-> "none"]

-----------------------------------------------------------------------------
(* Threads                                                                 *)

Outstanding == {t \in Tasks : pc[t] # "idle"}

\* The SCSI family hands over a task, or a caller starts Management.
Enter(th) ==
    /\ pc[th] = "idle"
    /\ th \in Tasks => Cardinality(Outstanding) < MaxTaskCount
    /\ pc' = [pc EXCEPT ![th] = "get"]
    /\ result' = [result EXCEPT ![th] = "none"]
    /\ UNCHANGED <<poolVars, fwVars, queueVars, intrVars, handlerVars, cmd, event>>

\* The gate that Getccb, Putccb and the handler run under is free.
GateFree == SharedLoop => hpc = "idle"

\* Mutant of Getccb: the ccb is used, and stays in the pool.
GetccbKept(th) ==
    /\ pc[th] = "get"
    /\ GateFree
    /\ \E c \in pool : cmd' = [cmd EXCEPT ![th] = c]
    /\ pc' = [pc EXCEPT ![th] = "fill"]
    /\ UNCHANGED <<poolVars, fwVars, queueVars, intrVars, handlerVars, event, result>>

\* Getccb blocks while the pool is empty, and at the gate while it is held.
Getccb(th) ==
    /\ pc[th] = "get"
    /\ GateFree
    /\ \E c \in pool :
          /\ pool' = pool \ {c}
          /\ cmd' = [cmd EXCEPT ![th] = c]
    /\ pc' = [pc EXCEPT ![th] = "fill"]
    /\ UNCHANGED <<ccb, fwVars, queueVars, intrVars, handlerVars, event, result>>

\* IOCmd and LogicalDiskCmd.
BuildTask(t) ==
    /\ pc[t] = "fill"
    /\ ccb' = [ccb EXCEPT ![cmd[t]].done = "cmd", ![cmd[t]].ctx = t]
    /\ pc' = [pc EXCEPT ![t] = "post"]
    /\ UNCHANGED <<pool, fwVars, queueVars, intrVars, handlerVars, cmd, event, result>>

\* MODE SENSE, a task with no data buffer or one whose scatter list cannot be
\* built fails; SYNCHRONIZE CACHE under a good battery needs no command.
AnswerAtOnce(t) ==
    /\ pc[t] = "fill"
    /\ \E r \in {"failed", "cached"} : result' = [result EXCEPT ![t] = r]
    /\ pc' = [pc EXCEPT ![t] = "put"]
    /\ UNCHANGED <<poolVars, fwVars, queueVars, intrVars, handlerVars, cmd, event>>

\* Do_Management up to mraid_post: for a manager, or for SYNCHRONIZE CACHE.
BuildExec(th) ==
    /\ pc[th] = "fill"
    /\ ccb' = [ccb EXCEPT ![cmd[th]].done = "exec", ![cmd[th]].ctx = th]
    /\ event' = [event EXCEPT ![th] = FALSE]
    /\ pc' = [pc EXCEPT ![th] = "xpost"]
    /\ UNCHANGED <<pool, fwVars, queueVars, intrVars, handlerVars, cmd, result>>

\* mraid_post: the firmware owns the frame from here on.
Post(th) ==
    /\ pc[th] \in {"post", "xpost"}
    /\ fwq[cmd[th]] < MaxPosts
    /\ fwq' = [fwq EXCEPT ![cmd[th]] = @ + 1]
    /\ pc' = [pc EXCEPT ![th] = IF @ = "post" THEN "inflight" ELSE "posted"]
    /\ UNCHANGED <<poolVars, fwRaise, queueVars, intrVars, handlerVars, cmd, event, result>>

\* IOLockSleepDeadline, which does not look at the event first.
Sleep(th) ==
    /\ pc[th] = "posted"
    /\ pc' = [pc EXCEPT ![th] = "asleep"]
    /\ UNCHANGED <<poolVars, fwVars, queueVars, intrVars, handlerVars, cmd, event, result>>

\* The sleep ends without the completion: its second is over, or a signal has
\* interrupted it (THREAD_INTERRUPTIBLE).  Under Prompt this is left only to a
\* thread whose reply was handled before it slept.
Deadline(th) ==
    /\ pc[th] = "asleep"
    /\ Prompt => event[th]
    /\ pc' = [pc EXCEPT ![th] = "timedout"]
    /\ UNCHANGED <<poolVars, fwVars, queueVars, intrVars, handlerVars, cmd, event, result>>

\* The end of MRAID_Exec and Do_Management's look at the status: whatever
\* ended the sleep, the frame's status is the answer.
ExecReturn(th) ==
    /\ pc[th] \in {"awakened", "timedout"}
    /\ event' = [event EXCEPT ![th] = FALSE]
    /\ result' = [result EXCEPT ![th] = ccb[cmd[th]].status]
    /\ pc' = [pc EXCEPT ![th] = "put"]
    /\ UNCHANGED <<poolVars, fwVars, queueVars, intrVars, handlerVars, cmd>>

\* Putccb by the thread itself, and the return to its caller.
Putccb(th) ==
    /\ pc[th] = "put"
    /\ GateFree
    /\ ccb' = [ccb EXCEPT ![cmd[th]] = Scrubbed]
    /\ pool' = pool \cup {cmd[th]}
    /\ cmd' = [cmd EXCEPT ![th] = None]
    /\ pc' = [pc EXCEPT ![th] = "idle"]
    /\ UNCHANGED <<fwVars, queueVars, intrVars, handlerVars, event, result>>

-----------------------------------------------------------------------------
(* Firmware                                                                *)

\* A frame is executed, in any order: status, reply slot, producer index.
FwExecute(c) ==
    /\ fwq[c] > 0
    /\ fwq' = [fwq EXCEPT ![c] = @ - 1]
    /\ \E st \in FwStatus : ccb' = [ccb EXCEPT ![c].status = st]
    /\ reply_q' = [reply_q EXCEPT ![producer] = c]
    /\ producer' = FwAdvance(producer)
    /\ fwRaise' = TRUE
    /\ UNCHANGED <<pool, consumer, intrVars, handlerVars, threadVars>>

\* The status bit rises; with MSI the edge is the message.
FwRaise ==
    /\ fwRaise
    /\ fwRaise' = FALSE
    /\ intr' = TRUE
    /\ due' = (due \/ (PreferMSI /\ ~intr))
    /\ UNCHANGED <<poolVars, fwq, queueVars, handlerVars, threadVars>>

-----------------------------------------------------------------------------
(* Interrupt filter and handler                                            *)

\* mraid_my_intr: acknowledge, then have the handler scheduled.
Filter ==
    /\ ~PreferMSI /\ intr
    /\ intr' = FALSE
    /\ due' = TRUE
    /\ UNCHANGED <<poolVars, fwVars, queueVars, handlerVars, threadVars>>

HandlerStart ==
    /\ due /\ hpc = "idle"
    /\ due' = FALSE
    /\ hpc' = IF PreferMSI THEN "ack" ELSE "snap"
    /\ UNCHANGED <<poolVars, fwVars, queueVars, intr, hProducer, hConsumer, hCcb,
                   hTask, hStatus, threadVars>>

HandlerAck ==
    /\ hpc = "ack"
    /\ intr' = FALSE
    /\ hpc' = "snap"
    /\ UNCHANGED <<poolVars, fwVars, queueVars, due, hProducer, hConsumer, hCcb,
                   hTask, hStatus, threadVars>>

HandlerSnap ==
    /\ hpc = "snap"
    /\ hProducer' = producer
    /\ hConsumer' = consumer
    /\ hpc' = "loop"
    /\ UNCHANGED <<poolVars, fwVars, queueVars, intrVars, hCcb, hTask, hStatus, threadVars>>

\* Mutant of HandlerTake: the slot keeps the reply that was taken from it.
HandlerTakeKeeps ==
    /\ hpc = "loop" /\ hConsumer # hProducer
    /\ hConsumer' = HandlerAdvance(hConsumer)
    /\ IF reply_q[hConsumer] = Invalid
         THEN UNCHANGED <<hCcb, hpc>>
         ELSE hCcb' = reply_q[hConsumer] /\ hpc' = "call"
    /\ UNCHANGED <<poolVars, fwVars, queueVars, intrVars, hProducer, hTask, hStatus, threadVars>>

\* One turn of the loop takes one slot.
HandlerTake ==
    /\ hpc = "loop" /\ hConsumer # hProducer
    /\ reply_q' = [reply_q EXCEPT ![hConsumer] = Invalid]
    /\ hConsumer' = HandlerAdvance(hConsumer)
    /\ IF reply_q[hConsumer] = Invalid
         THEN UNCHANGED <<hCcb, hpc>>
         ELSE hCcb' = reply_q[hConsumer] /\ hpc' = "call"
    /\ UNCHANGED <<poolVars, fwVars, producer, consumer, intrVars, hProducer, hTask,
                   hStatus, threadVars>>

\* Mutant of CmdDone: the status is read after Putccb has scrubbed the frame.
CmdDoneScrubFirst ==
    /\ hpc = "call" /\ ccb[hCcb].done = "cmd"
    /\ hTask' = ccb[hCcb].ctx
    /\ hStatus' = Scrubbed.status
    /\ cmd' = [cmd EXCEPT ![ccb[hCcb].ctx] = None]
    /\ ccb' = [ccb EXCEPT ![hCcb] = Scrubbed]
    /\ pool' = pool \cup {hCcb}
    /\ hCcb' = None
    /\ hpc' = "complete"
    /\ UNCHANGED <<fwVars, queueVars, intrVars, hProducer, hConsumer, pc, event, result>>

\* mraid_cmd_done up to Putccb: the status is copied out of the frame, the
\* ccb goes back to the pool.
CmdDone ==
    /\ hpc = "call" /\ ccb[hCcb].done = "cmd"
    /\ hTask' = ccb[hCcb].ctx
    /\ hStatus' = ccb[hCcb].status
    /\ cmd' = [cmd EXCEPT ![ccb[hCcb].ctx] = None]
    /\ ccb' = [ccb EXCEPT ![hCcb] = Scrubbed]
    /\ pool' = pool \cup {hCcb}
    /\ hCcb' = None
    /\ hpc' = "complete"
    /\ UNCHANGED <<fwVars, queueVars, intrVars, hProducer, hConsumer, pc, event, result>>

\* CompleteParallelTask: the task's identity is free again.
CompleteTask ==
    /\ hpc = "complete"
    /\ pc' = [pc EXCEPT ![hTask] = "idle"]
    /\ result' = [result EXCEPT ![hTask] = hStatus]
    /\ hTask' = None
    /\ hStatus' = "ok"
    /\ hpc' = "loop"
    /\ UNCHANGED <<poolVars, fwVars, queueVars, intrVars, hProducer, hConsumer, hCcb, cmd, event>>

\* mraid_exec_done, under the lock its sleeper holds.
ExecDone ==
    /\ hpc = "call" /\ ccb[hCcb].done = "exec" /\ ccb[hCcb].ctx # None
    /\ LET th == ccb[hCcb].ctx IN
         /\ event' = [event EXCEPT ![th] = TRUE]
         /\ pc' = [pc EXCEPT ![th] = IF @ = "asleep" THEN "awakened" ELSE @]
    /\ ccb' = [ccb EXCEPT ![hCcb].ctx = None]
    /\ hCcb' = None
    /\ hpc' = "loop"
    /\ UNCHANGED <<pool, fwVars, queueVars, intrVars, hProducer, hConsumer, hTask,
                   hStatus, cmd, result>>

\* Mutant of HandlerEnd: the interrupt is acknowledged when the loop is over.
HandlerEndAck ==
    /\ hpc = "loop" /\ hConsumer = hProducer
    /\ consumer' = hConsumer
    /\ intr' = FALSE
    /\ hpc' = "idle" /\ hProducer' = 0 /\ hConsumer' = 0
    /\ UNCHANGED <<poolVars, fwVars, reply_q, producer, due, hCcb, hTask, hStatus, threadVars>>

\* Mutant of HandlerEnd: replies that came in during the loop count as read.
HandlerEndSkips ==
    /\ hpc = "loop" /\ hConsumer = hProducer
    /\ consumer' = producer
    /\ hpc' = "idle" /\ hProducer' = 0 /\ hConsumer' = 0
    /\ UNCHANGED <<poolVars, fwVars, reply_q, producer, intrVars, hCcb, hTask, hStatus,
                   threadVars>>

HandlerEnd ==
    /\ hpc = "loop" /\ hConsumer = hProducer
    /\ consumer' = hConsumer
    /\ hpc' = "idle" /\ hProducer' = 0 /\ hConsumer' = 0
    /\ UNCHANGED <<poolVars, fwVars, reply_q, producer, intrVars, hCcb, hTask, hStatus,
                   threadVars>>

-----------------------------------------------------------------------------
ThreadStep(th) ==
    \/ Getccb(th) \/ BuildExec(th) \/ Post(th) \/ Sleep(th)
    \/ Deadline(th) \/ ExecReturn(th) \/ Putccb(th)
TaskStep(t) == BuildTask(t) \/ AnswerAtOnce(t)
Handler ==
    \/ HandlerStart \/ HandlerAck \/ HandlerSnap \/ HandlerTake
    \/ CmdDone \/ CompleteTask \/ ExecDone \/ HandlerEnd

Next ==
    \/ \E th \in Threads : Enter(th) \/ ThreadStep(th)
    \/ \E t \in Tasks : TaskStep(t)
    \/ \E c \in Ccbs : FwExecute(c)
    \/ FwRaise \/ Filter \/ Handler

Spec == Init /\ [][Next]_vars

\* What a thread does by itself between getting a ccb and giving it back.
Advance(th) ==
    BuildExec(th) \/ Post(th) \/ Sleep(th) \/ Deadline(th) \/ ExecReturn(th)

\* The firmware executes the frame of a thread.
FwAnswer(th) == \E c \in Ccbs : cmd[th] = c /\ FwExecute(c)

(***************************************************************************)
(* Fairness: threads run, the firmware answers the frame of every thread   *)
(* that waits for it and signals every reply, the work loop runs the       *)
(* handler.  The gate is a lock that is released over and over: strong     *)
(* fairness at Getccb and Putccb.                                          *)
(***************************************************************************)
Scheduled(th) ==
    /\ WF_vars(Advance(th)) /\ WF_vars(FwAnswer(th))
    /\ SF_vars(Getccb(th)) /\ SF_vars(Putccb(th))
Serviced == WF_vars(FwRaise) /\ WF_vars(Filter) /\ WF_vars(Handler)
Fairness == Serviced /\ \A th \in Threads : Scheduled(th)

FairSpec == Spec /\ Fairness

-----------------------------------------------------------------------------
\* The values every variable may take.
TypeOK ==
    /\ pool \subseteq Ccbs
    /\ ccb \in [Ccbs -> [done : {"none", "cmd", "exec"},
                         ctx : Threads \cup {None}, status : Status]]
    /\ fwq \in [Ccbs -> 0 .. MaxPosts]
    /\ fwRaise \in BOOLEAN /\ intr \in BOOLEAN /\ due \in BOOLEAN
    /\ reply_q \in [Slots -> Ccbs \cup {Invalid}]
    /\ producer \in Slots /\ consumer \in Slots
    /\ hpc \in {"idle", "ack", "snap", "loop", "call", "complete"}
    /\ hProducer \in Slots /\ hConsumer \in Slots
    /\ hCcb \in Ccbs \cup {None}
    /\ hTask \in Threads \cup {None}
    /\ hStatus \in Status
    /\ pc \in [Threads -> PCs]
    /\ cmd \in [Threads -> Ccbs \cup {None}]
    /\ event \in [Threads -> BOOLEAN]
    /\ result \in [Threads -> Status \cup {"none", "failed", "cached"}]

Waiting == {"inflight", "posted", "asleep"}

(***************************************************************************)
(* A ccb is held by at most one request, and never while it is in the      *)
(* pool; a thread past Getccb holds one (Getccb, Putccb, CompleteTask).    *)
(***************************************************************************)
Exclusive ==
    /\ \A th \in Threads : cmd[th] # None => cmd[th] \notin pool
    /\ \A a, b \in Threads : cmd[a] = cmd[b] /\ cmd[a] # None => a = b

(***************************************************************************)
(* A reply in the queue, or the one the handler is about to call back,     *)
(* belongs to a request that is still waiting for it: its ccb has not been *)
(* given back or handed to another request, and it appears once.           *)
(***************************************************************************)
RepliesOwned ==
    /\ \A s \in Slots : reply_q[s] # Invalid =>
          /\ fwq[reply_q[s]] = 0
          /\ \E th \in Threads : cmd[th] = reply_q[s] /\ pc[th] \in Waiting
                                 /\ ccb[reply_q[s]].ctx = th
    /\ \A s1, s2 \in Slots : reply_q[s1] = reply_q[s2] /\ reply_q[s1] # Invalid => s1 = s2
    /\ hpc = "call" => \A s \in Slots : reply_q[s] # hCcb

\* Where the next unread reply is.
ReadPosition == IF hpc \in {"loop", "call", "complete"} THEN hConsumer ELSE consumer
Between(lo, s, hi) == IF lo <= hi THEN lo <= s /\ s < hi ELSE lo <= s \/ s < hi

(***************************************************************************)
(* The queue never overruns and never shows the handler a slot without a   *)
(* reply: exactly the slots from the read position to the producer index   *)
(* hold one, though the consumer index is published only after the         *)
(* callbacks have put ccbs back into use.                                  *)
(***************************************************************************)
QueueWindow ==
    \A s \in Slots : reply_q[s] # Invalid <=> Between(ReadPosition, s, producer)

(***************************************************************************)
(* interruptHandler, my_assert(ccb->s.ccb_done): a ccb that is called back *)
(* has its completion routine set, and the routine has its context.  Not   *)
(* so when Prompt is FALSE: a caller that stopped waiting has scrubbed it. *)
(***************************************************************************)
CcbDoneSet ==
    hpc = "call" => ccb[hCcb].done # "none" /\ ccb[hCcb].ctx # None

(***************************************************************************)
(* A reply beyond what the running handler has seen is signalled, to the   *)
(* filter or, when interrupts are messages, to the handler: neither the    *)
(* acknowledgement nor a rise of a bit that is still up loses the only     *)
(* notice of a reply.                                                      *)
(***************************************************************************)
NoStrandedReply ==
    LET seen == IF hpc \in {"loop", "call", "complete"} THEN hProducer ELSE consumer
    IN seen # producer => fwRaise \/ (intr /\ ~PreferMSI) \/ due \/ hpc \in {"ack", "snap"}

(***************************************************************************)
(* "Save few for management": no thread ever finds the pool empty while    *)
(* the management callers are no more than the reserve.                    *)
(***************************************************************************)
PoolNeverEmpty ==
    Cardinality(Managers) <= Reserve => \A th \in Threads : pc[th] = "get" => pool # {}

(***************************************************************************)
(* MRAID_Exec, my_assert(ret == THREAD_AWAKENED): the sleep is ended by    *)
(* the completion, not by the deadline.  Not so even under Prompt: the     *)
(* completion may come before the sleep.                                   *)
(***************************************************************************)
ExecAwakened == \A th \in Threads : pc[th] # "timedout"

\* States in which a thread waits for nobody.
OnItsOwn(th) ==
    \/ pc[th] \in {"fill", "post", "xpost", "posted", "awakened", "timedout"}
    \/ pc[th] = "asleep" /\ event[th]

(***************************************************************************)
(* Nobody is held up but by the gate, by an empty pool or by a reply that  *)
(* is on its way: handler, filter and firmware finish what they began, and *)
(* a thread goes on, whatever state the others have left.  (A premise of   *)
(* liveness; it says when the steps are enabled.)                          *)
(***************************************************************************)
OnlyGateBlocks ==
    /\ due \/ hpc # "idle" => ENABLED <<Handler>>_vars
    /\ fwRaise => ENABLED <<FwRaise>>_vars
    /\ intr /\ ~PreferMSI => ENABLED <<Filter>>_vars
    /\ \A th \in Threads :
          /\ OnItsOwn(th) => ENABLED <<Advance(th)>>_vars
          /\ cmd[th] \in Ccbs /\ fwq[cmd[th]] > 0 => ENABLED <<FwAnswer(th)>>_vars
          /\ pc[th] = "get" /\ GateFree /\ pool # {} => ENABLED <<Getccb(th)>>_vars
          /\ pc[th] = "put" /\ GateFree => ENABLED <<Putccb(th)>>_vars

(***************************************************************************)
(* Whoever enters the driver leaves it: no reply is lost, no sleeper is    *)
(* forgotten (the deadline rescues the ones whose wake-up came too early). *)
(***************************************************************************)
EveryRequestReturns == \A th \in Threads : pc[th] = "get" ~> pc[th] = "idle"
-----------------------------------------------------------------------------
(* The inductive invariant behind the safety properties.                   *)

\* The firmware or the handler still has business with the ccb.
Pending(c) == fwq[c] > 0 \/ (\E s \in Slots : reply_q[s] = c) \/ hCcb = c

\* A thread has a ccb exactly while it needs one, and has it alone.
Holding ==
    /\ \A th \in Threads : pc[th] \in {"idle", "get"} => cmd[th] = None
    /\ \A th \in Threads : pc[th] \notin {"idle", "get", "inflight"} => cmd[th] \in Ccbs

\* A filled ccb names its thread, whose event is still to come.
Filled ==
    /\ \A th \in Threads : pc[th] = "post" =>
          ccb[cmd[th]].done = "cmd" /\ ccb[cmd[th]].ctx = th
    /\ \A th \in Threads : pc[th] = "xpost" =>
          ccb[cmd[th]].done = "exec" /\ ccb[cmd[th]].ctx = th /\ ~event[th]
    /\ \A th \in Threads : pc[th] \in {"posted", "asleep"} /\ event[th] =>
          ccb[cmd[th]].ctx = None

\* Who waits for a pending ccb is the thread its context points to.
PendingOwned ==
    \A c \in Ccbs : Pending(c) =>
        /\ ccb[c].ctx \in Threads
        /\ cmd[ccb[c].ctx] = c
        /\ pc[ccb[c].ctx] \in Waiting
        /\ ccb[c].done = IF pc[ccb[c].ctx] = "inflight" THEN "cmd" ELSE "exec"

\* A ccb is in one place: posted once, or in one slot, or being called back.
PendingOnce ==
    /\ \A c \in Ccbs : fwq[c] <= 1
    /\ \A s \in Slots : reply_q[s] \in Ccbs => fwq[reply_q[s]] = 0 /\ reply_q[s] # hCcb
    /\ hCcb \in Ccbs => fwq[hCcb] = 0
    /\ \A s1, s2 \in Slots : reply_q[s1] = reply_q[s2] /\ reply_q[s1] # Invalid => s1 = s2

\* The handler's locals are set exactly while it uses them.
HandlerLocals ==
    /\ hpc = "call" <=> hCcb # None
    /\ hpc = "complete" <=> hTask # None
    /\ hTask # None => pc[hTask] = "inflight" /\ cmd[hTask] = None

\* The producer index the handler remembers is still ahead of it, or met.
SnapshotInWindow ==
    hpc \in {"loop", "call", "complete"} =>
        hProducer = producer \/ Between(hConsumer, hProducer, producer)

\* All of it: inductive when Prompt holds.
IInv == TypeOK /\ Exclusive /\ Holding /\ Filled /\ PendingOwned /\ PendingOnce /\ HandlerLocals
=============================================================================
