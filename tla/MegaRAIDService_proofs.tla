------------------------ MODULE MegaRAIDService_proofs ------------------------
(***************************************************************************)
(* What the users of the command path are promised: no reply is stranded,  *)
(* the reserve for management keeps the pool from running empty, and the   *)
(* whole path implements TaskService.                                      *)
(***************************************************************************)
EXTENDS MegaRAIDCommands_proofs, MegaRAIDRefinement

-----------------------------------------------------------------------------
(* Interrupts                                                              *)

\* With messages a status bit that is up has been told to the handler, which
\* has not acknowledged it.
Notified ==
    /\ fwRaise \in BOOLEAN /\ intr \in BOOLEAN /\ due \in BOOLEAN
    /\ NoStrandedReply
    /\ PreferMSI /\ intr => due \/ hpc = "ack"

LEMMA NotifiedStep == ASSUME Notified, [Next]_vars PROVE Notified'
  <1> USE DEF Notified, NoStrandedReply
  <1>1. ASSUME NEW c \in Ccbs, FwExecute(c) PROVE Notified'
    BY <1>1 DEF FwExecute, intrVars, handlerVars
  <1>2. CASE FwRaise
    BY <1>2 DEF FwRaise, queueVars, handlerVars
  <1>3. CASE Filter
    BY <1>3 DEF Filter, fwVars, queueVars, handlerVars
  <1>4. CASE HandlerStart
    <2>1. hpc = "idle" /\ hpc' = (IF PreferMSI THEN "ack" ELSE "snap") /\ due' = FALSE
      BY <1>4 DEF HandlerStart
    <2>2. UNCHANGED <<fwRaise, intr, producer, consumer, hProducer>>
      BY <1>4 DEF HandlerStart, fwVars, queueVars
    <2> QED BY <2>1, <2>2
  <1>5. CASE HandlerAck
    BY <1>5 DEF HandlerAck, fwVars, queueVars
  <1>12. CASE HandlerSnap
    <2>1. hpc = "snap" /\ hpc' = "loop" /\ hProducer' = producer
      BY <1>12 DEF HandlerSnap
    <2>2. UNCHANGED <<fwRaise, intr, due, producer>>
      BY <1>12 DEF HandlerSnap, fwVars, queueVars, intrVars
    <2> QED BY <2>1, <2>2
  <1>6. CASE HandlerTake \/ CmdDone \/ CompleteTask \/ ExecDone
    BY <1>6 DEF HandlerTake, CmdDone, CompleteTask, ExecDone, fwVars, queueVars, intrVars
  <1>7. CASE HandlerEnd
    BY <1>7 DEF HandlerEnd, fwVars, intrVars
  <1>8. CASE UNCHANGED <<fwRaise, queueVars, intrVars, handlerVars>>
    BY <1>8 DEF queueVars, intrVars, handlerVars
  <1>9. ASSUME NEW th \in Threads, Enter(th) \/ ThreadStep(th)
        PROVE  UNCHANGED <<fwRaise, queueVars, intrVars, handlerVars>>
    BY <1>9 DEF Enter, ThreadStep, Getccb, BuildExec, Post, Sleep, Deadline, ExecReturn, Putccb,
       fwVars
  <1>10. ASSUME NEW t \in Tasks, TaskStep(t) PROVE UNCHANGED <<fwRaise, queueVars, intrVars, handlerVars>>
    BY <1>10 DEF TaskStep, BuildTask, AnswerAtOnce, fwVars
  <1>11. CASE UNCHANGED vars
    BY <1>8, <1>11 DEF vars, queueVars, intrVars, handlerVars
  <1> QED BY ONLY <1>1, <1>2, <1>3, <1>4, <1>5, <1>6, <1>7, <1>8, <1>9, <1>10, <1>11, <1>12,
     [Next]_vars
          DEF Next, Handler

(***************************************************************************)
(* mraid_my_intr, interruptHandler: with either kind of interrupt, and     *)
(* however late its replies are, no reply is left in the queue without     *)
(* something that will make the handler look.                              *)
(***************************************************************************)
THEOREM NothingStranded == Spec => []NoStrandedReply
  <1>1. Init => Notified
    BY DEF Init, Notified, NoStrandedReply
  <1>2. Notified /\ [Next]_vars => Notified'
    BY NotifiedStep
  <1>3. Notified => NoStrandedReply
    BY DEF Notified
  <1> QED BY <1>1, <1>2, <1>3, PTL DEF Spec

-----------------------------------------------------------------------------
(* The pool                                                                *)

\* A ccb that is not in the pool is held by a thread.
Conserved == \A c \in Ccbs : c \in pool \/ \E th \in Threads : cmd[th] = c

LEMMA ConservedStep == ASSUME IInv, Conserved, [Next]_vars PROVE Conserved'
  <1> USE DEF Conserved
  <1>0. TypeOK /\ Exclusive /\ PendingOwned /\ HandlerLocals
    BY DEF IInv
  <1>1. ASSUME NEW th \in Threads, Getccb(th) PROVE Conserved'
    <2>1. PICK d \in pool : pool' = pool \ {d} /\ cmd' = [cmd EXCEPT ![th] = d]
      BY <1>1 DEF Getccb
    <2>2. cmd[th] = None
      BY <1>1 DEF Getccb, IInv, Holding
    <2>3. cmd'[th] = d /\ \A a \in Threads : a # th => cmd'[a] = cmd[a]
      BY <1>0, <2>1 DEF TypeOK
    <2> QED BY <2>1, <2>2, <2>3, NullAssumption
  <1>2. ASSUME NEW th \in Threads, Putccb(th) PROVE Conserved'
    <2>1. pool' = pool \cup {cmd[th]} /\ \A a \in Threads : a # th => cmd'[a] = cmd[a]
      BY <1>0, <1>2 DEF Putccb, TypeOK
    <2> QED BY <2>1
  <1>3. CASE CmdDone
    <2>1. hCcb \in Ccbs /\ ccb[hCcb].ctx \in Threads /\ cmd[ccb[hCcb].ctx] = hCcb
      BY <1>0, <1>3 DEF CmdDone, TypeOK, HandlerLocals, PendingOwned, Pending
    <2>2. pool' = pool \cup {hCcb}
          /\ \A a \in Threads : a # ccb[hCcb].ctx => cmd'[a] = cmd[a]
      BY <1>0, <1>3 DEF CmdDone, TypeOK
    <2> QED BY <2>1, <2>2
  <1>4. CASE UNCHANGED <<pool, cmd>>
    BY <1>4
  <1> QED BY ONLY <1>1, <1>2, <1>3, <1>4, [Next]_vars
          DEF Next, ThreadStep, TaskStep, Handler, vars, poolVars, threadVars, Enter, BuildTask,
              AnswerAtOnce, BuildExec, Post, Sleep, Deadline, ExecReturn, FwExecute, FwRaise,
              Filter, HandlerStart, HandlerAck, HandlerSnap, HandlerTake, CompleteTask,
              ExecDone, HandlerEnd

\* As many tasks are under way as ReportMaximumTaskCount allows at most.
TasksBounded == Outstanding # {} => Cardinality(Outstanding) <= MaxTaskCount

LEMMA TasksFinite == IsFiniteSet(Outstanding) /\ IsFiniteSet(Outstanding')
                     /\ Cardinality(Outstanding) \in Nat /\ Cardinality(Outstanding') \in Nat
                     /\ MaxTaskCount \in Int
  <1>1. Outstanding \subseteq Tasks /\ Outstanding' \subseteq Tasks
    BY DEF Outstanding
  <1>2. IsFiniteSet(Outstanding) /\ IsFiniteSet(Outstanding')
    BY <1>1, ThreadsAssumption, FS_Subset
  <1> QED BY <1>2, FS_CardinalityType, MaxCmdsNat, ReserveAssumption DEF MaxTaskCount

LEMMA TasksStep == ASSUME TypeOK, TasksBounded, [Next]_vars PROVE TasksBounded'
  <1>1. ASSUME NEW t \in Tasks, Enter(t) PROVE TasksBounded'
    <2>1. Outstanding' = Outstanding \cup {t}
      BY <1>1 DEF Enter, Outstanding, TypeOK, Threads
    <2>2. Cardinality(Outstanding) < MaxTaskCount
      BY <1>1 DEF Enter
    <2>3. Cardinality(Outstanding') <= Cardinality(Outstanding) + 1
      BY <2>1, TasksFinite, FS_AddElement
    <2> QED BY <2>2, <2>3, TasksFinite DEF TasksBounded
  <1>2. CASE Outstanding' \subseteq Outstanding
    <2>1. Cardinality(Outstanding') <= Cardinality(Outstanding)
      BY <1>2, TasksFinite, FS_Subset
    <2> QED BY <1>2, <2>1, TasksFinite DEF TasksBounded
  <1>3. ASSUME NEW m \in Managers, Enter(m) PROVE Outstanding' \subseteq Outstanding
    BY <1>3, ThreadsAssumption DEF Enter, Outstanding, TypeOK, Threads
  <1>4. ASSUME NEW th \in Threads, ThreadStep(th) PROVE Outstanding' \subseteq Outstanding
    <2>1. pc[th] # "idle" /\ \A a \in Threads : a # th => pc'[a] = pc[a]
      BY <1>4 DEF ThreadStep, Getccb, BuildExec, Post, Sleep, Deadline, ExecReturn, Putccb, TypeOK
    <2> QED BY <2>1 DEF Outstanding, Threads
  <1>5. ASSUME NEW t \in Tasks, TaskStep(t) PROVE Outstanding' \subseteq Outstanding
    <2>1. pc[t] # "idle" /\ \A a \in Threads : a # t => pc'[a] = pc[a]
      BY <1>5 DEF TaskStep, BuildTask, AnswerAtOnce, TypeOK, Threads
    <2> QED BY <2>1 DEF Outstanding, Threads
  <1>6. ASSUME CompleteTask PROVE Outstanding' \subseteq Outstanding
    <2>1. pc' = [pc EXCEPT ![hTask] = "idle"]
      BY <1>6 DEF CompleteTask
    <2>2. \A a \in Threads : pc'[a] = pc[a] \/ pc'[a] = "idle"
      BY <2>1 DEF TypeOK
    <2> QED BY <2>2 DEF Outstanding, Threads
  <1>7. ASSUME ExecDone PROVE Outstanding' \subseteq Outstanding
    <2>1. pc' = [pc EXCEPT ![ccb[hCcb].ctx] = IF @ = "asleep" THEN "awakened" ELSE @]
      BY <1>7 DEF ExecDone
    <2>2. \A a \in Threads : pc'[a] = pc[a] \/ pc[a] = "asleep"
      BY <2>1 DEF TypeOK
    <2> QED BY <2>2 DEF Outstanding, Threads
  <1>8. ASSUME UNCHANGED pc PROVE Outstanding' \subseteq Outstanding
    BY <1>8 DEF Outstanding
  <1> QED BY ONLY <1>1, <1>2, <1>3, <1>4, <1>5, <1>6, <1>7, <1>8, [Next]_vars
          DEF Next, Handler, Threads, vars, threadVars, FwExecute, FwRaise, Filter, HandlerStart,
              HandlerAck, HandlerSnap, HandlerTake, CmdDone, HandlerEnd

\* Whoever waits for a ccb would have to be the one thread too many.
LEMMA PoolLasts ==
    ASSUME IInv, Conserved, TasksBounded, IsFiniteSet(Managers), Reserve <= MaxCmds,
           Cardinality(Managers) <= Reserve, NEW th \in Threads, pc[th] = "get"
    PROVE  pool # {}
  <1> DEFINE Holders == {a \in Threads : cmd[a] \in Ccbs}
             Busy    == Outstanding \cup Managers
  <1> SUFFICES ASSUME pool = {} PROVE FALSE
    OBVIOUS
  <1>1. TypeOK /\ Holding
    BY DEF IInv
  <1>2. Holders \subseteq Busy \ {th} /\ th \in Busy
    BY <1>1, NullAssumption DEF Holding, Outstanding, Threads
  <1>3. IsFiniteSet(Busy) /\ Cardinality(Busy) <= MaxCmds
    <2>1. Outstanding \cap Managers = {}
      BY ThreadsAssumption DEF Outstanding
    <2>2. /\ IsFiniteSet(Busy)
          /\ Cardinality(Busy) = Cardinality(Outstanding) + Cardinality(Managers)
      <3>1. /\ IsFiniteSet(Outstanding \cup Managers)
            /\ Cardinality(Outstanding \cup Managers) =
                 Cardinality(Outstanding) + Cardinality(Managers)
                 - Cardinality(Outstanding \cap Managers)
        BY TasksFinite, FS_Union
      <3>2. Cardinality({}) = 0
        BY FS_EmptySet
      <3>3. Cardinality(Outstanding \cap Managers) = 0
        BY <2>1, <3>2
      <3>4. Cardinality(Managers) \in Nat /\ Cardinality(Outstanding) \in Nat
        BY FS_CardinalityType, TasksFinite
      <3> QED BY <3>1, <3>3, <3>4
    <2>3. Cardinality(Managers) \in Nat /\ Reserve \in Nat /\ MaxCmds \in Nat
      BY FS_CardinalityType, ReserveAssumption, MaxCmdsNat
    <2>4. CASE Outstanding = {}
      BY <2>2, <2>3, <2>4, FS_EmptySet
    <2>5. CASE Outstanding # {}
      <3>1. Cardinality(Outstanding) <= MaxCmds - Reserve
        BY <2>5 DEF TasksBounded, MaxTaskCount
      <3> QED BY <2>2, <2>3, <3>1, TasksFinite
    <2> QED BY <2>2, <2>4, <2>5
  <1>4. IsFiniteSet(Holders) /\ Cardinality(Holders) < MaxCmds
    <2> HIDE DEF Holders, Busy
    <2>1. IsFiniteSet(Busy \ {th}) /\ Cardinality(Busy \ {th}) = Cardinality(Busy) - 1
      BY <1>2, <1>3, FS_RemoveElement
    <2>2. IsFiniteSet(Holders) /\ Cardinality(Holders) <= Cardinality(Busy \ {th})
      BY <1>2, <2>1, FS_Subset
    <2>3. Cardinality(Busy) \in Nat /\ Cardinality(Holders) \in Nat
      BY <1>3, <2>2, FS_CardinalityType
    <2> QED BY <1>3, <2>1, <2>2, <2>3, MaxCmdsNat
  <1> DEFINE f == [a \in Holders |-> cmd[a]]
  <1>5. f \in Surjection(Holders, Ccbs)
    <2>1. \A c \in Ccbs : \E a \in Holders : f[a] = c
      BY DEF Conserved
    <2> QED BY <2>1 DEF Surjection
  <1>6. MaxCmds <= Cardinality(Holders)
    <2> HIDE DEF f, Holders
    <2> QED BY <1>4, <1>5, FS_Surjection DEF MaxCmds
  <1>7. Cardinality(Holders) \in Nat
    BY <1>4, FS_CardinalityType
  <1> QED BY <1>4, <1>6, <1>7, MaxCmdsNat

(***************************************************************************)
(* "Save few for management": with any number of ccbs, and callers of      *)
(* Management no more than the ccbs kept from the SCSI family, nobody ever *)
(* waits in Getccb on an empty pool.                                       *)
(***************************************************************************)
THEOREM ReserveSuffices ==
    Prompt /\ IsFiniteSet(Managers) /\ Reserve <= MaxCmds => (Spec => []PoolNeverEmpty)
  <1> SUFFICES ASSUME Prompt, IsFiniteSet(Managers), Reserve <= MaxCmds
               PROVE  Spec => []PoolNeverEmpty
    OBVIOUS
  <1>1. Init => Conserved /\ TasksBounded
    BY DEF Init, Conserved, TasksBounded, Outstanding, Threads
  <1>2. IInv /\ Conserved /\ TasksBounded /\ [Next]_vars => Conserved' /\ TasksBounded'
    BY ConservedStep, TasksStep DEF IInv
  <1>3. IInv /\ Conserved /\ TasksBounded => PoolNeverEmpty
    BY PoolLasts DEF PoolNeverEmpty
  <1> QED BY <1>1, <1>2, <1>3, Inductive, PTL DEF Spec

-----------------------------------------------------------------------------
(* The service                                                             *)

\* A task's thread that gives its ccb back knows what to tell.
PutKnows == \A th \in Threads : pc[th] = "put" => result[th] # "none"

LEMMA PutKnowsStep == ASSUME TypeOK, PutKnows, Holding, HandlerLocals, [Next]_vars PROVE PutKnows'
  <1> USE DEF TypeOK, PutKnows, Status
  <1>1. ASSUME NEW th \in Threads, Enter(th) \/ ThreadStep(th) PROVE PutKnows'
    BY <1>1 DEF Enter, ThreadStep, Getccb, BuildExec, Post, Sleep, Deadline, ExecReturn, Putccb,
       Holding
  <1>2. ASSUME NEW t \in Tasks, TaskStep(t) PROVE PutKnows'
    BY <1>2 DEF TaskStep, BuildTask, AnswerAtOnce
  <1>3. CASE CompleteTask
    BY <1>3 DEF CompleteTask
  <1>4. CASE ExecDone
    BY <1>4 DEF ExecDone
  <1>5. CASE UNCHANGED <<pc, result>>
    BY <1>5
  <1> QED BY ONLY <1>1, <1>2, <1>3, <1>4, <1>5, [Next]_vars
          DEF Next, Handler, vars, threadVars, FwExecute, FwRaise, Filter, HandlerStart,
              HandlerAck, HandlerSnap, HandlerTake, CmdDone, HandlerEnd


View(th) == <<PhaseOf(th), VerdictOf(th), AnswerOf(th)>>

\* What the service sees is one requester's change, or none.
LEMMA OneMoves ==
    ASSUME NEW th \in Threads, \A a \in Threads : a # th => View(a)' = View(a)
    PROVE  /\ phaseBar' = [phaseBar EXCEPT ![th] = PhaseOf(th)']
           /\ verdictBar' = [verdictBar EXCEPT ![th] = VerdictOf(th)']
           /\ answerBar' = [answerBar EXCEPT ![th] = AnswerOf(th)']
           /\ VerdictOf(th)' = VerdictOf(th) => verdictBar' = verdictBar
           /\ AnswerOf(th)' = AnswerOf(th) => answerBar' = answerBar
           /\ phaseBar[th] = PhaseOf(th) /\ verdictBar[th] = VerdictOf(th)
  <1>1. \A a \in Threads : a # th =>
           PhaseOf(a)' = PhaseOf(a) /\ VerdictOf(a)' = VerdictOf(a) /\ AnswerOf(a)' = AnswerOf(a)
    BY DEF View
  <1>2. phaseBar' = [phaseBar EXCEPT ![th] = PhaseOf(th)'] /\ phaseBar[th] = PhaseOf(th)
    BY <1>1 DEF phaseBar
  <1>3. /\ verdictBar' = [verdictBar EXCEPT ![th] = VerdictOf(th)']
        /\ verdictBar[th] = VerdictOf(th)
        /\ VerdictOf(th)' = VerdictOf(th) => verdictBar' = verdictBar
    BY <1>1 DEF verdictBar
  <1>4. /\ answerBar' = [answerBar EXCEPT ![th] = AnswerOf(th)']
        /\ AnswerOf(th)' = AnswerOf(th) => answerBar' = answerBar
    BY <1>1 DEF answerBar
  <1> QED BY <1>2, <1>3, <1>4

LEMMA NobodyMoves ==
    ASSUME \A a \in Threads : View(a)' = View(a)
    PROVE  UNCHANGED Service!vars
  <1>1. \A a \in Threads :
           PhaseOf(a)' = PhaseOf(a) /\ VerdictOf(a)' = VerdictOf(a) /\ AnswerOf(a)' = AnswerOf(a)
    BY DEF View
  <1>2. UNCHANGED <<phaseBar, verdictBar, answerBar>>
    BY <1>1 DEF phaseBar, verdictBar, answerBar
  <1> QED BY <1>2 DEF Service!vars

LEMMA ServiceInit == Init => Service!Init
  <1> SUFFICES ASSUME Init PROVE Service!Init
    OBVIOUS
  <1>1. \A th \in Threads : PhaseOf(th) = "idle" /\ VerdictOf(th) = "none" /\ AnswerOf(th) = "none"
    BY NullAssumption DEF Init, PhaseOf, VerdictOf, AnswerOf, Replied, Returning, Waiting, Status
  <1> QED BY <1>1 DEF Service!Init, phaseBar, verdictBar, answerBar

\* A requester none of whose state changes is not seen to change.
LEMMA Unseen ==
    ASSUME NEW a \in Threads,
           pc'[a] = pc[a], cmd'[a] = cmd[a], result'[a] = result[a],
           hTask' = a <=> hTask = a, hTask = a => hStatus' = hStatus,
           cmd[a] # None => fwq'[cmd[a]] = fwq[cmd[a]]
                            /\ ccb'[cmd[a]].status = ccb[cmd[a]].status
    PROVE  View(a)' = View(a)
  <1>1. Replied(a)' <=> Replied(a)
    BY DEF Replied
  <1>2. Returning(a)' <=> Returning(a)
    BY DEF Returning
  <1>3. PhaseOf(a)' = PhaseOf(a) /\ AnswerOf(a)' = AnswerOf(a)
    BY <1>1, <1>2 DEF PhaseOf, AnswerOf
  <1>4. VerdictOf(a)' = VerdictOf(a)
    BY <1>1, <1>2 DEF VerdictOf, Replied
  <1> QED BY <1>3, <1>4 DEF View

\* Who was awakened, or whose second was over, had been replied to.
LEMMA AwakeReplied ==
    ASSUME IInv, NEW th \in Threads, pc[th] \in {"awakened", "timedout"}
    PROVE  Replied(th) /\ cmd[th] \in Ccbs
  <1>1. cmd[th] \in Ccbs
    BY DEF IInv, Holding
  <1>2. ~Pending(cmd[th])
    BY <1>1, NullAssumption DEF IInv, PendingOwned, Exclusive, Waiting
  <1>3. fwq[cmd[th]] = 0
    BY <1>1, <1>2, PostsAssumption DEF Pending, IInv, TypeOK
  <1> QED BY <1>1, <1>3, NullAssumption DEF Replied

LEMMA ThreadServes ==
    ASSUME IInv, PutKnows, NEW th \in Threads, Enter(th) \/ ThreadStep(th)
    PROVE  [Service!Next]_(Service!vars)
  <1> USE DEF poolVars, fwVars, handlerVars
  <1>t. TypeOK /\ Holding /\ HandlerLocals /\ Exclusive
    BY DEF IInv
  <1>n. None \notin Ccbs /\ None \notin Threads
    BY NullAssumption
  <1>1. CASE Enter(th)
    <2>1. \A a \in Threads : a # th => View(a)' = View(a)
      BY <1>1, <1>t, Unseen DEF Enter, TypeOK
    <2>2. PhaseOf(th) = "idle" /\ VerdictOf(th) = "none"
      BY <1>1, <1>t, <1>n DEF Enter, PhaseOf, VerdictOf, Replied, Returning, Waiting, HandlerLocals
    <2>3. PhaseOf(th)' = "busy" /\ VerdictOf(th)' = "none" /\ AnswerOf(th)' = "none"
      BY <1>1, <1>t, <1>n DEF Enter, PhaseOf, VerdictOf, AnswerOf, Replied, Returning, Waiting,
         HandlerLocals, TypeOK
    <2>4. Service!Ask(th)
      BY <2>1, <2>2, <2>3, OneMoves DEF Service!Ask
    <2> QED BY <2>4 DEF Service!Next
  <1>2. CASE Getccb(th) \/ BuildExec(th) \/ Post(th) \/ Sleep(th) \/ Deadline(th)
    <2>1. \A a \in Threads : a # th => View(a)' = View(a)
      BY <1>2, <1>t, Unseen
         DEF Getccb, BuildExec, Post, Sleep, Deadline, TypeOK, Holding, Exclusive
    <2>2. CASE Getccb(th) \/ BuildExec(th) \/ Post(th)
      <3>1. PhaseOf(th) = "busy" /\ VerdictOf(th) = "none" /\ AnswerOf(th) = "none"
        BY <2>2, <1>t, <1>n DEF Getccb, BuildExec, Post, PhaseOf, VerdictOf, AnswerOf,
              Replied, Returning, Waiting, HandlerLocals, TypeOK
      <3>2. PhaseOf(th)' = "busy" /\ VerdictOf(th)' = "none" /\ AnswerOf(th)' = "none"
        BY <2>2, <1>t, <1>n DEF Getccb, BuildExec, Post, PhaseOf, VerdictOf, AnswerOf,
              Replied, Returning, Waiting, HandlerLocals, TypeOK, Holding
      <3> QED BY <2>1, <3>1, <3>2, NobodyMoves DEF View
    <2>3. CASE Sleep(th) \/ Deadline(th)
      <3>1. Replied(th)' <=> Replied(th)
        BY <2>3, <1>t DEF Sleep, Deadline, Replied, Waiting, TypeOK
      <3>2. View(th)' = View(th)
        BY <2>3, <3>1, <1>t DEF Sleep, Deadline, View, PhaseOf, VerdictOf, AnswerOf, Returning,
           TypeOK
      <3> QED BY <2>1, <3>2, NobodyMoves
    <2> QED BY <1>2, <2>2, <2>3
  <1>3. CASE ExecReturn(th)
    <2>1. \A a \in Threads : a # th => View(a)' = View(a)
      BY <1>3, <1>t, Unseen DEF ExecReturn, TypeOK
    <2>2. Replied(th) /\ cmd[th] \in Ccbs
      BY <1>3, AwakeReplied DEF ExecReturn
    <2>3. pc'[th] = "put" /\ result'[th] = ccb[cmd[th]].status /\ result'[th] \in Status
          /\ hTask' = hTask /\ pc[th] # "idle" /\ pc[th] # "inflight"
      BY <1>3, <1>t, <2>2 DEF ExecReturn, TypeOK
    <2>4. View(th)' = View(th)
      BY <1>t, <1>n, <2>2, <2>3 DEF View, PhaseOf, VerdictOf, AnswerOf, Returning, Replied,
         HandlerLocals, Waiting
    <2> QED BY <2>1, <2>4, NobodyMoves
  <1>4. CASE Putccb(th)
    <2>1. \A a \in Threads : a # th => View(a)' = View(a)
      BY <1>4, <1>t, Unseen DEF Putccb, TypeOK, Holding, Exclusive
    <2>2. /\ pc[th] = "put" /\ pc'[th] = "idle" /\ cmd'[th] = None /\ hTask' = hTask /\ hTask # th
          /\ result' = result /\ result[th] \in {"ok", "error", "failed", "cached"}
      BY <1>4, <1>t, <1>n DEF Putccb, TypeOK, HandlerLocals, PutKnows, Status
    <2>3. PhaseOf(th)' = "idle" /\ VerdictOf(th)' = "none" /\ AnswerOf(th)' = result[th]
      BY <2>2 DEF PhaseOf, VerdictOf, AnswerOf, Replied, Returning, Waiting
    <2>4. CASE result[th] \in Status
      <3>1. PhaseOf(th) = "executed" /\ VerdictOf(th) = result[th]
        BY <2>2, <2>4 DEF PhaseOf, VerdictOf, Replied, Returning, Waiting
      <3>2. Service!Answer(th)
        BY <2>1, <2>3, <3>1, OneMoves DEF Service!Answer
      <3> QED BY <3>2 DEF Service!Next
    <2>5. CASE result[th] \in {"failed", "cached"}
      <3>1. PhaseOf(th) = "busy" /\ VerdictOf(th) = "none"
        BY <2>2, <2>5 DEF PhaseOf, VerdictOf, Replied, Returning, Waiting, Status
      <3>2. Service!Decline(th)
        BY <2>1, <2>3, <2>5, <3>1, OneMoves DEF Service!Decline
      <3> QED BY <3>2 DEF Service!Next
    <2> QED BY <2>2, <2>4, <2>5 DEF Status
  <1> QED BY <1>1, <1>2, <1>3, <1>4 DEF ThreadStep

LEMMA TaskServes ==
    ASSUME IInv, NEW t \in Tasks, TaskStep(t)
    PROVE  UNCHANGED Service!vars
  <1> USE DEF poolVars, fwVars, handlerVars
  <1>t. TypeOK /\ Holding /\ HandlerLocals /\ Exclusive /\ t \in Threads
    BY DEF IInv, Threads
  <1>n. None \notin Ccbs /\ None \notin Threads
    BY NullAssumption
  <1>1. \A a \in Threads : a # t => View(a)' = View(a)
    BY <1>t, Unseen DEF TaskStep, BuildTask, AnswerAtOnce, TypeOK, Holding, Exclusive
  <1>2. pc[t] = "fill" /\ pc'[t] \in {"post", "put"} /\ hTask' = hTask /\ hTask # t
        /\ (pc'[t] = "put" => result'[t] \in {"failed", "cached"})
    BY <1>t, <1>n DEF TaskStep, BuildTask, AnswerAtOnce, TypeOK, HandlerLocals
  <1>3. PhaseOf(t) = "busy" /\ VerdictOf(t) = "none" /\ AnswerOf(t) = "none"
    BY <1>2 DEF PhaseOf, VerdictOf, AnswerOf, Replied, Returning, Waiting
  <1>4. PhaseOf(t)' = "busy" /\ VerdictOf(t)' = "none" /\ AnswerOf(t)' = "none"
    BY <1>2 DEF PhaseOf, VerdictOf, AnswerOf, Replied, Returning, Waiting, Status
  <1> QED BY <1>1, <1>3, <1>4, NobodyMoves DEF View

LEMMA FirmwareServes ==
    ASSUME IInv, NEW c \in Ccbs, FwExecute(c)
    PROVE  Service!Next
  <1> USE DEF poolVars, fwVars, handlerVars, threadVars
  <1>n. None \notin Ccbs /\ None \notin Threads
    BY NullAssumption
  <1>t. TypeOK /\ HandlerLocals /\ Exclusive
    BY DEF IInv
  <1>1. PICK th \in Threads : cmd[th] = c /\ pc[th] \in Waiting /\ fwq[c] = 1
    BY <1>t, PostsAssumption DEF IInv, PendingOwned, Pending, PendingOnce, FwExecute, TypeOK
  <1>2. PICK st \in FwStatus : ccb' = [ccb EXCEPT ![c].status = st]
    BY DEF FwExecute
  <1>3. fwq'[c] = 0 /\ ccb'[c].status = st /\ UNCHANGED <<pc, cmd, result, hTask, hStatus>>
    BY <1>1, <1>2, <1>t DEF FwExecute, TypeOK
  <1>4. \A a \in Threads : a # th => View(a)' = View(a)
    <2> SUFFICES ASSUME NEW a \in Threads, a # th PROVE View(a)' = View(a)
      OBVIOUS
    <2>1. cmd[a] # None => cmd[a] \in Ccbs /\ cmd[a] # c
      BY <1>1, <1>t, <1>n DEF Exclusive, TypeOK
    <2>2. cmd[a] # None => fwq'[cmd[a]] = fwq[cmd[a]] /\ ccb'[cmd[a]].status = ccb[cmd[a]].status
      BY <2>1, <1>2, <1>t DEF FwExecute, TypeOK
    <2> QED BY <1>3, <2>2, Unseen
  <1>5. PhaseOf(th) = "busy" /\ VerdictOf(th) = "none" /\ AnswerOf(th) = "none"
    BY <1>1, <1>t, <1>n DEF PhaseOf, VerdictOf, AnswerOf, Replied, Returning, Waiting, HandlerLocals
  <1>6. PhaseOf(th)' = "executed" /\ VerdictOf(th)' = st /\ AnswerOf(th)' = "none"
    BY <1>1, <1>3, <1>n DEF PhaseOf, VerdictOf, AnswerOf, Replied, Waiting
  <1>7. Service!Execute(th)
    <2>1. \E v \in FwStatus : verdictBar' = [verdictBar EXCEPT ![th] = v]
      BY <1>1, <1>4, <1>6, OneMoves
    <2> QED BY <1>1, <1>4, <1>5, <1>6, <2>1, OneMoves DEF Service!Execute
  <1> QED BY <1>1, <1>7 DEF Service!Next

LEMMA HandlerServes ==
    ASSUME IInv, CmdDone \/ CompleteTask \/ ExecDone
    PROVE  [Service!Next]_(Service!vars)
  <1> USE DEF poolVars, fwVars, handlerVars
  <1>n. None \notin Ccbs /\ None \notin Threads
    BY NullAssumption
  <1>t. TypeOK /\ HandlerLocals /\ Exclusive /\ PendingOwned /\ PendingOnce
    BY DEF IInv
  <1>1. CASE CmdDone \/ ExecDone
    <2>0. hCcb \in Ccbs /\ fwq[hCcb] = 0 /\ hTask = None
      BY <1>1, <1>t DEF CmdDone, ExecDone, TypeOK, HandlerLocals, PendingOnce
    <2>1. PICK th \in Threads :
          /\ th = ccb[hCcb].ctx /\ cmd[th] = hCcb /\ pc[th] \in Waiting
          /\ ccb[hCcb].done = IF pc[th] = "inflight" THEN "cmd" ELSE "exec"
      BY <2>0, <1>1, <1>t DEF CmdDone, ExecDone, HandlerLocals, PendingOwned, Pending
    <2>2. PhaseOf(th) = "executed" /\ VerdictOf(th) = ccb[hCcb].status /\ AnswerOf(th) = "none"
      BY <2>0, <2>1, <1>n DEF PhaseOf, VerdictOf, AnswerOf, Replied, Waiting
    <2>3. \A a \in Threads : a # th => View(a)' = View(a)
      <3> SUFFICES ASSUME NEW a \in Threads, a # th PROVE View(a)' = View(a)
        OBVIOUS
      <3>1. cmd[a] # None => cmd[a] \in Ccbs /\ cmd[a] # hCcb
        BY <2>0, <2>1, <1>t, <1>n DEF Exclusive, TypeOK
      <3>2. cmd[a] # None => fwq'[cmd[a]] = fwq[cmd[a]] /\ ccb'[cmd[a]].status = ccb[cmd[a]].status
        BY <1>1, <3>1, <1>t DEF CmdDone, ExecDone, TypeOK
      <3>3. pc'[a] = pc[a] /\ cmd'[a] = cmd[a] /\ result'[a] = result[a] /\ hTask' # a /\ hTask # a
        BY <1>1, <2>0, <2>1, <1>t, <1>n DEF CmdDone, ExecDone, TypeOK
      <3> QED BY <3>2, <3>3, Unseen
    <2>4. CASE CmdDone
      <3>1. hTask' = th /\ hStatus' = ccb[hCcb].status /\ cmd'[th] = None /\ pc'[th] = "inflight"
        BY <2>0, <2>1, <2>4, <1>t DEF CmdDone, TypeOK
      <3>2. PhaseOf(th)' = "executed" /\ VerdictOf(th)' = ccb[hCcb].status /\ AnswerOf(th)' = "none"
        BY <3>1 DEF PhaseOf, VerdictOf, AnswerOf, Replied
      <3> QED BY <2>2, <2>3, <3>2, NobodyMoves DEF View
    <2>5. CASE ExecDone
      <3>1. /\ pc'[th] \in Waiting \cup {"awakened"} /\ cmd'[th] = hCcb /\ fwq'[hCcb] = 0
            /\ ccb'[hCcb].status = ccb[hCcb].status
        BY <2>0, <2>1, <2>5, <1>t DEF ExecDone, TypeOK, Waiting
      <3>2. PhaseOf(th)' = "executed" /\ VerdictOf(th)' = ccb[hCcb].status /\ AnswerOf(th)' = "none"
        BY <2>0, <2>1, <3>1, <1>n DEF PhaseOf, VerdictOf, AnswerOf, Replied, Waiting
      <3> QED BY <2>2, <2>3, <3>2, NobodyMoves DEF View
    <2> QED BY <1>1, <2>4, <2>5
  <1>2. CASE CompleteTask
    <2>1. hTask \in Threads /\ pc[hTask] = "inflight" /\ cmd[hTask] = None
      BY <1>2, <1>t DEF CompleteTask, TypeOK, HandlerLocals
    <2>2. \A a \in Threads : a # hTask => View(a)' = View(a)
      BY <1>2, <2>1, <1>t, <1>n, Unseen DEF CompleteTask, TypeOK
    <2>3. PhaseOf(hTask) = "executed" /\ VerdictOf(hTask) = hStatus
      BY <2>1 DEF PhaseOf, VerdictOf, Replied
    <2>4. PICK th \in Threads : th = hTask
      BY <2>1
    <2>5. pc'[th] = "idle" /\ hTask' = None /\ result'[th] = hStatus
      BY <1>2, <2>4, <1>t DEF CompleteTask, TypeOK
    <2>6. PhaseOf(th)' = "idle" /\ VerdictOf(th)' = "none" /\ AnswerOf(th)' = hStatus
      BY <2>5, <1>n DEF PhaseOf, VerdictOf, AnswerOf, Replied, Returning, Waiting
    <2>7. Service!Answer(th)
      BY <2>2, <2>3, <2>4, <2>6, OneMoves DEF Service!Answer
    <2> QED BY <2>7 DEF Service!Next
  <1> QED BY <1>1, <1>2

(***************************************************************************)
(* MRAID_Exec, ProcessParallelTask and mraid_cmd_done: for any number of   *)
(* ccbs and requesters, every requester is answered with the firmware's    *)
(* status of its own request, and once.  The safety part of the            *)
(* refinement, which is all of TaskService.                                *)
(***************************************************************************)
THEOREM ServiceImplemented == Prompt => (Spec => ImplementsService)
  <1> SUFFICES ASSUME Prompt PROVE Spec => ImplementsService
    OBVIOUS
  <1>1. Init => PutKnows
    BY DEF Init, PutKnows
  <1>2. IInv /\ PutKnows /\ [Next]_vars => PutKnows'
    BY PutKnowsStep DEF IInv
  <1>3. IInv /\ PutKnows /\ [Next]_vars => [Service!Next]_(Service!vars)
    <2> SUFFICES ASSUME IInv, PutKnows, [Next]_vars PROVE [Service!Next]_(Service!vars)
      OBVIOUS
    <2>1. CASE UNCHANGED <<ccb, fwq, pc, cmd, result, hTask, hStatus>>
      BY <2>1, Unseen, NobodyMoves
    <2>2. FwRaise \/ Filter \/ HandlerStart \/ HandlerAck \/ HandlerSnap \/ HandlerTake
          \/ HandlerEnd \/ UNCHANGED vars
          => UNCHANGED <<ccb, fwq, pc, cmd, result, hTask, hStatus>>
      BY DEF FwRaise, Filter, HandlerStart, HandlerAck, HandlerSnap, HandlerTake, HandlerEnd,
             vars, poolVars, fwVars, handlerVars, threadVars
    <2>3. \A th \in Threads : Enter(th) \/ ThreadStep(th) => [Service!Next]_(Service!vars)
      BY ThreadServes
    <2>4. \A t \in Tasks : TaskStep(t) => UNCHANGED Service!vars
      BY TaskServes
    <2>5. \A c \in Ccbs : FwExecute(c) => Service!Next
      BY FirmwareServes
    <2>6. CmdDone \/ CompleteTask \/ ExecDone => [Service!Next]_(Service!vars)
      BY HandlerServes
    <2> QED BY ONLY <2>1, <2>2, <2>3, <2>4, <2>5, <2>6, [Next]_vars DEF Next, Handler
  <1> QED BY <1>1, <1>2, <1>3, ServiceInit, Inductive, PTL DEF Spec, ImplementsService, Service!Spec

-----------------------------------------------------------------------------
(* Every request returns.  First, where a ccb that is owed a reply can be  *)
(* from one step to the next, and what its thread does meanwhile.          *)

InFirmware(c) == fwq[c] > 0
InSlot(c, s)  == reply_q[s] = c
InQueue(c)    == \E s \in Slots : InSlot(c, s)
InHand(c)     == hCcb = c
CallBack(c)   == hCcb = c /\ (CmdDone \/ ExecDone)

\* A ccb goes from the firmware into a slot, from there into the handler's
\* hand, and leaves it by being called back.
LEMMA CcbTravels ==
    ASSUME IInv, WindowInv, [Next]_vars, NEW c \in Ccbs, ~CallBack(c)
    PROVE  /\ InFirmware(c) => InFirmware(c)' \/ InQueue(c)'
           /\ \A s \in Slots : InSlot(c, s) => InSlot(c, s)' \/ InHand(c)'
           /\ InHand(c) => InHand(c)'
  <1> USE DEF InFirmware, InSlot, InQueue, InHand, CallBack
  <1>0. TypeOK /\ (hCcb # None => hpc = "call") /\ MaxCmds \in Nat
    BY MaxCmdsNat DEF IInv, HandlerLocals
  <1>1. ASSUME NEW th \in Threads, Post(th)
        PROVE  (fwq[c] > 0 => fwq'[c] > 0) /\ UNCHANGED <<reply_q, hCcb>>
    BY <1>0, <1>1 DEF Post, TypeOK, queueVars, handlerVars
  <1>2. ASSUME NEW d \in Ccbs, FwExecute(d)
        PROVE  /\ fwq[c] > 0 => fwq'[c] > 0 \/ \E s \in Slots : reply_q'[s] = c
               /\ \A s \in Slots : reply_q[s] = c => reply_q'[s] = c
               /\ UNCHANGED hCcb
    <2>1. /\ producer \in Slots /\ reply_q' = [reply_q EXCEPT ![producer] = d]
          /\ hCcb' = hCcb /\ fwq' = [fwq EXCEPT ![d] = @ - 1]
      BY <1>0, <1>2 DEF FwExecute, TypeOK, handlerVars
    <2>2. reply_q[producer] = Invalid
      BY <1>0, <2>1 DEF WindowInv, QueueWindow, Between, TypeOK, ReadPosition, Slots
    <2>3. reply_q'[producer] = d /\ \A s \in Slots \ {producer} : reply_q'[s] = reply_q[s]
      BY <1>0, <2>1 DEF TypeOK
    <2>4. c # d => fwq'[c] = fwq[c]
      BY <1>0, <2>1 DEF TypeOK
    <2> QED BY <2>1, <2>2, <2>3, <2>4, NullAssumption
  <1>3. ASSUME HandlerTake
        PROVE  /\ UNCHANGED fwq
               /\ \A s \in Slots : reply_q[s] = c => reply_q'[s] = c \/ hCcb' = c
               /\ hCcb # c
    <2>1. /\ hpc = "loop" /\ hConsumer \in Slots
          /\ reply_q' = [reply_q EXCEPT ![hConsumer] = Invalid]
          /\ reply_q[hConsumer] # Invalid => hCcb' = reply_q[hConsumer]
      BY <1>0, <1>3 DEF HandlerTake, TypeOK
    <2>2. \A s \in Slots \ {hConsumer} : reply_q'[s] = reply_q[s]
      BY <1>0, <2>1 DEF TypeOK
    <2> QED BY <1>0, <1>3, <2>1, <2>2, NullAssumption DEF HandlerTake, fwVars
  <1>4. CASE UNCHANGED <<fwq, reply_q, hCcb>>
    BY <1>4
  <1>5. ASSUME NEW th \in Threads, (Enter(th) \/ ThreadStep(th)) /\ ~Post(th)
        PROVE  UNCHANGED <<fwq, reply_q, hCcb>>
    BY <1>5 DEF Enter, ThreadStep, Getccb, BuildExec, Sleep, Deadline, ExecReturn, Putccb,
       fwVars, queueVars, handlerVars
  <1>6. ASSUME NEW t \in Tasks, TaskStep(t) PROVE UNCHANGED <<fwq, reply_q, hCcb>>
    BY <1>6 DEF TaskStep, BuildTask, AnswerAtOnce, fwVars, queueVars, handlerVars
  <1>7. CASE FwRaise \/ Filter \/ HandlerStart \/ HandlerAck \/ HandlerSnap \/ CompleteTask
             \/ HandlerEnd \/ UNCHANGED vars
    BY <1>7, <1>4 DEF FwRaise, Filter, HandlerStart, HandlerAck, HandlerSnap, CompleteTask,
       HandlerEnd, vars, fwVars, queueVars, handlerVars
  <1>8. CASE CmdDone \/ ExecDone
    <2>1. hCcb # c /\ UNCHANGED <<fwq, reply_q>>
      BY <1>8 DEF CmdDone, ExecDone, fwVars, queueVars
    <2> QED BY <2>1
  <1>9. ASSUME NEW th \in Threads, Post(th)
        PROVE  /\ InFirmware(c) => InFirmware(c)' \/ InQueue(c)'
               /\ \A s \in Slots : InSlot(c, s) => InSlot(c, s)' \/ InHand(c)'
               /\ InHand(c) => InHand(c)'
    BY <1>1, <1>9
  <1> QED BY ONLY <1>2, <1>3, <1>4, <1>5, <1>6, <1>7, <1>8, <1>9, [Next]_vars
          DEF Next, Handler, InFirmware, InSlot, InQueue, InHand

\* Whoever handed over a task or a management command and is owed a reply.
Waiter(th) == pc[th] \in Waiting /\ cmd[th] \in Ccbs /\ Pending(cmd[th])

LEMMA WaiterIsOwner ==
    ASSUME IInv, NEW th \in Threads, cmd[th] \in Ccbs, Pending(cmd[th])
    PROVE  ccb[cmd[th]].ctx = th /\ (pc[th] \in {"posted", "asleep"} => ~event[th])
  <1>1. ccb[cmd[th]].ctx \in Threads /\ cmd[ccb[cmd[th]].ctx] = cmd[th]
    BY DEF IInv, PendingOwned
  <1>2. ccb[cmd[th]].ctx = th
    BY <1>1, NullAssumption DEF IInv, Exclusive
  <1> QED BY <1>1, <1>2, NullAssumption DEF IInv, Filled

\* A task waits until it is called back, a caller goes to sleep and waits.
LEMMA WaiterWaits ==
    ASSUME Prompt, IInv, [Next]_vars, NEW th \in Threads, Waiter(th), ~CallBack(cmd[th])
    PROVE  /\ cmd'[th] = cmd[th]
           /\ pc'[th] = pc[th] \/ (pc[th] = "posted" /\ pc'[th] = "asleep")
  <1> DEFINE Stays == /\ cmd'[th] = cmd[th]
                      /\ pc'[th] = pc[th] \/ (pc[th] = "posted" /\ pc'[th] = "asleep")
  <1> USE DEF Waiter, Waiting
  <1>0. TypeOK /\ ccb[cmd[th]].ctx = th /\ (pc[th] = "asleep" => ~event[th])
    BY WaiterIsOwner DEF IInv
  <1>1. ASSUME NEW a \in Threads, Enter(a) \/ ThreadStep(a) PROVE Stays
    BY <1>0, <1>1 DEF Enter, ThreadStep, Getccb, BuildExec, Post, Sleep, Deadline, ExecReturn,
       Putccb, TypeOK
  <1>2. ASSUME NEW t \in Tasks, TaskStep(t) PROVE Stays
    BY <1>0, <1>2 DEF TaskStep, BuildTask, AnswerAtOnce, TypeOK
  <1>3. CASE CmdDone \/ ExecDone
    <2>1. hpc = "call" /\ hCcb \in Ccbs /\ hCcb # cmd[th]
      BY <1>0, <1>3 DEF CallBack, CmdDone, ExecDone, IInv, TypeOK, HandlerLocals
    <2>2. ccb[hCcb].ctx \in Threads /\ cmd[ccb[hCcb].ctx] = hCcb
      BY <2>1 DEF IInv, PendingOwned, Pending
    <2>3. ccb[hCcb].ctx # th
      BY <2>1, <2>2
    <2>4. CASE CmdDone
      BY <1>0, <2>2, <2>3, <2>4 DEF CmdDone, TypeOK
    <2>5. CASE ExecDone
      BY <1>0, <2>2, <2>3, <2>5 DEF ExecDone, TypeOK
    <2> QED BY <1>3, <2>4, <2>5
  <1>4. CASE CompleteTask
    <2>1. hTask # th
      BY <1>4, NullAssumption DEF CompleteTask, IInv, HandlerLocals
    <2> QED BY <1>0, <1>4, <2>1 DEF CompleteTask, TypeOK
  <1>5. CASE UNCHANGED <<pc, cmd>>
    BY <1>5
  <1> QED BY ONLY <1>1, <1>2, <1>3, <1>4, <1>5, [Next]_vars
          DEF Next, Handler, vars, threadVars, FwExecute, FwRaise, Filter, HandlerStart,
              HandlerAck, HandlerSnap, HandlerTake, HandlerEnd

\* Then the task is being completed, or the event the caller sleeps for set.
LEMMA WaiterTold ==
    ASSUME IInv, NEW th \in Threads, Waiter(th), CallBack(cmd[th])
    PROVE  IF pc[th] = "inflight" THEN hTask' = th
           ELSE event'[th] /\ (pc[th] = "asleep" => pc'[th] = "awakened")
  <1>0. TypeOK /\ ccb[cmd[th]].ctx = th /\ hCcb = cmd[th]
        /\ ccb[cmd[th]].done = IF pc[th] = "inflight" THEN "cmd" ELSE "exec"
    BY WaiterIsOwner DEF IInv, Waiter, CallBack, PendingOwned
  <1>1. CASE CmdDone
    BY <1>0, <1>1 DEF CmdDone
  <1>2. CASE ExecDone
    BY <1>0, <1>2 DEF ExecDone, Waiter, TypeOK
  <1> QED BY <1>1, <1>2 DEF CallBack

\* Nobody waits for a reply that will not come: who is not called back yet is
\* owed a reply, or is being told of it.
OwedTo(th) ==
    /\ pc[th] = "inflight" => hTask = th \/ Waiter(th)
    /\ pc[th] \in {"posted", "asleep"} => event[th] \/ Waiter(th)
Owed == \A th \in Threads : OwedTo(th)

LEMMA OwedStep ==
    ASSUME Prompt, IInv, IInv', WindowInv, Owed, [Next]_vars PROVE Owed'
  <1> SUFFICES ASSUME NEW th \in Threads PROVE OwedTo(th)'
    BY DEF Owed
  <1>0. TypeOK /\ OwedTo(th) /\ pc'[th] \in PCs
    BY DEF IInv, Owed, TypeOK
  <1>1. CASE Waiter(th) /\ CallBack(cmd[th])
    <2>1. pc'[th] = pc[th] \/ (pc[th] = "asleep" /\ pc'[th] = "awakened")
      BY <1>0, <1>1 DEF CallBack, CmdDone, ExecDone, threadVars, TypeOK
    <2> QED BY <1>1, <2>1, WaiterTold DEF OwedTo, Waiter, Waiting
  <1>2. CASE Waiter(th) /\ ~CallBack(cmd[th])
    <2>1. cmd'[th] = cmd[th] /\ pc'[th] \in Waiting
      BY <1>2, WaiterWaits DEF Waiter, Waiting
    <2>2. PICK c \in Ccbs : c = cmd[th]
      BY <1>2 DEF Waiter
    <2>3. Pending(c)'
      BY <1>2, <2>2, CcbTravels DEF Waiter, Pending, InFirmware, InSlot, InQueue, InHand
    <2>4. Waiter(th)'
      BY <2>1, <2>2, <2>3 DEF Waiter, Pending
    <2> QED BY <2>4 DEF OwedTo
  <1>3. CASE Post(th)
    <2>1. /\ cmd'[th] = cmd[th] /\ cmd[th] \in Ccbs /\ pc'[th] \in Waiting
          /\ fwq'[cmd[th]] > 0
      BY <1>0, <1>3 DEF Post, TypeOK, IInv, Holding, Waiting
    <2> QED BY <2>1 DEF OwedTo, Waiter, Pending
  <1>4. CASE ~Waiter(th) /\ ~Post(th)
    <2> DEFINE Kept ==
          /\ pc'[th] = "inflight" => pc[th] = "inflight"
          /\ pc'[th] \in {"posted", "asleep"} =>
                /\ pc[th] \in {"posted", "asleep"}
                /\ event'[th] = event[th] \/ event'[th] = TRUE
          /\ hTask = th => hTask' = th \/ pc'[th] = "idle"
    <2> SUFFICES Kept
      BY <1>0, <1>4 DEF OwedTo
    <2> USE <1>0, <1>4 DEF TypeOK, Waiting
    <2>1. ASSUME NEW a \in Threads, Enter(a) \/ ThreadStep(a) PROVE Kept
      <3>1. CASE BuildExec(a) \/ ExecReturn(a)
        BY <3>1 DEF BuildExec, ExecReturn, handlerVars
      <3>2. CASE ~(BuildExec(a) \/ ExecReturn(a))
        BY <2>1, <3>2 DEF Enter, ThreadStep, Getccb, Post, Sleep, Deadline, Putccb, handlerVars
      <3> QED BY <3>1, <3>2
    <2>2. ASSUME NEW t \in Tasks, TaskStep(t) PROVE Kept
      BY <2>2 DEF TaskStep, BuildTask, AnswerAtOnce, handlerVars
    <2>3. CASE CompleteTask
      BY <2>3 DEF CompleteTask
    <2>4. CASE CmdDone
      <3>1. hTask # th
        BY <2>4, NullAssumption DEF CmdDone, IInv, HandlerLocals
      <3> QED BY <2>4, <3>1 DEF CmdDone
    <2>5. CASE ExecDone
      BY <2>5 DEF ExecDone
    <2>6. CASE UNCHANGED <<pc, event, hTask>>
      BY <2>6
    <2> QED BY ONLY <2>1, <2>2, <2>3, <2>4, <2>5, <2>6, [Next]_vars
               DEF Next, Handler, vars, handlerVars, threadVars, FwExecute, FwRaise, Filter,
                   HandlerStart, HandlerAck, HandlerSnap, HandlerTake, HandlerEnd
  <1> QED BY <1>1, <1>2, <1>3, <1>4

-----------------------------------------------------------------------------
(* The handler comes to an end.                                            *)

\* Slots it has still to take, and steps it has still to make.
SlotsLeft == IF hConsumer <= hProducer THEN hProducer - hConsumer
             ELSE hProducer + RqEntries - hConsumer

TurnsLeft ==
    IF hpc = "idle" THEN 0
    ELSE IF hpc = "loop" THEN 3 * SlotsLeft + 1
    ELSE IF hpc = "complete" THEN 3 * SlotsLeft + 2
    ELSE IF hpc = "call" THEN 3 * SlotsLeft + 3
    ELSE IF hpc = "snap" THEN 3 * RqEntries + 1
    ELSE 3 * RqEntries + 2

LEMMA TurnsCounted ==
    TypeOK => /\ TurnsLeft \in Nat /\ TurnsLeft <= 3 * MaxCmds + 5
              /\ TurnsLeft = 0 <=> hpc = "idle"
  <1> SUFFICES ASSUME TypeOK PROVE /\ TurnsLeft \in Nat /\ TurnsLeft <= 3 * MaxCmds + 5
                                   /\ TurnsLeft = 0 <=> hpc = "idle"
    OBVIOUS
  <1>1. hConsumer \in 0 .. MaxCmds /\ hProducer \in 0 .. MaxCmds /\ MaxCmds \in Nat
    BY MaxCmdsNat DEF TypeOK, Slots
  <1>2. SlotsLeft \in 0 .. MaxCmds /\ RqEntries = MaxCmds + 1
    BY <1>1 DEF SlotsLeft, RqEntries
  <1> QED BY <1>1, <1>2 DEF TypeOK, TurnsLeft

LEMMA TurnTaken == ASSUME TypeOK, Handler, hpc # "idle" PROVE TurnsLeft' < TurnsLeft
  <1>0. /\ hConsumer \in 0 .. MaxCmds /\ hProducer \in 0 .. MaxCmds /\ MaxCmds \in Nat
        /\ RqEntries = MaxCmds + 1 /\ producer \in 0 .. MaxCmds /\ consumer \in 0 .. MaxCmds
    BY MaxCmdsNat DEF TypeOK, Slots, RqEntries
  <1>1. CASE HandlerAck
    BY <1>0, <1>1 DEF HandlerAck, TurnsLeft
  <1>2. CASE HandlerSnap
    <2>1. hpc = "snap" /\ hpc' = "loop" /\ hProducer' = producer /\ hConsumer' = consumer
      BY <1>2 DEF HandlerSnap
    <2>2. SlotsLeft' \in Nat /\ SlotsLeft' < RqEntries /\ RqEntries \in Nat
      BY <1>0, <2>1 DEF SlotsLeft
    <2>3. TurnsLeft' = 3 * SlotsLeft' + 1 /\ TurnsLeft = 3 * RqEntries + 1
      BY <2>1 DEF TurnsLeft
    <2>4. \A m, n \in Nat : m < n => 3 * m + 1 < 3 * n + 1
      OBVIOUS
    <2>5. 3 * SlotsLeft' + 1 < 3 * RqEntries + 1
      BY <2>2, <2>4
    <2> QED BY <2>3, <2>5
  <1>3. CASE HandlerTake
    <2>1. /\ hpc = "loop" /\ hpc' \in {"loop", "call"} /\ hConsumer # hProducer
          /\ hProducer' = hProducer
          /\ hConsumer' = IF hConsumer + 1 = MaxCmds + 1 THEN 0 ELSE hConsumer + 1
      BY <1>3 DEF HandlerTake, HandlerAdvance
    <2>2. SlotsLeft' = SlotsLeft - 1 /\ SlotsLeft \in Nat
      BY <1>0, <2>1 DEF SlotsLeft
    <2> QED BY <2>1, <2>2 DEF TurnsLeft
  <1>4. CASE CmdDone
    BY <1>0, <1>4 DEF CmdDone, TurnsLeft, SlotsLeft
  <1>5. CASE CompleteTask
    BY <1>0, <1>5 DEF CompleteTask, TurnsLeft, SlotsLeft
  <1>6. CASE ExecDone
    BY <1>0, <1>6 DEF ExecDone, TurnsLeft, SlotsLeft
  <1>7. CASE HandlerEnd
    BY <1>0, <1>7 DEF HandlerEnd, TurnsLeft, SlotsLeft
  <1> QED BY <1>1, <1>2, <1>3, <1>4, <1>5, <1>6, <1>7 DEF Handler, HandlerStart

\* Nobody else touches what the handler keeps, or takes back its signal.
LEMMA HandlerAlone ==
    ASSUME TypeOK, [Next]_vars, ~Handler PROVE UNCHANGED handlerVars /\ (due => due')
  <1>1. CASE FwRaise \/ Filter
    BY <1>1 DEF FwRaise, Filter, handlerVars, TypeOK
  <1>2. CASE ~(FwRaise \/ Filter)
    <2>1. UNCHANGED handlerVars /\ UNCHANGED due
      BY <1>2 DEF Next, Enter, ThreadStep, TaskStep, Getccb, BuildExec, Post, Sleep, Deadline,
         ExecReturn, Putccb, BuildTask, AnswerAtOnce, FwExecute, vars, handlerVars, intrVars
    <2> QED BY <2>1
  <1> QED BY <1>1, <1>2

PathInv == IInv /\ WindowInv /\ Notified /\ Owed

LEMMA PathInductive == ASSUME Prompt PROVE Spec => []PathInv
  <1>1. Init => WindowInv /\ Notified /\ Owed
    BY InitWindow DEF Init, Notified, NoStrandedReply, Owed, OwedTo
  <1>2. IInv /\ IInv' /\ WindowInv /\ Notified /\ Owed /\ [Next]_vars
        => WindowInv' /\ Notified' /\ Owed'
    BY WindowStep, NotifiedStep, OwedStep
  <1> QED BY <1>1, <1>2, Inductive, PTL DEF Spec, PathInv

\* What is assumed of the threads, the handler and the firmware.
Going == FairSpec /\ []OnlyGateBlocks

Counted    == TurnsLeft \in Nat
Near(n)    == TurnsLeft <= n
Idle       == hpc = "idle"
Runs(n, m) == Near(n) ~> Near(m)

LEMMA HandlerRuns == ASSUME Prompt, NEW n \in Nat PROVE Going => Runs(n + 1, n)
  <1>0. PathInv' => Counted'
    <2>1. PathInv => Counted
      BY TurnsCounted DEF PathInv, IInv, Counted
    <2> QED BY <2>1, PTL
  <1>1. ASSUME PathInv, PathInv', Near(n + 1), Handler, ~Near(n) PROVE Near(n)'
    <2>1. hpc # "idle" /\ TurnsLeft \in Nat /\ TurnsLeft' \in Nat
      BY <1>0, <1>1, TurnsCounted DEF PathInv, IInv, Near, Counted
    <2> QED BY <1>1, <2>1, TurnTaken DEF PathInv, IInv, Near
  <1>2. ASSUME PathInv, Near(n + 1), [Next]_vars, ~Handler PROVE Near(n + 1)'
    BY <1>2, HandlerAlone DEF Near, TurnsLeft, SlotsLeft, handlerVars, PathInv, IInv
  <1>3. PathInv /\ PathInv' /\ Near(n + 1) /\ ~Near(n) /\ [Next]_vars => Near(n + 1)' \/ Near(n)'
    BY <1>1, <1>2
  <1>4. PathInv /\ PathInv' /\ Near(n + 1) /\ ~Near(n) /\ <<Handler>>_vars => Near(n)'
    BY <1>1
  <1>5. PathInv /\ OnlyGateBlocks /\ Near(n + 1) /\ ~Near(n) => ENABLED <<Handler>>_vars
    <2>1. ASSUME PathInv, Near(n + 1), ~Near(n) PROVE hpc # "idle"
      BY <2>1, TurnsCounted DEF PathInv, IInv, Near
    <2> QED BY <2>1 DEF OnlyGateBlocks
  <1> QED BY <1>3, <1>4, <1>5, PathInductive, PTL
          DEF Going, Runs, FairSpec, Fairness, Serviced, Spec

Shortens(d) == \A n \in Nat : Going => Runs(n + d, n)

LEMMA ShortensTwice == ASSUME NEW d \in Nat, Shortens(d) PROVE Shortens(d + d)
  <1> SUFFICES ASSUME NEW n \in Nat PROVE Going => Runs(n + (d + d), n)
    BY DEF Shortens
  <1>1. Going => Runs(n + d, n)
    BY DEF Shortens
  <1>2. Going => Runs((n + d) + d, n + d)
    BY DEF Shortens
  <1>3. (n + d) + d = n + (d + d)
    OBVIOUS
  <1>4. Going => Runs(n + (d + d), n + d)
    BY <1>2, <1>3
  <1> QED BY <1>1, <1>4, PTL DEF Runs

\* However many replies it finds, the handler comes back to rest.  The commands
\* of a controller are counted in the low 16 bits of its status register.
LEMMA HandlerRests == ASSUME Prompt, MaxCmds <= 65535 PROVE Going => []<>Idle
  <1>0. Shortens(1)
    BY HandlerRuns DEF Shortens
  <1>1. Shortens(2)
    BY <1>0, ShortensTwice, 1 + 1 = 2
  <1>2. Shortens(4)
    BY <1>1, ShortensTwice, 2 + 2 = 4
  <1>3. Shortens(8)
    BY <1>2, ShortensTwice, 4 + 4 = 8
  <1>4. Shortens(16)
    BY <1>3, ShortensTwice, 8 + 8 = 16
  <1>5. Shortens(32)
    BY <1>4, ShortensTwice, 16 + 16 = 32
  <1>6. Shortens(64)
    BY <1>5, ShortensTwice, 32 + 32 = 64
  <1>7. Shortens(128)
    BY <1>6, ShortensTwice, 64 + 64 = 128
  <1>8. Shortens(256)
    BY <1>7, ShortensTwice, 128 + 128 = 256
  <1>9. Shortens(512)
    BY <1>8, ShortensTwice, 256 + 256 = 512
  <1>10. Shortens(1024)
    BY <1>9, ShortensTwice, 512 + 512 = 1024
  <1>11. Shortens(2048)
    BY <1>10, ShortensTwice, 1024 + 1024 = 2048
  <1>12. Shortens(4096)
    BY <1>11, ShortensTwice, 2048 + 2048 = 4096
  <1>13. Shortens(8192)
    BY <1>12, ShortensTwice, 4096 + 4096 = 8192
  <1>14. Shortens(16384)
    BY <1>13, ShortensTwice, 8192 + 8192 = 16384
  <1>15. Shortens(32768)
    BY <1>14, ShortensTwice, 16384 + 16384 = 32768
  <1>16. Shortens(65536)
    BY <1>15, ShortensTwice, 32768 + 32768 = 65536
  <1>17. Shortens(131072)
    BY <1>16, ShortensTwice, 65536 + 65536 = 131072
  <1>18. Shortens(262144)
    BY <1>17, ShortensTwice, 131072 + 131072 = 262144
  <1>20. Going => Runs(262144, 0)
    <2>1. Going => Runs(0 + 262144, 0)
      BY <1>18 DEF Shortens
    <2> QED BY <2>1, 0 + 262144 = 262144
  <1>21. PathInv => Near(262144)
    BY TurnsCounted, MaxCmdsNat DEF PathInv, IInv, Near
  <1>22. PathInv /\ Near(0) => Idle
    BY TurnsCounted DEF PathInv, IInv, Near, Idle
  <1> QED BY <1>20, <1>21, <1>22, PathInductive, PTL DEF Going, Runs, FairSpec

-----------------------------------------------------------------------------
(* A reply reaches the one who waits for it.                               *)

\* Where the ccb of someone who only waits is; he is told when it leaves the
\* handler's hand.
Resting(th) == Waiter(th) /\ pc[th] # "posted"
Sent(th)    == Resting(th) /\ InFirmware(cmd[th])
Queued(th)  == Resting(th) /\ InQueue(cmd[th])
Handled(th) == Resting(th) /\ InHand(cmd[th])
Told(th)    == hTask = th \/ pc[th] = "awakened"
Beyond(th)  == Handled(th) \/ Told(th)

LEMMA RestingStep ==
    ASSUME Prompt, PathInv, [Next]_vars, NEW th \in Threads, Resting(th)
    PROVE  \/ CallBack(cmd[th]) /\ Told(th)'
           \/ /\ ~CallBack(cmd[th]) /\ UNCHANGED <<pc[th], cmd[th]>>
              /\ Sent(th) => Sent(th)' \/ Queued(th)'
              /\ \A s \in Slots : InSlot(cmd[th], s) =>
                     (InSlot(cmd[th], s)' /\ Queued(th)') \/ Handled(th)'
              /\ Handled(th) => Handled(th)'
  <1> USE DEF Resting, PathInv
  <1>1. CASE CallBack(cmd[th])
    BY <1>1, WaiterTold DEF Waiter, Waiting, Told
  <1>2. CASE ~CallBack(cmd[th])
    <2>1. PICK c \in Ccbs : c = cmd[th]
      BY DEF Waiter
    <2>2. cmd'[th] = c /\ pc'[th] = pc[th]
      BY <1>2, <2>1, WaiterWaits
    <2>3. /\ InFirmware(c) => InFirmware(c)' \/ InQueue(c)'
          /\ \A s \in Slots : InSlot(c, s) => InSlot(c, s)' \/ InHand(c)'
          /\ InHand(c) => InHand(c)'
      BY <1>2, <2>1, CcbTravels
    <2>4. pc[th] \in Waiting /\ pc[th] # "posted"
      BY DEF Waiter
    <2>5. InFirmware(c)' \/ InQueue(c)' \/ InHand(c)' => Resting(th)'
      BY <2>1, <2>2, <2>4 DEF Waiter, Pending, InFirmware, InQueue, InSlot, InHand
    <2>6. /\ Resting(th)' => (InFirmware(cmd[th])' <=> InFirmware(c)')
          /\ Resting(th)' => (InQueue(cmd[th])' <=> InQueue(c)')
          /\ Resting(th)' => (InHand(cmd[th])' <=> InHand(c)')
          /\ \A s \in Slots : InSlot(cmd[th], s)' <=> InSlot(c, s)'
      BY <2>2 DEF InFirmware, InQueue, InSlot, InHand
    <2>7. \A s \in Slots : InSlot(c, s)' => InQueue(c)'
      BY DEF InQueue
    <2> QED BY ONLY <1>2, <2>1, <2>2, <2>3, <2>5, <2>6, <2>7 DEF Sent, Queued, Handled
  <1> QED BY <1>1, <1>2

\* The reply is among the slots that the running handler has seen.
Sighted(th) ==
    /\ Queued(th) /\ hpc \in {"loop", "call", "complete"}
    /\ \E s \in Slots : InSlot(cmd[th], s) /\ Between(hConsumer, s, hProducer)

LEMMA BetweenNext ==
    ASSUME NEW a \in Slots, NEW s \in Slots, NEW p \in Slots, Between(a, s, p)
    PROVE  a # p /\ (s # a => Between(HandlerAdvance(a), s, p))
  BY MaxCmdsNat DEF Between, HandlerAdvance, Slots

LEMMA QueuedStep ==
    ASSUME Prompt, PathInv, [Next]_vars, NEW th \in Threads, Queued(th)
    PROVE  Queued(th)' \/ Beyond(th)'
  <1>1. Resting(th) /\ \E s \in Slots : InSlot(cmd[th], s)
    BY DEF Queued, InQueue
  <1> QED BY <1>1, RestingStep DEF Beyond

\* The handler takes every slot that it has seen.
LEMMA SightedStep ==
    ASSUME Prompt, PathInv, [Next]_vars, NEW th \in Threads, Sighted(th)
    PROVE  Sighted(th)' \/ Beyond(th)'
  <1> SUFFICES ASSUME ~Beyond(th)' PROVE Sighted(th)'
    OBVIOUS
  <1>0. TypeOK /\ Resting(th)
    BY DEF PathInv, IInv, Sighted, Queued
  <1>1. PICK s \in Slots : InSlot(cmd[th], s) /\ Between(hConsumer, s, hProducer)
    BY DEF Sighted
  <1>2. InSlot(cmd[th], s)' /\ Queued(th)' /\ cmd'[th] = cmd[th]
    BY <1>0, <1>1, RestingStep DEF Beyond
  <1>3. hConsumer \in Slots /\ hProducer \in Slots /\ hConsumer # hProducer
    BY <1>0, <1>1, BetweenNext DEF TypeOK
  <1>4. /\ hpc' \in {"loop", "call", "complete"}
        /\ Between(hConsumer', s, hProducer')
    <2>1. CASE HandlerTake
      <3>1. reply_q' = [reply_q EXCEPT ![hConsumer] = Invalid] /\ hProducer' = hProducer
            /\ hConsumer' = HandlerAdvance(hConsumer) /\ hpc' \in {"loop", "call"}
        BY <2>1 DEF HandlerTake
      <3>2. s # hConsumer
        BY <1>0, <1>1, <1>2, <3>1, NullAssumption
           DEF InSlot, TypeOK, Resting, Waiter
      <3> QED BY <1>1, <1>3, <3>1, <3>2, BetweenNext
    <2>2. CASE CmdDone \/ CompleteTask \/ ExecDone
      BY <1>1, <2>2 DEF CmdDone, CompleteTask, ExecDone
    <2>3. CASE ~Handler
      <3>1. UNCHANGED <<hpc, hConsumer, hProducer>>
        BY <1>0, <2>3, HandlerAlone DEF handlerVars
      <3> QED BY <1>1, <3>1 DEF Sighted
    <2> QED BY <1>3, <2>1, <2>2, <2>3 DEF Handler, HandlerStart, HandlerAck, HandlerSnap,
               HandlerEnd, Sighted
  <1> QED BY <1>1, <1>2, <1>4 DEF Sighted

\* A reply nobody looks for yet: the handler is about to look, or is told to,
\* or the status bit is up for the filter, or the firmware is to raise it.
Due(th)     == Queued(th) /\ hpc = "idle" /\ due
Looking(th) == Queued(th) /\ hpc = "ack"
Seeing(th)  == Queued(th) /\ hpc = "snap"
Raised(th)  == Queued(th) /\ hpc = "idle" /\ ~due /\ intr /\ ~PreferMSI
Written(th) == Queued(th) /\ hpc = "idle" /\ ~due /\ ~(intr /\ ~PreferMSI)

LEMMA DueStep ==
    ASSUME Prompt, PathInv, [Next]_vars, NEW th \in Threads, Due(th)
    PROVE  /\ Due(th)' \/ Looking(th)' \/ Seeing(th)' \/ Beyond(th)'
           /\ Handler => Looking(th)' \/ Seeing(th)' \/ Beyond(th)'
  <1>1. Queued(th)' \/ Beyond(th)'
    BY QueuedStep DEF Due
  <1>2. CASE Handler
    <2>1. HandlerStart
      BY <1>2 DEF Due, Handler, HandlerAck, HandlerSnap, HandlerTake, CmdDone, CompleteTask,
         ExecDone, HandlerEnd
    <2> QED BY <1>1, <2>1 DEF HandlerStart, Looking, Seeing
  <1>3. CASE ~Handler
    BY <1>1, <1>3, HandlerAlone DEF Due, PathInv, IInv, handlerVars
  <1> QED BY <1>2, <1>3

LEMMA LookingStep ==
    ASSUME Prompt, PathInv, [Next]_vars, NEW th \in Threads, Looking(th)
    PROVE  /\ Looking(th)' \/ Seeing(th)' \/ Beyond(th)'
           /\ Handler => Seeing(th)' \/ Beyond(th)'
  <1>1. Queued(th)' \/ Beyond(th)'
    BY QueuedStep DEF Looking
  <1>2. CASE Handler
    <2>1. HandlerAck
      BY <1>2 DEF Looking, Handler, HandlerStart, HandlerSnap, HandlerTake, CmdDone, CompleteTask,
         ExecDone, HandlerEnd
    <2> QED BY <1>1, <2>1 DEF HandlerAck, Seeing
  <1>3. CASE ~Handler
    BY <1>1, <1>3, HandlerAlone DEF Looking, PathInv, IInv, handlerVars
  <1> QED BY <1>2, <1>3

LEMMA SeeingStep ==
    ASSUME Prompt, PathInv, [Next]_vars, NEW th \in Threads, Seeing(th)
    PROVE  /\ Seeing(th)' \/ Sighted(th)' \/ Beyond(th)'
           /\ Handler => Sighted(th)' \/ Beyond(th)'
  <1>0. Queued(th)' \/ Beyond(th)'
    BY QueuedStep DEF Seeing
  <1>1. CASE Handler
    <2>1. HandlerSnap
      BY <1>1 DEF Seeing, Handler, HandlerStart, HandlerAck, HandlerTake, CmdDone, CompleteTask,
         ExecDone, HandlerEnd
    <2>2. /\ hpc = "snap" /\ hpc' = "loop" /\ hProducer' = producer /\ hConsumer' = consumer
          /\ UNCHANGED <<reply_q, cmd>>
      BY <2>1 DEF HandlerSnap, queueVars, threadVars
    <2>3. PICK s \in Slots : InSlot(cmd[th], s)
      BY DEF Seeing, Queued, InQueue
    <2>4. reply_q[s] # Invalid
      BY <2>3, NullAssumption DEF InSlot, Seeing, Queued, Resting, Waiter
    <2>5. Between(consumer, s, producer)
      BY <2>2, <2>4 DEF PathInv, WindowInv, QueueWindow, ReadPosition
    <2>6. InSlot(cmd[th], s)' /\ Between(hConsumer', s, hProducer')
      BY <2>2, <2>3, <2>5 DEF InSlot
    <2> QED BY <1>0, <2>2, <2>6 DEF Sighted
  <1>2. CASE ~Handler
    BY <1>0, <1>2, HandlerAlone DEF Seeing, PathInv, IInv, handlerVars
  <1> QED BY <1>1, <1>2

LEMMA RaisedStep ==
    ASSUME Prompt, PathInv, [Next]_vars, NEW th \in Threads, Raised(th)
    PROVE  /\ Raised(th)' \/ Due(th)' \/ Beyond(th)'
           /\ Filter => Due(th)' \/ Beyond(th)'
  <1>0. Queued(th)' \/ Beyond(th)'
    BY QueuedStep DEF Raised
  <1>1. ~Handler /\ hpc' = "idle"
    <2>1. ~Handler
      BY DEF Raised, Handler, HandlerStart, HandlerAck, HandlerSnap, HandlerTake, CmdDone,
         CompleteTask, ExecDone, HandlerEnd
    <2> QED BY <2>1, HandlerAlone DEF Raised, PathInv, IInv, handlerVars
  <1>2. CASE Filter
    BY <1>0, <1>1, <1>2 DEF Filter, Due
  <1>3. CASE FwRaise /\ ~Filter
    <2>1. intr' = TRUE
      BY <1>3 DEF FwRaise
    <2>2. Queued(th)' => Raised(th)' \/ Due(th)'
      BY <1>1, <2>1 DEF Raised, Due
    <2> QED BY <1>0, <1>3, <2>2
  <1>4. CASE ~Filter /\ ~FwRaise
    <2>1. UNCHANGED <<intr, due>>
      BY <1>1, <1>4 DEF Next, Enter, ThreadStep, TaskStep, Getccb, BuildExec, Post, Sleep,
         Deadline, ExecReturn, Putccb, BuildTask, AnswerAtOnce, FwExecute, vars, intrVars
    <2> QED BY <1>0, <1>1, <1>4, <2>1 DEF Raised
  <1> QED BY <1>2, <1>3, <1>4

LEMMA WrittenStep ==
    ASSUME Prompt, PathInv, [Next]_vars, NEW th \in Threads, Written(th)
    PROVE  /\ fwRaise
           /\ Written(th)' \/ Raised(th)' \/ Due(th)' \/ Beyond(th)'
           /\ FwRaise => Raised(th)' \/ Due(th)' \/ Beyond(th)'
  <1>0. Queued(th)' \/ Beyond(th)'
    BY QueuedStep DEF Written
  <1>1. hpc' = "idle"
    <2>1. ~Handler
      BY DEF Written, Handler, HandlerStart, HandlerAck, HandlerSnap, HandlerTake, CmdDone,
         CompleteTask, ExecDone, HandlerEnd
    <2> QED BY <2>1, HandlerAlone DEF Written, PathInv, IInv, handlerVars
  <1>2. fwRaise /\ (PreferMSI => ~intr)
    <2>1. PICK s \in Slots : reply_q[s] = cmd[th] /\ cmd[th] \in Ccbs
      BY DEF Written, Queued, InQueue, InSlot, Resting, Waiter
    <2>2. Between(consumer, s, producer)
      BY <2>1, NullAssumption DEF PathInv, WindowInv, QueueWindow, ReadPosition, Written
    <2>3. consumer # producer
      BY <2>2, BetweenNext DEF PathInv, IInv, TypeOK
    <2> QED BY <2>3 DEF PathInv, Notified, NoStrandedReply, Written
  <1>3. Queued(th)' => Written(th)' \/ Raised(th)' \/ Due(th)'
    BY <1>1 DEF Written, Raised, Due
  <1>4. ASSUME FwRaise PROVE ~Written(th)'
    <2>1. intr' = TRUE /\ due' = (due \/ (PreferMSI /\ ~intr))
      BY <1>4 DEF FwRaise
    <2>2. PreferMSI => due'
      BY <1>2, <2>1
    <2> QED BY <2>1, <2>2 DEF Written
  <1> QED BY <1>0, <1>2, <1>3, <1>4

LEMMA HandledStep ==
    ASSUME Prompt, PathInv, [Next]_vars, NEW th \in Threads, Handled(th)
    PROVE  hpc # "idle" /\ (Handled(th)' \/ Told(th)') /\ (Handler => Told(th)')
  <1>1. hpc = "call" /\ Resting(th) /\ hCcb = cmd[th]
    BY NullAssumption DEF PathInv, IInv, HandlerLocals, Handled, InHand, Resting, Waiter
  <1>2. Handler => CallBack(cmd[th])
    BY <1>1 DEF CallBack, Handler, HandlerStart, HandlerAck, HandlerSnap, HandlerTake,
       CompleteTask, HandlerEnd
  <1> QED BY <1>1, <1>2, RestingStep

\* The task whose command is done is completed.
Completing(th) == hTask = th
AtHome(th)     == pc[th] = "idle"

LEMMA CompletingStep ==
    ASSUME PathInv, [Next]_vars, NEW th \in Threads, Completing(th)
    PROVE  hpc # "idle" /\ (Completing(th)' \/ AtHome(th)') /\ (Handler => AtHome(th)')
  <1>1. hpc = "complete" /\ TypeOK
    BY NullAssumption DEF PathInv, IInv, HandlerLocals, Completing
  <1>2. ASSUME Handler PROVE AtHome(th)'
    <2>1. CompleteTask
      BY <1>1, <1>2 DEF Handler, HandlerStart, HandlerAck, HandlerSnap, HandlerTake,
         CmdDone, ExecDone, HandlerEnd
    <2> QED BY <1>1, <2>1 DEF CompleteTask, AtHome, Completing, TypeOK
  <1>3. ASSUME ~Handler PROVE Completing(th)'
    BY <1>1, <1>3, HandlerAlone DEF Completing, handlerVars
  <1> QED BY <1>1, <1>2, <1>3

\* In what states a thread may be after the steps it makes on its own.
After == [get |-> {"fill"}, fill |-> {"post", "xpost", "put"}, post |-> {"inflight"},
          xpost |-> {"posted"}, posted |-> {"asleep"}, asleep |-> {"awakened", "timedout"},
          awakened |-> {"put"}, timedout |-> {"put"}, put |-> {"idle"}]

Reached(th, p) == pc[th] = p
Passed(th, p)  == pc[th] \in After[p]
Leaves(th, p)  == Reached(th, p) ~> Passed(th, p)

\* Nobody but the thread itself moves it on.
LEMMA OwnStep ==
    ASSUME Prompt, PathInv, [Next]_vars, NEW th \in Threads, NEW p \in DOMAIN After,
           Reached(th, p)
    PROVE  /\ Reached(th, p)' \/ Passed(th, p)'
           /\ Advance(th) \/ Getccb(th) \/ Putccb(th) => Passed(th, p)'
           /\ p = "asleep" /\ event[th] => Passed(th, p)' \/ (Reached(th, p)' /\ event'[th])
  <1> USE DEF After, Reached, Passed
  <1>0. TypeOK /\ HandlerLocals /\ (p = "asleep" => cmd[th] \in Ccbs)
    BY DEF PathInv, IInv, Holding
  <1>1. ASSUME NEW a \in Threads, Enter(a) \/ ThreadStep(a), a # th
        PROVE  pc'[th] = pc[th] /\ event'[th] = event[th]
    BY <1>0, <1>1 DEF Enter, ThreadStep, Getccb, BuildExec, Post, Sleep, Deadline, ExecReturn,
       Putccb, TypeOK
  <1>2. ASSUME Enter(th) \/ ThreadStep(th) PROVE Passed(th, p)'
    BY <1>0, <1>2 DEF Enter, ThreadStep, Getccb, BuildExec, Post, Sleep, Deadline, ExecReturn,
       Putccb, TypeOK
  <1>3. ASSUME NEW t \in Tasks, TaskStep(t)
        PROVE  Passed(th, p)' \/ (pc'[th] = pc[th] /\ event'[th] = event[th])
    BY <1>0, <1>3 DEF TaskStep, BuildTask, AnswerAtOnce, TypeOK
  <1>4. ASSUME CompleteTask PROVE pc'[th] = pc[th] /\ event'[th] = event[th]
    <2>1. hTask \in Threads /\ pc[hTask] = "inflight"
      BY <1>0, <1>4 DEF CompleteTask, HandlerLocals, TypeOK
    <2>2. hTask # th
      BY <2>1
    <2> QED BY <1>0, <1>4, <2>2 DEF CompleteTask, TypeOK
  <1>5. ASSUME ExecDone
        PROVE  /\ Passed(th, p)' \/ pc'[th] = pc[th]
               /\ event'[th] = event[th] \/ event'[th] = TRUE
    BY <1>0, <1>5 DEF ExecDone, TypeOK
  <1>6. ASSUME UNCHANGED <<pc, event>> PROVE pc'[th] = pc[th] /\ event'[th] = event[th]
    BY <1>6
  <1>7. Advance(th) \/ Getccb(th) \/ Putccb(th) => ThreadStep(th)
    BY DEF Advance, ThreadStep
  <1>8. \/ Passed(th, p)'
        \/ pc'[th] = pc[th] /\ (event'[th] = event[th] \/ event'[th] = TRUE)
    BY ONLY <1>1, <1>2, <1>3, <1>4, <1>5, <1>6, [Next]_vars
       DEF Next, Handler, vars, threadVars, FwExecute, FwRaise, Filter,
           HandlerStart, HandlerAck, HandlerSnap, HandlerTake, CmdDone, HandlerEnd
  <1> QED BY <1>2, <1>7, <1>8

\* Fairness to one thread.
LEMMA Promised ==
    ASSUME NEW th \in Threads PROVE FairSpec => Spec /\ Scheduled(th) /\ Serviced
  BY DEF FairSpec, Fairness

LEMMA OwnWork ==
    ASSUME Prompt, NEW th \in Threads,
           NEW p \in {"fill", "post", "xpost", "posted", "awakened", "timedout"}
    PROVE  Going => Leaves(th, p)
  <1>0. p \in DOMAIN After
    BY DEF After
  <1>1. PathInv /\ Reached(th, p) /\ [Next]_vars => Reached(th, p)' \/ Passed(th, p)'
    BY <1>0, OwnStep
  <1>2. PathInv /\ Reached(th, p) /\ [Next]_vars /\ <<Advance(th)>>_vars => Passed(th, p)'
    BY <1>0, OwnStep
  <1>3. OnlyGateBlocks /\ Reached(th, p) => ENABLED <<Advance(th)>>_vars
    BY DEF OnlyGateBlocks, OnItsOwn, Reached
  <1> QED BY <1>1, <1>2, <1>3, Promised, PathInductive, PTL
      DEF Going, Scheduled, Serviced, Leaves, Spec

\* A sleeper whose event was set before he slept is ended by his deadline.
Missed(th) == Reached(th, "asleep") /\ event[th]

LEMMA DeadlineRescues ==
    ASSUME Prompt, NEW th \in Threads PROVE Going => (Missed(th) ~> Passed(th, "asleep"))
  <1>0. "asleep" \in DOMAIN After
    BY DEF After
  <1>1. PathInv /\ Missed(th) /\ [Next]_vars => Missed(th)' \/ Passed(th, "asleep")'
    BY <1>0, OwnStep DEF Missed
  <1>2. PathInv /\ Missed(th) /\ [Next]_vars /\ <<Advance(th)>>_vars => Passed(th, "asleep")'
    BY <1>0, OwnStep DEF Missed
  <1>3. OnlyGateBlocks /\ Missed(th) => ENABLED <<Advance(th)>>_vars
    BY DEF OnlyGateBlocks, OnItsOwn, Reached, Missed
  <1> QED BY <1>1, <1>2, <1>3, Promised, PathInductive, PTL DEF Going, Scheduled, Serviced, Spec

\* The gate is free again and again, and a ccb is there.
LEMMA GateOpens ==
    ASSUME Prompt, MaxCmds <= 65535, Cardinality(Managers) <= Reserve, NEW th \in Threads
    PROVE  /\ Going /\ []PoolNeverEmpty => (Reached(th, "get") ~> Passed(th, "get"))
           /\ Going => (Reached(th, "put") ~> Passed(th, "put"))
  <1>0. "get" \in DOMAIN After /\ "put" \in DOMAIN After
    BY DEF After
  <1>1. PathInv /\ Reached(th, "get") /\ [Next]_vars
        => Reached(th, "get")' \/ Passed(th, "get")'
    BY <1>0, OwnStep
  <1>2. PathInv /\ Reached(th, "get") /\ [Next]_vars /\ <<Getccb(th)>>_vars
        => Passed(th, "get")'
    BY <1>0, OwnStep
  <1>3. PathInv /\ Reached(th, "put") /\ [Next]_vars
        => Reached(th, "put")' \/ Passed(th, "put")'
    BY <1>0, OwnStep
  <1>4. PathInv /\ Reached(th, "put") /\ [Next]_vars /\ <<Putccb(th)>>_vars
        => Passed(th, "put")'
    BY <1>0, OwnStep
  <1>5. OnlyGateBlocks /\ PoolNeverEmpty /\ Reached(th, "get") /\ Idle
        => ENABLED <<Getccb(th)>>_vars
    BY DEF OnlyGateBlocks, PoolNeverEmpty, Reached, Idle, GateFree
  <1>6. OnlyGateBlocks /\ Reached(th, "put") /\ Idle => ENABLED <<Putccb(th)>>_vars
    BY DEF OnlyGateBlocks, Reached, Idle, GateFree
  <1>7. Going => []<>Idle
    BY HandlerRests
  <1>8. Going /\ []PoolNeverEmpty => (Reached(th, "get") ~> Passed(th, "get"))
    BY <1>1, <1>2, <1>5, <1>7, Promised, PathInductive, PTL DEF Going, Scheduled, Serviced, Spec
  <1>9. Going => (Reached(th, "put") ~> Passed(th, "put"))
    BY <1>3, <1>4, <1>6, <1>7, Promised, PathInductive, PTL DEF Going, Scheduled, Serviced, Spec
  <1> QED BY <1>8, <1>9

LEMMA AnswerQueues ==
    ASSUME Prompt, PathInv, [Next]_vars, NEW th \in Threads, Sent(th), FwAnswer(th)
    PROVE  Queued(th)' \/ Beyond(th)'
  <1>1. PICK c \in Ccbs : cmd[th] = c /\ FwExecute(c)
    BY DEF FwAnswer
  <1>2. PICK s \in Slots : reply_q'[s] = c
    BY <1>1 DEF FwExecute, PathInv, IInv, TypeOK
  <1>3. InQueue(c)' /\ UNCHANGED <<pc, cmd>>
    BY <1>1, <1>2 DEF InQueue, InSlot, FwExecute, threadVars
  <1>4. Resting(th)'
    BY <1>1, <1>2, <1>3 DEF Sent, Resting, Waiter, Pending, InQueue, InSlot
  <1> QED BY <1>1, <1>3, <1>4 DEF Queued, InQueue, InSlot

\* The firmware answers, the answer is seen, and its handler tells the waiter.
LEMMA ReplyComes ==
    ASSUME Prompt, MaxCmds <= 65535, NEW th \in Threads
    PROVE  Going => (Resting(th) ~> Told(th))
  <1>1. Going => (Sent(th) ~> Queued(th) \/ Beyond(th))
    <2>1. PathInv /\ Sent(th) /\ [Next]_vars => Sent(th)' \/ Queued(th)' \/ Beyond(th)'
      BY RestingStep DEF Sent, Beyond
    <2>2. PathInv /\ Sent(th) /\ [Next]_vars /\ <<FwAnswer(th)>>_vars => Queued(th)' \/ Beyond(th)'
      BY AnswerQueues
    <2>3. OnlyGateBlocks /\ Sent(th) => ENABLED <<FwAnswer(th)>>_vars
      BY DEF OnlyGateBlocks, Sent, Resting, Waiter, InFirmware
    <2> QED BY <2>1, <2>2, <2>3, Promised, PathInductive, PTL DEF Going, Scheduled, Spec
  <1>2. Going => (Written(th) ~> Raised(th) \/ Due(th) \/ Beyond(th))
    <2>1. PathInv /\ Written(th) /\ [Next]_vars
          => Written(th)' \/ Raised(th)' \/ Due(th)' \/ Beyond(th)'
      BY WrittenStep
    <2>2. PathInv /\ Written(th) /\ [Next]_vars /\ <<FwRaise>>_vars
          => Raised(th)' \/ Due(th)' \/ Beyond(th)'
      BY WrittenStep
    <2>3. PathInv /\ OnlyGateBlocks /\ Written(th) /\ [Next]_vars => ENABLED <<FwRaise>>_vars
      BY WrittenStep DEF OnlyGateBlocks
    <2> QED BY <2>1, <2>2, <2>3, Promised, PathInductive, PTL DEF Going, Serviced, Spec
  <1>3. Going => (Raised(th) ~> Due(th) \/ Beyond(th))
    <2>1. PathInv /\ Raised(th) /\ [Next]_vars => Raised(th)' \/ Due(th)' \/ Beyond(th)'
      BY RaisedStep
    <2>2. PathInv /\ Raised(th) /\ [Next]_vars /\ <<Filter>>_vars => Due(th)' \/ Beyond(th)'
      BY RaisedStep
    <2>3. OnlyGateBlocks /\ Raised(th) => ENABLED <<Filter>>_vars
      BY DEF OnlyGateBlocks, Raised
    <2> QED BY <2>1, <2>2, <2>3, Promised, PathInductive, PTL DEF Going, Serviced, Spec
  <1>4. Going => (Due(th) ~> Looking(th) \/ Seeing(th) \/ Beyond(th))
    <2>1. PathInv /\ Due(th) /\ [Next]_vars
          => Due(th)' \/ Looking(th)' \/ Seeing(th)' \/ Beyond(th)'
      BY DueStep
    <2>2. PathInv /\ Due(th) /\ [Next]_vars /\ <<Handler>>_vars
          => Looking(th)' \/ Seeing(th)' \/ Beyond(th)'
      BY DueStep
    <2>3. OnlyGateBlocks /\ Due(th) => ENABLED <<Handler>>_vars
      BY DEF OnlyGateBlocks, Due
    <2> QED BY <2>1, <2>2, <2>3, Promised, PathInductive, PTL DEF Going, Serviced, Spec
  <1>5. Going => (Looking(th) ~> Seeing(th) \/ Beyond(th))
    <2>1. PathInv /\ Looking(th) /\ [Next]_vars => Looking(th)' \/ Seeing(th)' \/ Beyond(th)'
      BY LookingStep
    <2>2. PathInv /\ Looking(th) /\ [Next]_vars /\ <<Handler>>_vars => Seeing(th)' \/ Beyond(th)'
      BY LookingStep
    <2>3. OnlyGateBlocks /\ Looking(th) => ENABLED <<Handler>>_vars
      BY DEF OnlyGateBlocks, Looking
    <2> QED BY <2>1, <2>2, <2>3, Promised, PathInductive, PTL DEF Going, Serviced, Spec
  <1>6. Going => (Seeing(th) ~> Sighted(th) \/ Beyond(th))
    <2>1. PathInv /\ Seeing(th) /\ [Next]_vars => Seeing(th)' \/ Sighted(th)' \/ Beyond(th)'
      BY SeeingStep
    <2>2. PathInv /\ Seeing(th) /\ [Next]_vars /\ <<Handler>>_vars => Sighted(th)' \/ Beyond(th)'
      BY SeeingStep
    <2>3. OnlyGateBlocks /\ Seeing(th) => ENABLED <<Handler>>_vars
      BY DEF OnlyGateBlocks, Seeing
    <2> QED BY <2>1, <2>2, <2>3, Promised, PathInductive, PTL DEF Going, Serviced, Spec
  <1>7. Going => (Sighted(th) ~> Beyond(th))
    <2>1. PathInv /\ Sighted(th) /\ [Next]_vars => Sighted(th)' \/ Beyond(th)'
      BY SightedStep
    <2>2. Sighted(th) => ~Idle
      BY DEF Sighted, Idle
    <2> QED BY <2>1, <2>2, HandlerRests, Promised, PathInductive, PTL DEF Going, Spec
  <1>8. Going => (Queued(th) ~> (Queued(th) /\ Idle) \/ Beyond(th))
    <2>1. PathInv /\ Queued(th) /\ [Next]_vars => Queued(th)' \/ Beyond(th)'
      BY QueuedStep
    <2> QED BY <2>1, HandlerRests, Promised, PathInductive, PTL DEF Going, Spec
  <1>9. Queued(th) /\ Idle => Written(th) \/ Raised(th) \/ Due(th)
    BY DEF Idle, Written, Raised, Due
  <1>10. Going => (Handled(th) ~> Told(th))
    <2>1. PathInv /\ Handled(th) /\ [Next]_vars => Handled(th)' \/ Told(th)'
      BY HandledStep
    <2>2. PathInv /\ Handled(th) /\ [Next]_vars /\ <<Handler>>_vars => Told(th)'
      BY HandledStep
    <2>3. PathInv /\ OnlyGateBlocks /\ Handled(th) /\ [Next]_vars => ENABLED <<Handler>>_vars
      BY HandledStep DEF OnlyGateBlocks
    <2> QED BY <2>1, <2>2, <2>3, Promised, PathInductive, PTL DEF Going, Serviced, Spec
  <1>11. Resting(th) => Sent(th) \/ Queued(th) \/ Handled(th)
    BY DEF Resting, Waiter, Pending, Sent, Queued, Handled, InFirmware, InQueue, InSlot, InHand
  <1>12. Beyond(th) => Handled(th) \/ Told(th)
    BY DEF Beyond
  <1> QED BY <1>1, <1>2, <1>3, <1>4, <1>5, <1>6, <1>7, <1>8, <1>9, <1>10, <1>11, <1>12, PTL

(***************************************************************************)
(* ProcessParallelTask, MRAID_Exec: for any number of ccbs, tasks and      *)
(* callers, whoever enters the driver leaves it, with either kind of       *)
(* interrupt and whether or not pool and interrupt share a gate.  That     *)
(* only the gate, the pool and missing replies hold anybody up             *)
(* (OnlyGateBlocks) is a premise here; commands are counted in 16 bits.    *)
(***************************************************************************)
THEOREM RequestsReturn ==
    Prompt /\ IsFiniteSet(Managers) /\ Cardinality(Managers) <= Reserve
    /\ Reserve <= MaxCmds /\ MaxCmds <= 65535
    => (FairSpec /\ []OnlyGateBlocks => EveryRequestReturns)
  <1> SUFFICES ASSUME Prompt, IsFiniteSet(Managers), Cardinality(Managers) <= Reserve,
                      Reserve <= MaxCmds, MaxCmds <= 65535
               PROVE  Going => EveryRequestReturns
    BY DEF Going
  <1> SUFFICES ASSUME NEW th \in Threads PROVE Going => (Reached(th, "get") ~> AtHome(th))
    BY DEF EveryRequestReturns, Reached, AtHome
  <1>1. Going => []PoolNeverEmpty
    BY ReserveSuffices, PTL DEF Going, FairSpec
  <1>2. /\ Passed(th, "get") => Reached(th, "fill")
        /\ Passed(th, "fill") => Reached(th, "post") \/ Reached(th, "xpost") \/ Reached(th, "put")
        /\ Passed(th, "xpost") => Reached(th, "posted")
        /\ Passed(th, "posted") => Reached(th, "asleep")
        /\ Passed(th, "asleep") => Reached(th, "awakened") \/ Reached(th, "timedout")
        /\ Passed(th, "awakened") => Reached(th, "put")
        /\ Passed(th, "timedout") => Reached(th, "put")
        /\ Passed(th, "put") => AtHome(th)
    BY DEF Passed, Reached, After, AtHome
  <1>3. PathInv /\ Passed(th, "post") => Completing(th) \/ Resting(th)
    BY DEF PathInv, Owed, OwedTo, Passed, After, Completing, Resting
  <1>4. PathInv /\ Reached(th, "asleep") => Missed(th) \/ Resting(th)
    BY DEF PathInv, Owed, OwedTo, Reached, Missed, Resting
  <1>5. Told(th) => Completing(th) \/ Reached(th, "awakened")
    BY DEF Told, Completing, Reached
  <1>6. Going => (Completing(th) ~> AtHome(th))
    <2>1. PathInv /\ Completing(th) /\ [Next]_vars => Completing(th)' \/ AtHome(th)'
      BY CompletingStep
    <2>2. PathInv /\ Completing(th) /\ [Next]_vars /\ <<Handler>>_vars => AtHome(th)'
      BY CompletingStep
    <2>3. PathInv /\ OnlyGateBlocks /\ Completing(th) /\ [Next]_vars => ENABLED <<Handler>>_vars
      BY CompletingStep DEF OnlyGateBlocks
    <2> QED BY <2>1, <2>2, <2>3, Promised, PathInductive, PTL DEF Going, Serviced, Spec
  <1>7. /\ Going => Leaves(th, "fill")
        /\ Going => Leaves(th, "post")
        /\ Going => Leaves(th, "xpost")
        /\ Going => Leaves(th, "posted")
        /\ Going => Leaves(th, "awakened")
        /\ Going => Leaves(th, "timedout")
    BY OwnWork
  <1>8. Going => (Resting(th) ~> Told(th))
    BY ReplyComes
  <1>9. Going => (Missed(th) ~> Passed(th, "asleep"))
    BY DeadlineRescues
  <1>10. /\ Going /\ []PoolNeverEmpty => (Reached(th, "get") ~> Passed(th, "get"))
         /\ Going => (Reached(th, "put") ~> Passed(th, "put"))
    BY GateOpens
  <1>11. Going => []PathInv
    BY PathInductive, PTL DEF Going, FairSpec
  <1> QED BY <1>1, <1>2, <1>3, <1>4, <1>5, <1>6, <1>7, <1>8, <1>9, <1>10, <1>11, PTL DEF Leaves
=============================================================================
