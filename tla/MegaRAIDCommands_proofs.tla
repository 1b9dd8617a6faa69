----------------------- MODULE MegaRAIDCommands_proofs -----------------------
(***************************************************************************)
(* Safety of the command path, for any number of ccbs, tasks and managers, *)
(* under one assumption on the environment (Prompt): a management reply is *)
(* handled before the deadline of the MRAID_Exec that waits for it, and no *)
(* signal ends that sleep earlier.  The code does not see to it: without   *)
(* Prompt a ccb may be scrubbed while the firmware holds its frame.        *)
(***************************************************************************)
EXTENDS MegaRAIDCommands, FiniteSetTheorems, TLAPS

USE CcbsAssumption, ThreadsAssumption, NullAssumption, FlagsAssumption,
    StatusAssumption, PostsAssumption DEF Threads

-----------------------------------------------------------------------------
(* Type correctness and the inductive invariant                            *)

LEMMA MaxCmdsNat == MaxCmds \in Nat /\ MaxCmds > 0
  BY FS_CardinalityType, FS_EmptySet DEF MaxCmds

LEMMA InitTypeOK == Init => TypeOK
  <1> SUFFICES ASSUME Init PROVE TypeOK OBVIOUS
  <1>1. 0 \in Slots /\ 0 \in 0 .. MaxPosts
    BY MaxCmdsNat DEF Slots
  <1>2. ccb \in [Ccbs -> [done : {"none", "cmd", "exec"},
                           ctx : Threads \cup {None}, status : Status]]
    BY DEF Init, Scrubbed, Status
  <1> QED BY <1>1, <1>2 DEF Init, TypeOK, Status, PCs

LEMMA TypeStep == ASSUME TypeOK, Holding, HandlerLocals, PendingOwned, [Next]_vars PROVE TypeOK'
  <1> USE DEF TypeOK, Status, PCs, poolVars, fwVars, queueVars, intrVars, handlerVars, threadVars
  <1>1. ASSUME NEW th \in Threads, Enter(th) PROVE TypeOK'
    BY <1>1 DEF Enter
  <1>2. ASSUME NEW th \in Threads, Getccb(th) PROVE TypeOK'
    BY <1>2 DEF Getccb
  <1>3. ASSUME NEW th \in Threads, BuildExec(th) PROVE TypeOK'
    BY <1>3, SMTT(30) DEF BuildExec, Holding
  <1>4. ASSUME NEW th \in Threads, Post(th) PROVE TypeOK'
    BY <1>4 DEF Post, Holding
  <1>5. ASSUME NEW th \in Threads, Sleep(th) PROVE TypeOK'
    BY <1>5 DEF Sleep
  <1>6. ASSUME NEW th \in Threads, Deadline(th) PROVE TypeOK'
    BY <1>6 DEF Deadline
  <1>7. ASSUME NEW th \in Threads, ExecReturn(th) PROVE TypeOK'
    BY <1>7 DEF ExecReturn, Holding
  <1>8. ASSUME NEW th \in Threads, Putccb(th) PROVE TypeOK'
    BY <1>8 DEF Putccb, Scrubbed, Holding
  <1>9. ASSUME NEW t \in Tasks, BuildTask(t) PROVE TypeOK'
    BY <1>9, SMTT(30) DEF BuildTask, Holding
  <1>10. ASSUME NEW t \in Tasks, AnswerAtOnce(t) PROVE TypeOK'
    BY <1>10 DEF AnswerAtOnce
  <1>11. ASSUME NEW c \in Ccbs, FwExecute(c) PROVE TypeOK'
    <2>1. producer' \in Slots
      BY <1>11, MaxCmdsNat DEF FwExecute, FwAdvance, RqEntries, Slots
    <2>2. fwq' \in [Ccbs -> 0 .. MaxPosts]
      BY <1>11 DEF FwExecute
    <2>3. reply_q' \in [Slots -> Ccbs \cup {Invalid}]
      BY <1>11 DEF FwExecute
    <2> QED BY <1>11, <2>1, <2>2, <2>3, SMTT(30) DEF FwExecute
  <1>12. CASE FwRaise
    BY <1>12 DEF FwRaise
  <1>13. CASE Filter
    BY <1>13 DEF Filter
  <1>14. CASE HandlerStart
    BY <1>14 DEF HandlerStart
  <1>15. CASE HandlerAck
    BY <1>15 DEF HandlerAck
  <1>16. CASE HandlerSnap
    BY <1>16 DEF HandlerSnap
  <1>17. CASE HandlerTake
    BY <1>17, MaxCmdsNat DEF HandlerTake, HandlerAdvance, Slots
  <1>18. CASE CmdDone
    BY <1>18 DEF CmdDone, Scrubbed, HandlerLocals, PendingOwned, Pending
  <1>19. CASE CompleteTask
    BY <1>19 DEF CompleteTask
  <1>20. CASE ExecDone
    BY <1>20, SMTT(30) DEF ExecDone, HandlerLocals, PendingOwned, Pending
  <1>21. CASE HandlerEnd
    BY <1>21, MaxCmdsNat DEF HandlerEnd, Slots
  <1>22. CASE UNCHANGED vars
    BY <1>22 DEF vars
  <1> QED
    BY <1>1, <1>2, <1>3, <1>4, <1>5, <1>6, <1>7, <1>8, <1>9, <1>10, <1>11,
       <1>12, <1>13, <1>14, <1>15, <1>16, <1>17, <1>18, <1>19, <1>20, <1>21, <1>22
       DEF Next, ThreadStep, TaskStep, Handler

LEMMA InitIInv == Init => IInv
  <1> SUFFICES ASSUME Init PROVE IInv OBVIOUS
  <1> USE DEF Init, Scrubbed
  <1>1. Exclusive /\ Holding /\ Filled /\ PendingOnce /\ HandlerLocals
    BY DEF Exclusive, Holding, Filled, PendingOnce, HandlerLocals
  <1>2. PendingOwned
    BY DEF PendingOwned, Pending
  <1> QED BY <1>1, <1>2, InitTypeOK DEF IInv

LEMMA IInvStep == ASSUME Prompt, IInv, [Next]_vars PROVE IInv'
  <1> USE DEF IInv, TypeOK, Waiting, poolVars, fwVars, queueVars, intrVars, handlerVars, threadVars
  <1>1. ASSUME NEW th \in Threads, Enter(th) PROVE IInv'
    <2>0. TypeOK'
      BY ONLY TypeStep, IInv, <1>1 DEF IInv, Next, ThreadStep, TaskStep, Handler
    <2>1. Exclusive'
      BY <1>1 DEF Enter, Exclusive, Holding, HandlerLocals, PendingOwned, Pending
    <2>2. Holding'
      BY <1>1 DEF Enter, Holding, HandlerLocals, PendingOwned, Pending
    <2>3. Filled'
      BY <1>1 DEF Enter, Exclusive, Holding, Filled, PendingOwned, Pending, HandlerLocals
    <2>4. PendingOwned'
      BY <1>1 DEF Enter, Exclusive, Holding, Filled, PendingOwned, PendingOnce, Pending, HandlerLocals
    <2>5. PendingOnce'
      BY <1>1 DEF Enter, Exclusive, Holding, PendingOwned, PendingOnce, Pending, HandlerLocals
    <2>6. HandlerLocals'
      BY <1>1 DEF Enter, HandlerLocals, Exclusive, Holding, PendingOwned, Pending
    <2> QED BY ONLY <2>0, <2>1, <2>2, <2>3, <2>4, <2>5, <2>6 DEF IInv
  <1>2. ASSUME NEW th \in Threads, Getccb(th) PROVE IInv'
    <2>0. TypeOK'
      BY ONLY TypeStep, IInv, <1>2 DEF IInv, Next, ThreadStep, TaskStep, Handler
    <2>1. Exclusive'
      BY <1>2 DEF Getccb, Exclusive, Holding, HandlerLocals, PendingOwned, Pending
    <2>2. Holding'
      BY <1>2 DEF Getccb, Holding, HandlerLocals, PendingOwned, Pending
    <2>3. Filled'
      BY <1>2 DEF Getccb, Exclusive, Holding, Filled, PendingOwned, Pending, HandlerLocals
    <2>4. PendingOwned'
      BY <1>2 DEF Getccb, Exclusive, Holding, Filled, PendingOwned, PendingOnce, Pending, HandlerLocals
    <2>5. PendingOnce'
      BY <1>2 DEF Getccb, Exclusive, Holding, PendingOwned, PendingOnce, Pending, HandlerLocals
    <2>6. HandlerLocals'
      BY <1>2 DEF Getccb, HandlerLocals, Exclusive, Holding, PendingOwned, Pending
    <2> QED BY ONLY <2>0, <2>1, <2>2, <2>3, <2>4, <2>5, <2>6 DEF IInv
  <1>3. ASSUME NEW th \in Threads, BuildExec(th) PROVE IInv'
    <2>0. TypeOK'
      BY ONLY TypeStep, IInv, <1>3 DEF IInv, Next, ThreadStep, TaskStep, Handler
    <2>1. Exclusive'
      BY <1>3 DEF BuildExec, Exclusive, Holding, HandlerLocals, PendingOwned, Pending
    <2>2. Holding'
      BY <1>3 DEF BuildExec, Holding, HandlerLocals, PendingOwned, Pending
    <2>3. Filled'
      <3>1. ASSUME NEW a \in Threads, a # th, pc[a] \in {"post", "xpost", "posted", "asleep"}
            PROVE  ccb'[cmd'[a]] = ccb[cmd[a]] /\ pc'[a] = pc[a] /\ event'[a] = event[a]
        BY <1>3, <3>1 DEF BuildExec, Exclusive, Holding
      <3>2. /\ pc'[th] = "xpost" /\ ~event'[th]
            /\ ccb'[cmd'[th]].done = "exec" /\ ccb'[cmd'[th]].ctx = th
        BY <1>3 DEF BuildExec, Holding
      <3>3. \A a \in Threads : a # th => pc'[a] = pc[a]
        BY <1>3 DEF BuildExec
      <3> QED BY ONLY <3>1, <3>2, <3>3, Filled DEF Filled
    <2>4. PendingOwned'
      BY <1>3 DEF BuildExec, Exclusive, Holding, Filled, PendingOwned, PendingOnce, Pending, HandlerLocals
    <2>5. PendingOnce'
      BY <1>3 DEF BuildExec, Exclusive, Holding, PendingOwned, PendingOnce, Pending, HandlerLocals
    <2>6. HandlerLocals'
      BY <1>3 DEF BuildExec, HandlerLocals, Exclusive, Holding, PendingOwned, Pending
    <2> QED BY ONLY <2>0, <2>1, <2>2, <2>3, <2>4, <2>5, <2>6 DEF IInv
  <1>4. ASSUME NEW th \in Threads, Post(th) PROVE IInv'
    <2>0. TypeOK'
      BY ONLY TypeStep, IInv, <1>4 DEF IInv, Next, ThreadStep, TaskStep, Handler
    <2>1. Exclusive'
      BY <1>4 DEF Post, Exclusive, Holding, HandlerLocals, PendingOwned, Pending
    <2>2. Holding'
      BY <1>4 DEF Post, Holding, HandlerLocals, PendingOwned, Pending
    <2>3. Filled'
      BY <1>4 DEF Post, Exclusive, Holding, Filled, PendingOwned, Pending, HandlerLocals
    <2>4. PendingOwned'
      BY <1>4 DEF Post, Exclusive, Holding, Filled, PendingOwned, PendingOnce, Pending, HandlerLocals
    <2>5. PendingOnce'
      BY <1>4 DEF Post, Exclusive, Holding, PendingOwned, PendingOnce, Pending, HandlerLocals
    <2>6. HandlerLocals'
      BY <1>4 DEF Post, HandlerLocals, Exclusive, Holding, PendingOwned, Pending
    <2> QED BY ONLY <2>0, <2>1, <2>2, <2>3, <2>4, <2>5, <2>6 DEF IInv
  <1>5. ASSUME NEW th \in Threads, Sleep(th) PROVE IInv'
    <2>0. TypeOK'
      BY ONLY TypeStep, IInv, <1>5 DEF IInv, Next, ThreadStep, TaskStep, Handler
    <2>1. Exclusive'
      BY <1>5 DEF Sleep, Exclusive, Holding, HandlerLocals, PendingOwned, Pending
    <2>2. Holding'
      BY <1>5 DEF Sleep, Holding, HandlerLocals, PendingOwned, Pending
    <2>3. Filled'
      BY <1>5 DEF Sleep, Exclusive, Holding, Filled, PendingOwned, Pending, HandlerLocals
    <2>4. PendingOwned'
      BY <1>5 DEF Sleep, Exclusive, Holding, Filled, PendingOwned, PendingOnce, Pending, HandlerLocals
    <2>5. PendingOnce'
      BY <1>5 DEF Sleep, Exclusive, Holding, PendingOwned, PendingOnce, Pending, HandlerLocals
    <2>6. HandlerLocals'
      BY <1>5 DEF Sleep, HandlerLocals, Exclusive, Holding, PendingOwned, Pending
    <2> QED BY ONLY <2>0, <2>1, <2>2, <2>3, <2>4, <2>5, <2>6 DEF IInv
  <1>6. ASSUME NEW th \in Threads, Deadline(th) PROVE IInv'
    <2>0. TypeOK'
      BY ONLY TypeStep, IInv, <1>6 DEF IInv, Next, ThreadStep, TaskStep, Handler
    <2>1. Exclusive'
      BY <1>6 DEF Deadline, Exclusive, Holding, HandlerLocals, PendingOwned, Pending
    <2>2. Holding'
      BY <1>6 DEF Deadline, Holding, HandlerLocals, PendingOwned, Pending
    <2>3. Filled'
      BY <1>6 DEF Deadline, Exclusive, Holding, Filled, PendingOwned, Pending, HandlerLocals
    <2>4. PendingOwned'
      BY <1>6 DEF Deadline, Exclusive, Holding, Filled, PendingOwned, PendingOnce, Pending, HandlerLocals
    <2>5. PendingOnce'
      BY <1>6 DEF Deadline, Exclusive, Holding, PendingOwned, PendingOnce, Pending, HandlerLocals
    <2>6. HandlerLocals'
      BY <1>6 DEF Deadline, HandlerLocals, Exclusive, Holding, PendingOwned, Pending
    <2> QED BY ONLY <2>0, <2>1, <2>2, <2>3, <2>4, <2>5, <2>6 DEF IInv
  <1>7. ASSUME NEW th \in Threads, ExecReturn(th) PROVE IInv'
    <2>0. TypeOK'
      BY ONLY TypeStep, IInv, <1>7 DEF IInv, Next, ThreadStep, TaskStep, Handler
    <2>1. Exclusive'
      BY <1>7 DEF ExecReturn, Exclusive, Holding, HandlerLocals, PendingOwned, Pending
    <2>2. Holding'
      BY <1>7 DEF ExecReturn, Holding, HandlerLocals, PendingOwned, Pending
    <2>3. Filled'
      BY <1>7 DEF ExecReturn, Exclusive, Holding, Filled, PendingOwned, Pending, HandlerLocals
    <2>4. PendingOwned'
      BY <1>7 DEF ExecReturn, Exclusive, Holding, Filled, PendingOwned, PendingOnce, Pending, HandlerLocals
    <2>5. PendingOnce'
      BY <1>7 DEF ExecReturn, Exclusive, Holding, PendingOwned, PendingOnce, Pending, HandlerLocals
    <2>6. HandlerLocals'
      BY <1>7 DEF ExecReturn, HandlerLocals, Exclusive, Holding, PendingOwned, Pending
    <2> QED BY ONLY <2>0, <2>1, <2>2, <2>3, <2>4, <2>5, <2>6 DEF IInv
  <1>8. ASSUME NEW th \in Threads, Putccb(th) PROVE IInv'
    <2>0. TypeOK'
      BY ONLY TypeStep, IInv, <1>8 DEF IInv, Next, ThreadStep, TaskStep, Handler
    <2>1. Exclusive'
      BY <1>8 DEF Putccb, Scrubbed, Exclusive, Holding, HandlerLocals, PendingOwned, Pending
    <2>2. Holding'
      BY <1>8 DEF Putccb, Scrubbed, Holding, HandlerLocals, PendingOwned, Pending
    <2>3. Filled'
      BY <1>8 DEF Putccb, Scrubbed, Exclusive, Holding, Filled, PendingOwned, Pending, HandlerLocals
    <2>4. PendingOwned'
      BY <1>8 DEF Putccb, Scrubbed, Exclusive, Holding, Filled, PendingOwned, PendingOnce, Pending, HandlerLocals
    <2>5. PendingOnce'
      BY <1>8 DEF Putccb, Scrubbed, Exclusive, Holding, PendingOwned, PendingOnce, Pending, HandlerLocals
    <2>6. HandlerLocals'
      BY <1>8 DEF Putccb, Scrubbed, HandlerLocals, Exclusive, Holding, PendingOwned, Pending
    <2> QED BY ONLY <2>0, <2>1, <2>2, <2>3, <2>4, <2>5, <2>6 DEF IInv
  <1>9. ASSUME NEW t \in Tasks, BuildTask(t) PROVE IInv'
    <2>0. TypeOK'
      BY ONLY TypeStep, IInv, <1>9 DEF IInv, Next, ThreadStep, TaskStep, Handler
    <2>1. Exclusive'
      BY <1>9 DEF BuildTask, Exclusive, Holding, HandlerLocals, PendingOwned, Pending
    <2>2. Holding'
      BY <1>9 DEF BuildTask, Holding, HandlerLocals, PendingOwned, Pending
    <2>3. Filled'
      BY <1>9, SMTT(30) DEF BuildTask, Exclusive, Holding, Filled, PendingOwned, Pending, HandlerLocals
    <2>4. PendingOwned'
      BY <1>9 DEF BuildTask, Exclusive, Holding, Filled, PendingOwned, PendingOnce, Pending, HandlerLocals
    <2>5. PendingOnce'
      BY <1>9 DEF BuildTask, Exclusive, Holding, PendingOwned, PendingOnce, Pending, HandlerLocals
    <2>6. HandlerLocals'
      BY <1>9 DEF BuildTask, HandlerLocals, Exclusive, Holding, PendingOwned, Pending
    <2> QED BY ONLY <2>0, <2>1, <2>2, <2>3, <2>4, <2>5, <2>6 DEF IInv
  <1>10. ASSUME NEW t \in Tasks, AnswerAtOnce(t) PROVE IInv'
    <2>0. TypeOK'
      BY ONLY TypeStep, IInv, <1>10 DEF IInv, Next, ThreadStep, TaskStep, Handler
    <2>1. Exclusive'
      BY <1>10 DEF AnswerAtOnce, Exclusive, Holding, HandlerLocals, PendingOwned, Pending
    <2>2. Holding'
      BY <1>10 DEF AnswerAtOnce, Holding, HandlerLocals, PendingOwned, Pending
    <2>3. Filled'
      BY <1>10 DEF AnswerAtOnce, Exclusive, Holding, Filled, PendingOwned, Pending, HandlerLocals
    <2>4. PendingOwned'
      BY <1>10 DEF AnswerAtOnce, Exclusive, Holding, Filled, PendingOwned, PendingOnce, Pending, HandlerLocals
    <2>5. PendingOnce'
      BY <1>10 DEF AnswerAtOnce, Exclusive, Holding, PendingOwned, PendingOnce, Pending, HandlerLocals
    <2>6. HandlerLocals'
      BY <1>10 DEF AnswerAtOnce, HandlerLocals, Exclusive, Holding, PendingOwned, Pending
    <2> QED BY ONLY <2>0, <2>1, <2>2, <2>3, <2>4, <2>5, <2>6 DEF IInv
  <1>11. ASSUME NEW c \in Ccbs, FwExecute(c) PROVE IInv'
    <2>0. TypeOK'
      BY ONLY TypeStep, IInv, <1>11 DEF IInv, Next, ThreadStep, TaskStep, Handler
    <2>1. Exclusive'
      BY <1>11 DEF FwExecute, Exclusive, Holding, HandlerLocals, PendingOwned, Pending
    <2>2. Holding'
      BY <1>11 DEF FwExecute, Holding, HandlerLocals, PendingOwned, Pending
    <2>3. Filled'
      BY <1>11 DEF FwExecute, Exclusive, Holding, Filled, PendingOwned, Pending, HandlerLocals
    <2>4. PendingOwned'
      BY <1>11 DEF FwExecute, Exclusive, Holding, Filled, PendingOwned, PendingOnce, Pending, HandlerLocals
    <2>5. PendingOnce'
      BY <1>11 DEF FwExecute, Exclusive, Holding, PendingOwned, PendingOnce, Pending, HandlerLocals
    <2>6. HandlerLocals'
      BY <1>11 DEF FwExecute, HandlerLocals, Exclusive, Holding, PendingOwned, Pending
    <2> QED BY ONLY <2>0, <2>1, <2>2, <2>3, <2>4, <2>5, <2>6 DEF IInv
  <1>12. CASE FwRaise
    <2>0. TypeOK'
      BY ONLY TypeStep, IInv, <1>12 DEF IInv, Next, ThreadStep, TaskStep, Handler
    <2>1. Exclusive'
      BY <1>12 DEF FwRaise, Exclusive, Holding, HandlerLocals, PendingOwned, Pending
    <2>2. Holding'
      BY <1>12 DEF FwRaise, Holding, HandlerLocals, PendingOwned, Pending
    <2>3. Filled'
      BY <1>12 DEF FwRaise, Exclusive, Holding, Filled, PendingOwned, Pending, HandlerLocals
    <2>4. PendingOwned'
      BY <1>12 DEF FwRaise, Exclusive, Holding, Filled, PendingOwned, PendingOnce, Pending, HandlerLocals
    <2>5. PendingOnce'
      BY <1>12 DEF FwRaise, Exclusive, Holding, PendingOwned, PendingOnce, Pending, HandlerLocals
    <2>6. HandlerLocals'
      BY <1>12 DEF FwRaise, HandlerLocals, Exclusive, Holding, PendingOwned, Pending
    <2> QED BY ONLY <2>0, <2>1, <2>2, <2>3, <2>4, <2>5, <2>6 DEF IInv
  <1>13. CASE Filter
    <2>0. TypeOK'
      BY ONLY TypeStep, IInv, <1>13 DEF IInv, Next, ThreadStep, TaskStep, Handler
    <2>1. Exclusive'
      BY <1>13 DEF Filter, Exclusive, Holding, HandlerLocals, PendingOwned, Pending
    <2>2. Holding'
      BY <1>13 DEF Filter, Holding, HandlerLocals, PendingOwned, Pending
    <2>3. Filled'
      BY <1>13 DEF Filter, Exclusive, Holding, Filled, PendingOwned, Pending, HandlerLocals
    <2>4. PendingOwned'
      BY <1>13 DEF Filter, Exclusive, Holding, Filled, PendingOwned, PendingOnce, Pending, HandlerLocals
    <2>5. PendingOnce'
      BY <1>13 DEF Filter, Exclusive, Holding, PendingOwned, PendingOnce, Pending, HandlerLocals
    <2>6. HandlerLocals'
      BY <1>13 DEF Filter, HandlerLocals, Exclusive, Holding, PendingOwned, Pending
    <2> QED BY ONLY <2>0, <2>1, <2>2, <2>3, <2>4, <2>5, <2>6 DEF IInv
  <1>14. CASE HandlerStart
    <2>0. TypeOK'
      BY ONLY TypeStep, IInv, <1>14 DEF IInv, Next, ThreadStep, TaskStep, Handler
    <2>1. Exclusive'
      BY <1>14 DEF HandlerStart, Exclusive, Holding, HandlerLocals, PendingOwned, Pending
    <2>2. Holding'
      BY <1>14 DEF HandlerStart, Holding, HandlerLocals, PendingOwned, Pending
    <2>3. Filled'
      BY <1>14 DEF HandlerStart, Exclusive, Holding, Filled, PendingOwned, Pending, HandlerLocals
    <2>4. PendingOwned'
      BY <1>14 DEF HandlerStart, Exclusive, Holding, Filled, PendingOwned, PendingOnce, Pending, HandlerLocals
    <2>5. PendingOnce'
      BY <1>14 DEF HandlerStart, Exclusive, Holding, PendingOwned, PendingOnce, Pending, HandlerLocals
    <2>6. HandlerLocals'
      BY <1>14 DEF HandlerStart, HandlerLocals, Exclusive, Holding, PendingOwned, Pending
    <2> QED BY ONLY <2>0, <2>1, <2>2, <2>3, <2>4, <2>5, <2>6 DEF IInv
  <1>15. CASE HandlerAck
    <2>0. TypeOK'
      BY ONLY TypeStep, IInv, <1>15 DEF IInv, Next, ThreadStep, TaskStep, Handler
    <2>1. Exclusive'
      BY <1>15 DEF HandlerAck, Exclusive, Holding, HandlerLocals, PendingOwned, Pending
    <2>2. Holding'
      BY <1>15 DEF HandlerAck, Holding, HandlerLocals, PendingOwned, Pending
    <2>3. Filled'
      BY <1>15 DEF HandlerAck, Exclusive, Holding, Filled, PendingOwned, Pending, HandlerLocals
    <2>4. PendingOwned'
      BY <1>15 DEF HandlerAck, Exclusive, Holding, Filled, PendingOwned, PendingOnce, Pending, HandlerLocals
    <2>5. PendingOnce'
      BY <1>15 DEF HandlerAck, Exclusive, Holding, PendingOwned, PendingOnce, Pending, HandlerLocals
    <2>6. HandlerLocals'
      BY <1>15 DEF HandlerAck, HandlerLocals, Exclusive, Holding, PendingOwned, Pending
    <2> QED BY ONLY <2>0, <2>1, <2>2, <2>3, <2>4, <2>5, <2>6 DEF IInv
  <1>16. CASE HandlerSnap
    <2>0. TypeOK'
      BY ONLY TypeStep, IInv, <1>16 DEF IInv, Next, ThreadStep, TaskStep, Handler
    <2>1. Exclusive'
      BY <1>16 DEF HandlerSnap, Exclusive, Holding, HandlerLocals, PendingOwned, Pending
    <2>2. Holding'
      BY <1>16 DEF HandlerSnap, Holding, HandlerLocals, PendingOwned, Pending
    <2>3. Filled'
      BY <1>16 DEF HandlerSnap, Exclusive, Holding, Filled, PendingOwned, Pending, HandlerLocals
    <2>4. PendingOwned'
      BY <1>16 DEF HandlerSnap, Exclusive, Holding, Filled, PendingOwned, PendingOnce, Pending, HandlerLocals
    <2>5. PendingOnce'
      BY <1>16 DEF HandlerSnap, Exclusive, Holding, PendingOwned, PendingOnce, Pending, HandlerLocals
    <2>6. HandlerLocals'
      BY <1>16 DEF HandlerSnap, HandlerLocals, Exclusive, Holding, PendingOwned, Pending
    <2> QED BY ONLY <2>0, <2>1, <2>2, <2>3, <2>4, <2>5, <2>6 DEF IInv
  <1>17. CASE HandlerTake
    <2>0. TypeOK'
      BY ONLY TypeStep, IInv, <1>17 DEF IInv, Next, ThreadStep, TaskStep, Handler
    <2>1. Exclusive'
      BY <1>17 DEF HandlerTake, Exclusive, Holding, HandlerLocals, PendingOwned, Pending
    <2>2. Holding'
      BY <1>17 DEF HandlerTake, Holding, HandlerLocals, PendingOwned, Pending
    <2>3. Filled'
      BY <1>17 DEF HandlerTake, Exclusive, Holding, Filled, PendingOwned, Pending, HandlerLocals
    <2>4. PendingOwned'
      BY <1>17 DEF HandlerTake, Exclusive, Holding, Filled, PendingOwned, PendingOnce, Pending, HandlerLocals
    <2>5. PendingOnce'
      BY <1>17 DEF HandlerTake, Exclusive, Holding, PendingOwned, PendingOnce, Pending, HandlerLocals
    <2>6. HandlerLocals'
      BY <1>17 DEF HandlerTake, HandlerLocals, Exclusive, Holding, PendingOwned, Pending
    <2> QED BY ONLY <2>0, <2>1, <2>2, <2>3, <2>4, <2>5, <2>6 DEF IInv
  <1>18. CASE CmdDone
    <2>0. TypeOK'
      BY ONLY TypeStep, IInv, <1>18 DEF IInv, Next, ThreadStep, TaskStep, Handler
    <2>1. Exclusive'
      BY <1>18 DEF CmdDone, Scrubbed, Exclusive, Holding, HandlerLocals, PendingOwned, Pending
    <2>2. Holding'
      BY <1>18 DEF CmdDone, Scrubbed, Holding, HandlerLocals, PendingOwned, Pending
    <2>3. Filled'
      BY <1>18 DEF CmdDone, Scrubbed, Exclusive, Holding, Filled, PendingOwned, Pending, HandlerLocals
    <2>4. PendingOwned'
      BY <1>18 DEF CmdDone, Scrubbed, Exclusive, Holding, Filled, PendingOwned, PendingOnce, Pending, HandlerLocals
    <2>5. PendingOnce'
      BY <1>18 DEF CmdDone, Scrubbed, Exclusive, Holding, PendingOwned, PendingOnce, Pending, HandlerLocals
    <2>6. HandlerLocals'
      BY <1>18 DEF CmdDone, Scrubbed, HandlerLocals, Exclusive, Holding, PendingOwned, Pending
    <2> QED BY ONLY <2>0, <2>1, <2>2, <2>3, <2>4, <2>5, <2>6 DEF IInv
  <1>19. CASE CompleteTask
    <2>0. TypeOK'
      BY ONLY TypeStep, IInv, <1>19 DEF IInv, Next, ThreadStep, TaskStep, Handler
    <2>1. Exclusive'
      BY <1>19 DEF CompleteTask, Exclusive, Holding, HandlerLocals, PendingOwned, Pending
    <2>2. Holding'
      BY <1>19 DEF CompleteTask, Holding, HandlerLocals, PendingOwned, Pending
    <2>3. Filled'
      BY <1>19 DEF CompleteTask, Exclusive, Holding, Filled, PendingOwned, Pending, HandlerLocals
    <2>4. PendingOwned'
      BY <1>19 DEF CompleteTask, Exclusive, Holding, Filled, PendingOwned, PendingOnce, Pending, HandlerLocals
    <2>5. PendingOnce'
      BY <1>19 DEF CompleteTask, Exclusive, Holding, PendingOwned, PendingOnce, Pending, HandlerLocals
    <2>6. HandlerLocals'
      BY <1>19 DEF CompleteTask, HandlerLocals, Exclusive, Holding, PendingOwned, Pending
    <2> QED BY ONLY <2>0, <2>1, <2>2, <2>3, <2>4, <2>5, <2>6 DEF IInv
  <1>20. CASE ExecDone
    <2>0. TypeOK'
      BY ONLY TypeStep, IInv, <1>20 DEF IInv, Next, ThreadStep, TaskStep, Handler
    <2>1. Exclusive'
      BY <1>20 DEF ExecDone, Exclusive, Holding, HandlerLocals, PendingOwned, Pending
    <2>2. Holding'
      BY <1>20 DEF ExecDone, Holding, HandlerLocals, PendingOwned, Pending
    <2>3. Filled'
      BY <1>20 DEF ExecDone, Exclusive, Holding, Filled, PendingOwned, Pending, HandlerLocals
    <2>4. PendingOwned'
      BY <1>20 DEF ExecDone, Exclusive, Holding, Filled, PendingOwned, PendingOnce, Pending, HandlerLocals
    <2>5. PendingOnce'
      BY <1>20 DEF ExecDone, Exclusive, Holding, PendingOwned, PendingOnce, Pending, HandlerLocals
    <2>6. HandlerLocals'
      BY <1>20 DEF ExecDone, HandlerLocals, Exclusive, Holding, PendingOwned, Pending
    <2> QED BY ONLY <2>0, <2>1, <2>2, <2>3, <2>4, <2>5, <2>6 DEF IInv
  <1>21. CASE HandlerEnd
    <2>0. TypeOK'
      BY ONLY TypeStep, IInv, <1>21 DEF IInv, Next, ThreadStep, TaskStep, Handler
    <2>1. Exclusive'
      BY <1>21 DEF HandlerEnd, Exclusive, Holding, HandlerLocals, PendingOwned, Pending
    <2>2. Holding'
      BY <1>21 DEF HandlerEnd, Holding, HandlerLocals, PendingOwned, Pending
    <2>3. Filled'
      BY <1>21 DEF HandlerEnd, Exclusive, Holding, Filled, PendingOwned, Pending, HandlerLocals
    <2>4. PendingOwned'
      BY <1>21 DEF HandlerEnd, Exclusive, Holding, Filled, PendingOwned, PendingOnce, Pending, HandlerLocals
    <2>5. PendingOnce'
      BY <1>21 DEF HandlerEnd, Exclusive, Holding, PendingOwned, PendingOnce, Pending, HandlerLocals
    <2>6. HandlerLocals'
      BY <1>21 DEF HandlerEnd, HandlerLocals, Exclusive, Holding, PendingOwned, Pending
    <2> QED BY ONLY <2>0, <2>1, <2>2, <2>3, <2>4, <2>5, <2>6 DEF IInv
  <1>22. CASE UNCHANGED vars
    BY <1>22 DEF vars, Exclusive, Holding, Filled, PendingOwned, PendingOnce, Pending, HandlerLocals
  <1> QED
    BY <1>1, <1>2, <1>3, <1>4, <1>5, <1>6, <1>7, <1>8, <1>9, <1>10, <1>11,
       <1>12, <1>13, <1>14, <1>15, <1>16, <1>17, <1>18, <1>19, <1>20, <1>21, <1>22
       DEF Next, ThreadStep, TaskStep, Handler

(***************************************************************************)
(* With a firmware whose management replies are handled in time, the       *)
(* invariant holds in every reachable state.                               *)
(***************************************************************************)
THEOREM Inductive == Prompt => (Spec => []IInv)
  <1> SUFFICES ASSUME Prompt PROVE Spec => []IInv
    OBVIOUS
  <1>1. IInv /\ [Next]_vars => IInv'
    BY IInvStep
  <1> QED BY InitIInv, <1>1, PTL DEF Spec

(***************************************************************************)
(* Every variable keeps its type.                                          *)
(***************************************************************************)
THEOREM TypeCorrect == Prompt => (Spec => []TypeOK)
  BY Inductive, PTL DEF IInv

(***************************************************************************)
(* Putccb, Getccb, CompleteTask: no ccb is ever in the pool and in use, or *)
(* in the hands of two requests.                                           *)
(***************************************************************************)
THEOREM CcbsExclusive == Prompt => (Spec => []Exclusive)
  BY Inductive, PTL DEF IInv

(***************************************************************************)
(* interruptHandler: every reply waiting in the queue belongs to a request *)
(* that waits for it, and is there once.                                   *)
(***************************************************************************)
THEOREM RepliesReachOwners == Prompt => (Spec => []RepliesOwned)
  <1>1. IInv => RepliesOwned
    <2> SUFFICES ASSUME IInv PROVE RepliesOwned OBVIOUS
    <2>1. ASSUME NEW s \in Slots, reply_q[s] # Invalid
          PROVE  /\ fwq[reply_q[s]] = 0 /\ reply_q[s] # hCcb
                 /\ \E th \in Threads : cmd[th] = reply_q[s] /\ pc[th] \in Waiting
                                         /\ ccb[reply_q[s]].ctx = th
      <3>1. reply_q[s] \in Ccbs
        BY <2>1 DEF IInv, TypeOK
      <3>2. Pending(reply_q[s])
        BY DEF Pending
      <3> QED BY <3>1, <3>2 DEF IInv, PendingOwned, PendingOnce
    <2>2. hpc = "call" => hCcb # Invalid
      BY DEF IInv, TypeOK, HandlerLocals
    <2> QED BY <2>1, <2>2 DEF RepliesOwned, IInv, PendingOnce
  <1> QED BY <1>1, Inductive, PTL

-----------------------------------------------------------------------------
(* The reply queue never overruns                                          *)

WindowInv == QueueWindow /\ SnapshotInWindow

\* One slot more than there are ccbs: the firmware and the handler count alike.
LEMMA SameAdvance == ASSUME NEW s \in Slots PROVE FwAdvance(s) = HandlerAdvance(s)
  <1>1. CASE s = MaxCmds
    <2>1. (s + 1) % (MaxCmds + 1) = 0
      BY <1>1, MaxCmdsNat
    <2> QED BY <1>1, <2>1 DEF FwAdvance, HandlerAdvance, RqEntries
  <1>2. CASE s # MaxCmds
    <2>1. s + 1 \in 0 .. MaxCmds
      BY <1>2, MaxCmdsNat DEF Slots
    <2>2. (s + 1) % (MaxCmds + 1) = s + 1
      BY <2>1, MaxCmdsNat
    <2> QED BY <1>2, <2>1, <2>2, MaxCmdsNat DEF FwAdvance, HandlerAdvance, RqEntries
  <1> QED BY <1>1, <1>2

\* Pigeonhole: while a frame is unanswered some slot besides the producer's is free.
LEMMA SpareSlot ==
  ASSUME IInv, NEW c \in Ccbs, fwq[c] > 0
  PROVE  \E s \in Slots \ {producer} : reply_q[s] = Invalid
  <1> DEFINE S == Slots \ {producer}
             T == Ccbs \ {c}
  <1> SUFFICES ASSUME \A s \in S : reply_q[s] # Invalid PROVE FALSE
    OBVIOUS
  <1>1. \A s \in S : reply_q[s] \in T
    <2> SUFFICES ASSUME NEW s \in S PROVE reply_q[s] \in T
      OBVIOUS
    <2>1. reply_q[s] \in Ccbs
      BY DEF IInv, TypeOK
    <2>2. fwq[reply_q[s]] = 0
      BY <2>1 DEF IInv, PendingOnce
    <2> QED BY <2>1, <2>2
  <1>2. IsFiniteSet(S) /\ Cardinality(S) = MaxCmds
    <2>1. IsFiniteSet(Slots) /\ Cardinality(Slots) = MaxCmds + 1
      <3>1. 0 \in Int /\ MaxCmds \in Int
        BY MaxCmdsNat
      <3>2. /\ IsFiniteSet(0 .. MaxCmds)
            /\ Cardinality(0 .. MaxCmds) = IF 0 > MaxCmds THEN 0 ELSE MaxCmds - 0 + 1
        BY ONLY <3>1, FS_Interval
      <3> QED BY <3>2, MaxCmdsNat DEF Slots
    <2>2. producer \in Slots
      BY DEF IInv, TypeOK
    <2>3. IsFiniteSet(S) /\ Cardinality(S) = Cardinality(Slots) - 1
      BY ONLY <2>1, <2>2, FS_RemoveElement
    <2> QED BY <2>1, <2>3, MaxCmdsNat
  <1>3. IsFiniteSet(T) /\ Cardinality(T) = MaxCmds - 1
    BY FS_RemoveElement DEF MaxCmds
  <1> DEFINE f == [s \in S |-> reply_q[s]]
  <1>4. f \in [S -> T]
    BY <1>1
  <1>5. Cardinality(T) < Cardinality(S)
    BY <1>2, <1>3, MaxCmdsNat
  <1>6. \E x, y \in S : x # y /\ f[x] = f[y]
    <2> HIDE DEF f, S, T
    <2> QED BY ONLY <1>2, <1>3, <1>4, <1>5, FS_PigeonHole
  <1> QED BY <1>6 DEF IInv, PendingOnce

LEMMA InitWindow == Init => WindowInv
  BY DEF Init, WindowInv, QueueWindow, SnapshotInWindow, ReadPosition, Between, Slots

LEMMA WindowStep ==
  ASSUME IInv, IInv', WindowInv, [Next]_vars PROVE WindowInv'
  <1> USE DEF WindowInv, QueueWindow, SnapshotInWindow
  <1> producer \in Slots /\ consumer \in Slots /\ hProducer \in Slots /\ hConsumer \in Slots
    BY DEF IInv, TypeOK
  <1> ReadPosition \in Slots
    BY DEF ReadPosition
  <1>1. ASSUME NEW c \in Ccbs, FwExecute(c) PROVE WindowInv'
    <2> DEFINE next == HandlerAdvance(producer)
    <2>1. producer' = next /\ ReadPosition' = ReadPosition
      BY <1>1, SameAdvance DEF FwExecute, ReadPosition, handlerVars
    <2>2. next # ReadPosition
      <3>1. PICK s \in Slots \ {producer} : reply_q[s] = Invalid
        BY <1>1, SpareSlot DEF FwExecute
      <3>2. ~ Between(ReadPosition, s, producer)
        BY <3>1
      <3> QED BY <3>1, <3>2, MaxCmdsNat DEF Between, HandlerAdvance, Slots
    <2>3. \A s \in Slots : Between(ReadPosition, s, next)
                             <=> Between(ReadPosition, s, producer) \/ s = producer
      BY <2>2, MaxCmdsNat DEF Between, HandlerAdvance, Slots
    <2>4. \A s \in Slots : reply_q'[s] # Invalid <=> reply_q[s] # Invalid \/ s = producer
      BY <1>1 DEF FwExecute, IInv, TypeOK
    <2>5. QueueWindow'
      BY <2>1, <2>3, <2>4
    <2>6. hpc' = hpc /\ hProducer' = hProducer /\ hConsumer' = hConsumer
      BY <1>1 DEF FwExecute, handlerVars
    <2>7. SnapshotInWindow'
      BY <2>1, <2>3, <2>6 DEF ReadPosition
    <2> QED BY <2>5, <2>7
  <1>2. CASE HandlerSnap
    BY <1>2 DEF HandlerSnap, queueVars, ReadPosition, Between
  <1>3. CASE HandlerTake
    <2>1. hConsumer # producer
      BY <1>3, MaxCmdsNat DEF HandlerTake, Between, Slots
    <2>2. ReadPosition = hConsumer /\ ReadPosition' = HandlerAdvance(hConsumer)
      BY <1>3 DEF HandlerTake, ReadPosition
    <2>3. \A s \in Slots : Between(HandlerAdvance(hConsumer), s, producer)
                             <=> Between(hConsumer, s, producer) /\ s # hConsumer
      BY <2>1, MaxCmdsNat DEF Between, HandlerAdvance, Slots
    <2>4. \A s \in Slots : reply_q'[s] # Invalid <=> reply_q[s] # Invalid /\ s # hConsumer
      BY <1>3 DEF HandlerTake, IInv, TypeOK
    <2>5. producer' = producer /\ hProducer' = hProducer /\ hConsumer' = HandlerAdvance(hConsumer)
      BY <1>3 DEF HandlerTake
    <2>6. QueueWindow'
      BY <2>2, <2>3, <2>4, <2>5
    <2>7. SnapshotInWindow'
      BY <1>3, <2>3, <2>5 DEF HandlerTake
    <2> QED BY <2>6, <2>7
  <1>4. CASE HandlerEnd
    BY <1>4 DEF HandlerEnd, ReadPosition
  <1>5. CASE CmdDone \/ CompleteTask \/ ExecDone
    BY <1>5 DEF CmdDone, CompleteTask, ExecDone, queueVars, ReadPosition
  <1>6. CASE HandlerStart \/ HandlerAck
    BY <1>6 DEF HandlerStart, HandlerAck, queueVars, ReadPosition
  <1>7. CASE UNCHANGED <<queueVars, handlerVars>>
    BY <1>7 DEF queueVars, handlerVars, ReadPosition
  <1>8. ASSUME NEW th \in Threads, Enter(th) \/ ThreadStep(th) PROVE UNCHANGED <<queueVars, handlerVars>>
    BY <1>8 DEF Enter, ThreadStep, Getccb, BuildExec, Post, Sleep, Deadline, ExecReturn, Putccb
  <1>9. ASSUME NEW t \in Tasks, TaskStep(t) PROVE UNCHANGED <<queueVars, handlerVars>>
    BY <1>9 DEF TaskStep, BuildTask, AnswerAtOnce
  <1>10. CASE FwRaise \/ Filter
    BY <1>7, <1>10 DEF FwRaise, Filter
  <1>11. CASE UNCHANGED vars
    BY <1>7, <1>11 DEF vars, queueVars, handlerVars
  <1> QED BY ONLY <1>1, <1>2, <1>3, <1>4, <1>5, <1>6, <1>7, <1>8, <1>9, <1>10, <1>11, [Next]_vars
          DEF Next, Handler

(***************************************************************************)
(* FwExecute, HandlerTake, HandlerEnd: the queue of max_cmds + 1 slots     *)
(* never overruns, and every slot the handler is shown holds a reply.      *)
(***************************************************************************)
THEOREM QueueNeverOverruns == Prompt => (Spec => []QueueWindow)
  <1> SUFFICES ASSUME Prompt PROVE Spec => []QueueWindow
    OBVIOUS
  <1>1. Init => WindowInv
    BY InitWindow
  <1>2. IInv /\ IInv' /\ WindowInv /\ [Next]_vars => WindowInv'
    BY WindowStep
  <1>3. WindowInv => QueueWindow
    BY DEF WindowInv
  <1> QED BY <1>1, <1>2, <1>3, Inductive, PTL DEF Spec
=============================================================================
