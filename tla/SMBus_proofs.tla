---------------------------- MODULE SMBus_proofs ----------------------------
(***************************************************************************)
(* The SMBus driver for any number of callers: types and the quiet bus in  *)
(* every run, truthful results and fresh bytes in the runs without faults, *)
(* and that the driver implements BusService.                              *)
(***************************************************************************)
EXTENDS SMBusRefinement, TLAPS

-----------------------------------------------------------------------------
(* Every run                                                               *)

LEMMA BytesOfTx == ASSUME NEW tx \in Txs, NEW k \in 0 .. 1 PROVE Byte(tx, k) \in Bytes
  BY DEF Bytes

LEMMA TypeInit == Init => TypeOK
  <1> SUFFICES ASSUME Init PROVE TypeOK
    OBVIOUS
  <1>1. 1 \in Lens /\ 0 \in 0 .. Serials - 1 /\ None \in Bytes
    BY LengthAssumption DEF Lens, Bytes
  <1>2. hs \subseteq Causes
    BY DEF Init, Causes
  <1> QED BY <1>1, <1>2 DEF Init, TypeOK, Ops

LEMMA RequestTyped ==
    ASSUME TypeOK, NEW c \in Callers, NEW r \in Requests(c)
    PROVE  r \in [op : Ops, len : Lens, sn : 0 .. Serials - 1]
  <1>1. 1 \in Lens /\ 0 \in 0 .. Serials - 1
    BY LengthAssumption DEF Lens
  <1>2. req[c].sn \in Nat /\ (req[c].sn + 1) % Serials \in 0 .. Serials - 1
    BY LengthAssumption DEF TypeOK
  <1> QED BY <1>1, <1>2 DEF Requests

LEMMA TypeStep == ASSUME TypeOK, [Next]_vars PROVE TypeOK'
  <1> USE DEF TypeOK, callerVars, driverVars, hwVars, intrVars
  <1>1. ASSUME NEW c \in Callers, LockI2CBus(c) \/ UnlockI2CBus(c) PROVE TypeOK'
    BY <1>1 DEF LockI2CBus, UnlockI2CBus
  <1>2. ASSUME NEW c \in Callers, Exec(c) PROVE TypeOK'
    <2>1. PICK r \in Requests(c) : req' = [req EXCEPT ![c] = r]
      BY <1>2 DEF Exec
    <2>2. r \in [op : Ops, len : Lens, sn : 0 .. Serials - 1]
      BY RequestTyped
    <2>3. <<None, None>> \in Bytes \X Bytes
      BY DEF Bytes
    <2> QED BY <1>2, <2>1, <2>2, <2>3 DEF Exec
  <1>3. ASSUME NEW c \in Callers, Setup(c) PROVE TypeOK'
    <2>1. Tx(c) \in Txs
      BY DEF Tx, Txs
    <2>2. req[c].len \in 1 .. MaxLen
      BY DEF Lens
    <2>3. req[c].len - 1 \in 0 .. 1
      BY <2>2, LengthAssumption
    <2>4. Byte(Tx(c), req[c].len - 1) \in Bytes
      BY <2>1, <2>3, BytesOfTx
    <2>5. xfer' \in [op : Ops \cup {"none"}, error : BOOLEAN, to : Callers \cup {None}, len : Lens]
      <3>1. CASE req[c].op = "read"
        <4>1. xfer' = [op |-> "read", error |-> FALSE, to |-> c, len |-> req[c].len]
          BY <1>3, <3>1 DEF Setup
        <4>2. req[c].len \in Lens /\ "read" \in Ops
          BY DEF Ops
        <4> QED BY <4>1, <4>2
      <3>2. CASE req[c].op # "read"
        BY <1>3, <3>2 DEF Setup, Ops
      <3> QED BY <3>1, <3>2
    <2>6. hd0' \in Bytes
      BY <1>3, <2>4 DEF Setup
    <2>7. UNCHANGED <<faults, holder, req, buf, ret, event, hs, hd1, running, fSt, hpc>>
          /\ pc' = [pc EXCEPT ![c] = "start"]
      BY <1>3 DEF Setup
    <2> QED BY <2>5, <2>6, <2>7
  <1>4. ASSUME NEW c \in Callers, HcStart(c) PROVE TypeOK'
    BY <1>4 DEF HcStart, Tx, Txs
  <1>5. ASSUME NEW c \in Callers, Wait(c) \/ Awake(c) \/ GiveUp(c) \/ Return(c) PROVE TypeOK'
    BY <1>5 DEF Wait, Awake, GiveUp, Return
  <1>6. CASE Complete
    <2>1. running \in Txs => Byte(running, 0) \in Bytes /\ Byte(running, 1) \in Bytes
      BY BytesOfTx
    <2>2. hd0' \in Bytes /\ hd1' \in Bytes
      BY <1>6, <2>1 DEF Complete
    <2>3. hs' \subseteq Causes
      BY <1>6 DEF Complete, Causes
    <2> QED BY <1>6, <2>2, <2>3 DEF Complete
  <1>7. CASE Alert \/ Filter \/ HandlerAck \/ HandlerWake
    BY <1>7 DEF Alert, Alerts, Filter, HandlerAck, HandlerWake, Causes
  <1>8. CASE HandlerData
    <2>1. buf' \in [Callers -> Bytes \X Bytes]
      <3>1. CASE xfer.to \in Callers
        <4> DEFINE b == <<hd0, IF xfer.len > 1 THEN hd1 ELSE buf[xfer.to][2]>>
        <4>1. buf[xfer.to][2] \in Bytes
          BY <3>1
        <4>2. b \in Bytes \X Bytes
          BY <4>1
        <4>3. buf' = buf \/ buf' = [buf EXCEPT ![xfer.to] = b]
          BY <1>8, <3>1 DEF HandlerData
        <4> HIDE DEF b
        <4> QED BY <4>2, <4>3
      <3>2. CASE xfer.to \notin Callers
        BY <1>8, <3>2 DEF HandlerData
      <3> QED BY <3>1, <3>2
    <2> QED BY <1>8, <2>1 DEF HandlerData
  <1>9. CASE UNCHANGED vars
    BY <1>9 DEF vars
  <1> QED BY ONLY <1>1, <1>2, <1>3, <1>4, <1>5, <1>6, <1>7, <1>8, <1>9, [Next]_vars
          DEF Next, CallerStep, Handler

\* Who is anywhere but idle has the bus lock.
Alone == \A c \in Callers : pc[c] # "idle" <=> holder = c

\* A caller past the look at the busy bit finds the controller idle.
IdleBus == \A c \in Callers : pc[c] \in {"setup", "start"} => running = None

LEMMA AloneStep ==
    ASSUME TypeOK, Alone, IdleBus, [Next]_vars
    PROVE  Alone' /\ IdleBus'
  <1> USE DEF TypeOK, Alone, IdleBus, callerVars, driverVars, hwVars, intrVars
  <1>n. None \notin Callers
    BY CallersAssumption
  <1>1. ASSUME NEW c \in Callers, LockI2CBus(c) \/ UnlockI2CBus(c) PROVE Alone' /\ IdleBus'
    BY <1>1, <1>n DEF LockI2CBus, UnlockI2CBus
  <1>2. ASSUME NEW c \in Callers, Exec(c) \/ Setup(c) \/ HcStart(c) PROVE Alone' /\ IdleBus'
    BY <1>2, <1>n DEF Exec, Setup, HcStart
  <1>3. ASSUME NEW c \in Callers, Wait(c) \/ Awake(c) \/ GiveUp(c) \/ Return(c)
        PROVE  Alone' /\ IdleBus'
    BY <1>3 DEF Wait, Awake, GiveUp, Return
  <1>4. CASE Complete \/ Alert \/ Filter \/ HandlerAck \/ HandlerData
    BY <1>4 DEF Complete, Alert, Filter, HandlerAck, HandlerData
  <1>5. CASE HandlerWake
    BY <1>5 DEF HandlerWake
  <1>6. CASE UNCHANGED vars
    BY <1>6 DEF vars
  <1> QED BY ONLY <1>1, <1>2, <1>3, <1>4, <1>5, <1>6, [Next]_vars DEF Next, CallerStep, Handler

LEMMA BusInductive == Spec => [](TypeOK /\ Alone /\ IdleBus)
  <1>1. Init => Alone /\ IdleBus
    BY CallersAssumption DEF Init, Alone, IdleBus
  <1> QED BY <1>1, TypeInit, TypeStep, AloneStep, PTL DEF Spec

\* Every value stays in its range, whatever faults a run has.
THEOREM BusTyped == Spec => []TypeOK
  BY BusInductive, PTL

(***************************************************************************)
(* "Wait for bus to be idle": whatever faults a run has, nobody touches    *)
(* the data registers or starts a transaction while one is running.        *)
(***************************************************************************)
THEOREM NobodyDisturbs == Spec => BusyUndisturbed
  <1>1. ASSUME IdleBus, NEW c \in Callers, pc[c] \in {"setup", "start"} PROVE running = None
    BY <1>1 DEF IdleBus
  <1>2. IdleBus /\ [Next]_vars =>
          [\A c \in Callers : pc[c] \in {"setup", "start"} /\ pc'[c] # pc[c] => running = None]_vars
    BY <1>1
  <1> QED BY <1>2, BusInductive, PTL DEF Spec, BusyUndisturbed

-----------------------------------------------------------------------------
(* Runs without faults                                                     *)

\* I2C_Transfer is what the caller asks for.
Asked(c) ==
    /\ xfer.op = req[c].op
    /\ xfer.op = "read" => xfer.to = c /\ xfer.len = req[c].len

\* The controller has run the caller's transaction and nothing else since.
Ran(c) ==
    /\ running = None /\ last.tx = Tx(c) /\ last.ok \in BOOLEAN
    /\ last.ok /\ req[c].op = "read" => hd0 = Byte(Tx(c), 0) /\ hd1 = Byte(Tx(c), 1)

\* The status that tells of the last transaction.
Cause == IF last.ok THEN {"INTR"} ELSE Errors

\* The handler has stored what the transaction came to.
Stored(c) ==
    /\ Ran(c) /\ hs = {} /\ (xfer.error <=> ~last.ok)
    /\ last.ok /\ req[c].op = "read" =>
          \A k \in 1 .. req[c].len : buf[c][k] = Byte(Tx(c), k - 1)

InWait == {"wait", "asleep", "awakened", "marker"}
Quiet  == running = None /\ hs = {} /\ hpc = "idle"

\* The stages between the start of a transaction and the event.
Started(c)  == running = Tx(c) /\ hs = {} /\ hpc = "idle" /\ ~event /\ ~xfer.error
Signalled(c) ==
    /\ Ran(c) /\ ~event /\ ~xfer.error
    /\ \/ hpc = "idle" /\ hs = Cause
       \/ hpc = "ack" /\ hs = Cause /\ fSt = Cause
       \/ hpc = "data" /\ hs = {} /\ fSt = Cause
Told(c) == hpc = "wake" /\ ~event /\ Stored(c)
Over(c) == Quiet /\ Stored(c)

Progress ==
    /\ (\A c \in Callers : pc[c] \notin InWait) => Quiet /\ ~event
    /\ \A c \in Callers :
          /\ pc[c] = "start" => Asked(c) /\ ~xfer.error
          /\ pc[c] \in {"wait", "asleep"} =>
                Asked(c) /\ (Started(c) \/ Signalled(c) \/ Told(c)
                             \/ (pc[c] = "wait" /\ event /\ Over(c)))
          /\ pc[c] = "awakened" => event /\ Over(c)
          /\ pc[c] = "marker" => ~event /\ Over(c)

Faultless == faults = {} => Progress /\ TruthfulReturn /\ ReadFresh

LEMMA FaultlessInit == Init => Faultless
  BY CallersAssumption DEF Init, Faultless, Progress, InWait, Quiet, TruthfulReturn, ReadFresh,
     Ended

\* One caller at one of the stages is all that Progress asks for.
LEMMA AtStage ==
    ASSUME NEW c \in Callers, \A a \in Callers : a # c => pc'[a] = "idle",
           \/ pc'[c] \in {"wait", "asleep"} /\ Asked(c)'
              /\ (Started(c)' \/ Signalled(c)' \/ Told(c)')
           \/ pc'[c] = "wait" /\ Asked(c)' /\ event' /\ Over(c)'
           \/ pc'[c] = "awakened" /\ event' /\ Over(c)'
           \/ pc'[c] = "marker" /\ ~event' /\ Over(c)'
    PROVE  Progress'
  <1> DEFINE Stage(a) ==
        /\ pc'[a] = "start" => (Asked(a) /\ ~xfer.error)'
        /\ pc'[a] \in {"wait", "asleep"} =>
              Asked(a)' /\ (Started(a)' \/ Signalled(a)' \/ Told(a)'
                            \/ (pc'[a] = "wait" /\ event' /\ Over(a)'))
        /\ pc'[a] = "awakened" => event' /\ Over(a)'
        /\ pc'[a] = "marker" => ~event' /\ Over(a)'
  <1>1. Stage(c)
    <2>1. CASE pc'[c] \in {"wait", "asleep"} /\ Asked(c)' /\ (Started(c)' \/ Signalled(c)' \/ Told(c)')
      BY <2>1
    <2>2. CASE pc'[c] = "wait" /\ Asked(c)' /\ event' /\ Over(c)'
      BY <2>2
    <2>3. CASE pc'[c] = "awakened" /\ event' /\ Over(c)'
      BY <2>3
    <2>4. CASE pc'[c] = "marker" /\ ~event' /\ Over(c)'
      BY <2>4
    <2> QED BY <2>1, <2>2, <2>3, <2>4
  <1>2. \A a \in Callers : a # c => Stage(a)
    OBVIOUS
  <1>3. pc'[c] \in InWait
    BY DEF InWait
  <1> QED BY <1>1, <1>2, <1>3 DEF Progress

LEMMA CallerProgress ==
    ASSUME TypeOK, Alone, IdleBus, faults = {}, Progress, NEW c \in Callers,
           LockI2CBus(c) \/ Exec(c) \/ CallerStep(c)
    PROVE  Progress'
  <1> USE DEF TypeOK, callerVars, driverVars, hwVars, intrVars
  <1>n. None \notin Callers
    BY CallersAssumption
  <1>a. \A a \in Callers : a # c => pc[a] = "idle" /\ pc'[a] = "idle"
    BY <1>n DEF Alone, LockI2CBus, Exec, CallerStep, UnlockI2CBus, Setup, HcStart, Wait, Awake,
       Return
  <1>1. CASE LockI2CBus(c) \/ UnlockI2CBus(c) \/ Exec(c) \/ Setup(c)
    <2>1. (\A a \in Callers : pc[a] \notin InWait) /\ pc'[c] \in {"idle", "locked", "setup", "start"}
      BY <1>1, <1>a DEF LockI2CBus, Exec, UnlockI2CBus, Setup, InWait
    <2>2. Quiet' /\ ~event'
      BY <1>1, <2>1 DEF Progress, Quiet, LockI2CBus, Exec, UnlockI2CBus, Setup
    <2>3. pc'[c] = "start" => (Asked(c) /\ ~xfer.error)'
      <3>1. CASE Setup(c)
        <4>1. req' = req /\ req[c].op \in {"read", "write"}
              /\ xfer' = IF req[c].op = "read"
                          THEN [op |-> "read", error |-> FALSE, to |-> c, len |-> req[c].len]
                          ELSE [xfer EXCEPT !.op = "write", !.error = FALSE]
          BY <3>1 DEF Setup, Ops
        <4>2. CASE req[c].op = "read"
          BY <4>1, <4>2 DEF Asked
        <4>3. CASE req[c].op = "write"
          BY <4>1, <4>3 DEF Asked
        <4> QED BY <4>1, <4>2, <4>3
      <3>2. CASE LockI2CBus(c) \/ UnlockI2CBus(c) \/ Exec(c)
        BY <3>2 DEF LockI2CBus, Exec, UnlockI2CBus
      <3> QED BY <1>1, <3>1, <3>2
    <2> QED BY <1>a, <2>1, <2>2, <2>3 DEF Progress
  <1>2. CASE HcStart(c)
    <2>1. pc[c] = "start" /\ pc'[c] = "wait" /\ running' = Tx(c)
          /\ UNCHANGED <<faults, holder, req, buf, ret, xfer, event, hs, hd0, hd1, last, fSt, hpc>>
      BY <1>2 DEF HcStart
    <2>2. Quiet /\ ~event /\ Asked(c) /\ ~xfer.error
      BY <1>a, <2>1 DEF Progress, InWait
    <2>3. Asked(c)' /\ Started(c)'
      BY <2>1, <2>2 DEF Asked, Started, Quiet, Tx
    <2>4. pc'[c] = "wait"
      BY <2>1
    <2> QED BY <1>a, <2>3, <2>4, AtStage
  <1>3. CASE Wait(c) \/ Awake(c)
    <2>1. ~event' /\ UNCHANGED <<faults, holder, req, buf, ret, xfer, running, hs, hd0, hd1, last, fSt, hpc>>
      BY <1>3 DEF Wait, Awake
    <2>2. /\ (Asked(c) => Asked(c)') /\ (Over(c) => Over(c)')
          /\ (Started(c) => Started(c)') /\ (Signalled(c) => Signalled(c)') /\ (Told(c) => Told(c)')
      BY <2>1 DEF Asked, Over, Started, Signalled, Told, Stored, Ran, Cause, Quiet, Tx
    <2>3. \/ pc[c] = "wait" /\ event /\ pc'[c] = "marker"
          \/ pc[c] = "wait" /\ ~event /\ pc'[c] = "asleep"
          \/ pc[c] = "awakened" /\ pc'[c] = "marker"
      BY <1>3 DEF Wait, Awake
    <2>4. event => ~Started(c) /\ ~Signalled(c) /\ ~Told(c)
      BY DEF Started, Signalled, Told
    <2> QED BY <1>a, <2>1, <2>2, <2>3, <2>4 DEF Progress, InWait
  <1>4. CASE Return(c)
    <2>1. pc[c] = "marker" /\ pc'[c] = "locked"
          /\ UNCHANGED <<faults, holder, req, buf, xfer, event, running, hs, hd0, hd1, last, fSt, hpc>>
      BY <1>4 DEF Return
    <2>2. Quiet' /\ ~event'
      BY <2>1 DEF Progress, Over, Quiet
    <2>3. \A a \in Callers : pc'[a] \in {"idle", "locked"}
      BY <1>a, <2>1
    <2> QED BY ONLY <2>2, <2>3 DEF Progress, InWait
  <1> QED BY <1>1, <1>2, <1>3, <1>4 DEF CallerStep

\* Who waits, waits alone.
LEMMA OneWaits ==
    ASSUME Alone, NEW c \in Callers, pc[c] # "idle"
    PROVE  \A a \in Callers : a # c => pc[a] = "idle"
  BY CallersAssumption DEF Alone

LEMMA CompleteProgress ==
    ASSUME TypeOK, Alone, IdleBus, faults = {}, Progress, Complete
    PROVE  Progress'
  <1> USE DEF callerVars, driverVars, intrVars
  <1>1. PICK c \in Callers : pc[c] \in {"wait", "asleep"} /\ Started(c) /\ Asked(c)
    <2>1. running # None
      BY DEF Complete
    <2>2. PICK c \in Callers : pc[c] \in InWait
      BY <2>1 DEF Progress, Quiet
    <2> QED BY <2>1, <2>2 DEF Progress, InWait, Over, Quiet, Told, Stored, Signalled, Ran
  <1>2. /\ running' = None /\ running = Tx(c) /\ running[1] = c
        /\ UNCHANGED <<faults, holder, pc, req, buf, ret, xfer, event, fSt, hpc>>
    BY <1>1 DEF Complete, Started, Tx
  <1>3. Ran(c)' /\ hs' = Cause'
    <2>0. Tx(c)' = Tx(c) /\ hs = {}
      BY <1>1, <1>2 DEF Tx, Started
    <2>1. \/ /\ hs' = {"INTR"}
             /\ req[c].op = "read" => hd0' = Byte(Tx(c), 0) /\ hd1' = Byte(Tx(c), 1)
             /\ last'.tx = Tx(c) /\ last'.ok = TRUE
          \/ hs' = Errors /\ last'.tx = Tx(c) /\ last'.ok = FALSE
      BY <1>2, <2>0 DEF Complete
    <2> QED BY <1>2, <2>0, <2>1 DEF Ran, Cause
  <1>4. Signalled(c)' /\ Asked(c)' /\ pc'[c] \in {"wait", "asleep"}
    BY <1>1, <1>2, <1>3 DEF Signalled, Started, Asked
  <1>5. \A a \in Callers : a # c => pc'[a] = "idle"
    BY <1>1, <1>2, OneWaits
  <1> QED BY <1>4, <1>5, AtStage

LEMMA HandlerProgress ==
    ASSUME TypeOK, Alone, IdleBus, faults = {}, Progress, Filter \/ Handler
    PROVE  Progress'
  <1> USE DEF callerVars, driverVars, hwVars
  <1>1. PICK c \in Callers : pc[c] \in {"wait", "asleep"} /\ (Signalled(c) \/ Told(c)) /\ Asked(c)
    <2>1. hs # {} \/ hpc # "idle"
      BY DEF Filter, Handler, HandlerAck, HandlerData, HandlerWake
    <2>2. PICK c \in Callers : pc[c] \in InWait
      BY <2>1 DEF Progress, Quiet
    <2> QED BY <2>1, <2>2 DEF Progress, InWait, Over, Quiet, Told, Started, Signalled
  <1>2. \A a \in Callers : a # c => pc[a] = "idle"
    BY <1>1, OneWaits
  <1>3. CASE Filter
    <2>1. hpc = "idle" /\ hpc' = "ack" /\ fSt' = hs /\ hs # {}
          /\ UNCHANGED <<faults, holder, pc, req, buf, ret, xfer, event, hs, hd0, hd1, running, last>>
      BY <1>3 DEF Filter
    <2>2. Signalled(c)' /\ Asked(c)'
      BY <1>1, <2>1 DEF Signalled, Told, Asked, Ran, Cause, Tx
    <2> QED BY <1>1, <1>2, <2>1, <2>2, AtStage
  <1>4. CASE HandlerAck
    <2>1. /\ hpc = "ack" /\ hs' = hs \ fSt /\ hpc' = (IF xfer.op = "none" THEN "idle" ELSE "data")
          /\ UNCHANGED <<faults, holder, pc, req, buf, ret, xfer, event, hd0, hd1, running, last, fSt>>
      BY <1>4 DEF HandlerAck
    <2>2. xfer.op # "none"
      BY <1>1 DEF Asked, TypeOK, Ops
    <2>3. hs' = {}
      BY <1>1, <2>1 DEF Signalled, Told
    <2>4. Signalled(c)' /\ Asked(c)'
      BY <1>1, <2>1, <2>2, <2>3 DEF Signalled, Told, Asked, Ran, Cause, Tx
    <2> QED BY <1>1, <1>2, <2>1, <2>4, AtStage
  <1>5. CASE HandlerData
    <2>1. hpc = "data" /\ hpc' = "wake"
          /\ UNCHANGED <<faults, holder, pc, req, ret, event, hs, hd0, hd1, running, last, fSt>>
      BY <1>5 DEF HandlerData
    <2>2. Ran(c) /\ ~event /\ ~xfer.error /\ hs = {} /\ fSt = Cause
      BY <1>1, <2>1 DEF Signalled, Told
    <2>3. Ran(c)' /\ Asked(c)'
      BY <1>1, <1>5, <2>1, <2>2 DEF Ran, Asked, Tx, HandlerData, TypeOK
    <2>4. xfer'.error <=> ~last'.ok
      BY <1>5, <2>1, <2>2 DEF HandlerData, Ran, Cause, Errors, TypeOK
    <2>5. last.ok /\ req[c].op = "read" =>
             \A k \in 1 .. req[c].len : buf'[c][k] = Byte(Tx(c), k - 1)
      <3> SUFFICES ASSUME last.ok, req[c].op = "read", NEW k \in 1 .. req[c].len
                   PROVE  buf'[c][k] = Byte(Tx(c), k - 1)
        OBVIOUS
      <3>1. buf' = [buf EXCEPT ![c] = <<hd0, IF req[c].len > 1 THEN hd1 ELSE @[2]>>]
        BY <1>1, <1>5, <2>2 DEF HandlerData, Asked, Cause, Errors
      <3>2. req[c].len \in Nat /\ (k = 1 \/ (k = 2 /\ req[c].len > 1))
        BY LengthAssumption DEF TypeOK, Lens
      <3> QED BY <2>2, <3>1, <3>2 DEF Ran, TypeOK
    <2>6. Told(c)'
      BY <2>1, <2>2, <2>3, <2>4, <2>5 DEF Told, Stored, Tx
    <2> QED BY <1>1, <1>2, <2>1, <2>3, <2>6, AtStage
  <1>6. CASE HandlerWake
    <2>1. hpc = "wake" /\ hpc' = "idle" /\ event' = TRUE
          /\ UNCHANGED <<faults, holder, req, buf, ret, xfer, hs, hd0, hd1, running, last, fSt>>
      BY <1>6 DEF HandlerWake
    <2>2. \A a \in Callers : pc'[a] = IF pc[a] = "asleep" THEN "awakened" ELSE pc[a]
      BY <1>6 DEF HandlerWake
    <2>3. Over(c)' /\ Asked(c)'
      BY <1>1, <2>1 DEF Told, Signalled, Over, Stored, Ran, Quiet, Asked, Tx
    <2>4. /\ pc'[c] \in {"wait", "awakened"}
          /\ \A a \in Callers : a # c => pc'[a] = "idle"
      BY <1>1, <1>2, <2>2
    <2> QED BY <2>1, <2>3, <2>4, AtStage
  <1> QED BY <1>3, <1>4, <1>5, <1>6 DEF Handler

\* What the last transaction of a caller came to.
Truth(c) ==
    holder = c /\ Ended(c) /\ ret[c] \in {"ok", "error"} =>
        last.tx = Tx(c) /\ (last.ok <=> ret[c] = "ok")
Fresh(c) ==
    Ended(c) /\ ret[c] = "ok" /\ req[c].op = "read" =>
        \A k \in 1 .. req[c].len : buf[c][k] = Byte(Tx(c), k - 1)

LEMMA ResultsStep ==
    ASSUME TypeOK, Alone, faults = {}, Progress, \A c \in Callers : Truth(c) /\ Fresh(c), [Next]_vars
    PROVE  \A c \in Callers : Truth(c)' /\ Fresh(c)'
  <1> USE DEF TypeOK, callerVars, driverVars, hwVars, intrVars
  <1>n. None \notin Callers
    BY CallersAssumption
  <1> SUFFICES ASSUME NEW c \in Callers PROVE Truth(c)' /\ Fresh(c)'
    OBVIOUS
  <1>0. Truth(c) /\ Fresh(c)
    OBVIOUS
  <1>1. ASSUME NEW a \in Callers, LockI2CBus(a) \/ UnlockI2CBus(a) \/ Exec(a)
        PROVE  Truth(c)' /\ Fresh(c)'
    <2>1. a # c => UNCHANGED <<req[c], buf[c], ret[c], pc[c]>> /\ holder' # c
      BY <1>1, <1>n DEF LockI2CBus, UnlockI2CBus, Exec, Alone
    <2>2. CASE a # c
      BY <1>0, <2>1, <2>2 DEF Truth, Fresh, Ended, Tx
    <2>3. CASE a = c /\ UnlockI2CBus(a)
      BY <1>0, <1>n, <2>3 DEF UnlockI2CBus, Truth, Fresh, Ended, Tx
    <2>4. CASE a = c /\ (LockI2CBus(a) \/ Exec(a))
      BY <2>4 DEF LockI2CBus, Exec, Truth, Fresh
    <2> QED BY <1>1, <2>2, <2>3, <2>4
  <1>2. ASSUME NEW a \in Callers, Setup(a) \/ HcStart(a) \/ Wait(a) \/ Awake(a)
        PROVE  Truth(c)' /\ Fresh(c)'
    <2>1. UNCHANGED <<holder, req, buf, ret, last>> /\ ~Ended(a)'
          /\ (a # c => pc'[c] = pc[c])
      BY <1>2 DEF Setup, HcStart, Wait, Awake, Ended
    <2> QED BY <1>0, <2>1 DEF Truth, Fresh, Ended, Tx
  <1>3. ASSUME NEW a \in Callers, GiveUp(a) PROVE FALSE
    BY <1>3 DEF GiveUp
  <1>4. ASSUME NEW a \in Callers, Return(a) PROVE Truth(c)' /\ Fresh(c)'
    <2>1. UNCHANGED <<holder, req, buf, last>>
          /\ (a # c => UNCHANGED <<ret[c], pc[c]>>)
      BY <1>4 DEF Return
    <2>2. CASE a # c
      BY <1>0, <2>1, <2>2 DEF Truth, Fresh, Ended, Tx
    <2>3. CASE a = c
      <3>1. Over(c) /\ ret'[c] = IF xfer.error THEN "error" ELSE "ok"
        BY <1>4, <2>3 DEF Return, Progress
      <3>2. last.tx = Tx(c) /\ (last.ok <=> ret'[c] = "ok")
        BY <3>1 DEF Over, Stored, Ran
      <3>3. ret'[c] = "ok" /\ req[c].op = "read" =>
              \A k \in 1 .. req[c].len : buf[c][k] = Byte(Tx(c), k - 1)
        BY <3>1, <3>2 DEF Over, Stored
      <3> QED BY <2>1, <3>2, <3>3 DEF Truth, Fresh, Tx
    <2> QED BY <2>2, <2>3
  <1>5. CASE Complete
    <2>1. UNCHANGED <<holder, pc, req, buf, ret>> /\ running # None
      BY <1>5 DEF Complete
    <2>2. holder = c => ~Ended(c)
      <3>1. PICK a \in Callers : pc[a] \in InWait
        BY <2>1 DEF Progress, Quiet
      <3> QED BY <3>1 DEF Alone, InWait, Ended
    <2> QED BY <1>0, <2>1, <2>2 DEF Truth, Fresh, Ended, Tx
  <1>6. CASE HandlerData
    <2>1. UNCHANGED <<holder, pc, req, ret, last>> /\ hpc = "data"
      BY <1>6 DEF HandlerData
    <2>2. Ended(c) => buf'[c] = buf[c]
      <3>1. PICK a \in Callers : pc[a] \in {"wait", "asleep"} /\ Asked(a)
        <4>1. PICK a \in Callers : pc[a] \in InWait
          BY <2>1 DEF Progress, Quiet
        <4> QED BY <2>1, <4>1 DEF Progress, InWait, Over, Quiet
      <3>2. xfer.op = "read" => xfer.to = a
        BY <3>1 DEF Asked
      <3> QED BY <1>6, <3>1, <3>2 DEF HandlerData, Ended
    <2> QED BY <1>0, <2>1, <2>2 DEF Truth, Fresh, Ended, Tx
  <1>7. CASE HandlerWake
    <2>1. UNCHANGED <<holder, req, buf, ret, last>> /\ (Ended(c)' => Ended(c))
      BY <1>7 DEF HandlerWake, Ended
    <2> QED BY <1>0, <2>1 DEF Truth, Fresh, Tx
  <1>8. CASE Alert \/ Filter \/ HandlerAck \/ UNCHANGED vars
    <2>1. UNCHANGED <<holder, pc, req, buf, ret, last>>
      BY <1>8 DEF Alert, Filter, HandlerAck, vars
    <2> QED BY <1>0, <2>1 DEF Truth, Fresh, Ended, Tx
  <1> QED BY ONLY <1>1, <1>2, <1>3, <1>4, <1>5, <1>6, <1>7, <1>8, [Next]_vars
          DEF Next, CallerStep, Handler

LEMMA FaultlessStep ==
    ASSUME TypeOK, Alone, IdleBus, Faultless, [Next]_vars
    PROVE  Faultless'
  <1>1. faults' = faults
    BY DEF Next, CallerStep, Handler, LockI2CBus, UnlockI2CBus, Exec, Setup, HcStart, Wait, Awake,
           GiveUp, Return, Complete, Alert, Filter, HandlerAck, HandlerData, HandlerWake,
              callerVars, vars
  <1> SUFFICES ASSUME faults = {} PROVE Progress' /\ \A c \in Callers : Truth(c)' /\ Fresh(c)'
    BY <1>1 DEF Faultless, TruthfulReturn, ReadFresh, Truth, Fresh
  <1>2. Progress /\ \A c \in Callers : Truth(c) /\ Fresh(c)
    BY DEF Faultless, TruthfulReturn, ReadFresh, Truth, Fresh
  <1>3. Progress'
    <2>1. ASSUME NEW c \in Callers, LockI2CBus(c) \/ Exec(c) \/ CallerStep(c) PROVE Progress'
      BY <1>2, <2>1, CallerProgress
    <2>2. ASSUME NEW c \in Callers, GiveUp(c) PROVE FALSE
      BY <2>2 DEF GiveUp
    <2>3. CASE Alert
      BY <2>3 DEF Alert
    <2>4. CASE UNCHANGED vars
      BY <1>2, <2>4, SMTT(60) DEF vars, Progress, Asked, Ran, Cause, Stored, InWait, Quiet, Started,
            Signalled, Told, Over, Tx
    <2>5. Complete => Progress'
      BY <1>2, CompleteProgress
    <2>6. Filter \/ Handler => Progress'
      BY <1>2, HandlerProgress
    <2> QED BY ONLY <2>1, <2>2, <2>3, <2>4, <2>5, <2>6, [Next]_vars DEF Next
  <1> QED BY <1>2, <1>3, ResultsStep

LEMMA FaultlessInductive == Spec => []Faultless
  BY FaultlessInit, FaultlessStep, BusInductive, PTL DEF Spec

(***************************************************************************)
(* I2CExec: for any number of callers, without faults, whoever returned    *)
(* from a transaction was told what the controller made of this very one.  *)
(***************************************************************************)
THEOREM ReturnsTruthful == Spec => []TruthfulReturn
  <1>1. Faultless => TruthfulReturn
    BY DEF Faultless, TruthfulReturn
  <1> QED BY <1>1, FaultlessInductive, PTL

(***************************************************************************)
(* I2CExec and interruptHandler: without faults, all the bytes of a read   *)
(* that returned 0 are this very transaction's.                            *)
(***************************************************************************)
THEOREM ReadsFresh == Spec => []ReadFresh
  <1>1. Faultless => ReadFresh
    BY DEF Faultless, ReadFresh
  <1> QED BY <1>1, FaultlessInductive, PTL

\* Nobody but a waiting caller has bytes stored into its buffer.
LEMMA EndedUntouched ==
    ASSUME TypeOK, Faultless, faults = {}, HandlerData, NEW c \in Callers, Ended(c)
    PROVE  buf'[c] = buf[c]
  <1>1. hpc = "data"
    BY DEF HandlerData
  <1>2. PICK a \in Callers : pc[a] \in InWait
    BY <1>1 DEF Faultless, Progress, Quiet
  <1>3. pc[a] \in {"wait", "asleep"} /\ Asked(a)
    BY <1>1, <1>2 DEF Faultless, Progress, InWait, Over, Quiet
  <1> QED BY <1>3 DEF HandlerData, Asked, Ended, TypeOK

(***************************************************************************)
(* interruptHandler: without faults, it writes only into the buffer of a   *)
(* caller that waits for its bytes.                                        *)
(***************************************************************************)
THEOREM BuffersLive == Spec => BufferLive
  <1>1. ASSUME TypeOK, Faultless, [Next]_vars, faults = {}, NEW c \in Callers, buf'[c] # buf[c]
        PROVE  ~Ended(c) \/ buf'[c] = <<None, None>>
    <2>2. CASE \E a \in Callers : Exec(a)
      BY <1>1, <2>2 DEF Exec, TypeOK
    <2>3. CASE HandlerData
      BY <1>1, <2>3, EndedUntouched
    <2>4. CASE UNCHANGED buf
      BY <1>1, <2>4
    <2> QED BY ONLY <1>1, <2>2, <2>3, <2>4
            DEF Next, CallerStep, Handler, LockI2CBus, UnlockI2CBus, Setup, HcStart, Wait, Awake,
                GiveUp, Return, Complete, Alert, Filter, HandlerAck, HandlerWake, callerVars, vars
  <1>2. TypeOK /\ Faultless /\ [Next]_vars =>
          [faults = {} => \A c \in Callers :
              buf'[c] # buf[c] => ~Ended(c) \/ buf'[c] = <<None, None>>]_vars
    BY <1>1
  <1> QED BY <1>2, BusInductive, FaultlessInductive, PTL DEF Spec, BufferLive
-----------------------------------------------------------------------------
(* The bus service                                                         *)

\* A step that leaves alone what the other callers, all idle, see.
LEMMA OneMoves ==
    ASSUME NEW c \in Callers, faults' = faults,
           \A a \in Callers : a # c =>
              /\ pc[a] = "idle" /\ pc'[a] = "idle" /\ UNCHANGED <<req[a], ret[a]>>
              /\ faults = {} => buf'[a] = buf[a]
    PROVE  /\ reliableBar' = reliableBar
           /\ askedBar' = [askedBar EXCEPT ![c] = AskedOf(c)'] /\ askedBar[c] = AskedOf(c)
           /\ AskedOf(c)' = AskedOf(c) => askedBar' = askedBar
           /\ ranBar' = [ranBar EXCEPT ![c] = RanOf(c)'] /\ ranBar[c] = RanOf(c)
           /\ RanOf(c)' = RanOf(c) => ranBar' = ranBar
           /\ answerBar' = [answerBar EXCEPT ![c] = AnswerOf(c)']
           /\ AnswerOf(c)' = AnswerOf(c) => answerBar' = answerBar
  <1>1. ASSUME NEW a \in Callers, a # c
        PROVE  AskedOf(a)' = AskedOf(a) /\ RanOf(a)' = RanOf(a) /\ AnswerOf(a)' = AnswerOf(a)
    <2>1. faults = {} => Given(a)' = Given(a)
      BY <1>1 DEF Given
    <2> QED BY <1>1, <2>1 DEF AskedOf, RanOf, AnswerOf, Ended
  <1>2. reliableBar' = reliableBar
    BY DEF reliableBar
  <1>3. /\ askedBar' = [askedBar EXCEPT ![c] = AskedOf(c)'] /\ askedBar[c] = AskedOf(c)
        /\ AskedOf(c)' = AskedOf(c) => askedBar' = askedBar
    BY <1>1 DEF askedBar
  <1>4. /\ ranBar' = [ranBar EXCEPT ![c] = RanOf(c)'] /\ ranBar[c] = RanOf(c)
        /\ RanOf(c)' = RanOf(c) => ranBar' = ranBar
    BY <1>1 DEF ranBar
  <1>5. /\ answerBar' = [answerBar EXCEPT ![c] = AnswerOf(c)']
        /\ AnswerOf(c)' = AnswerOf(c) => answerBar' = answerBar
    BY <1>1 DEF answerBar
  <1> QED BY <1>2, <1>3, <1>4, <1>5

\* A step of which no user takes notice.
LEMMA NobodyMoves ==
    ASSUME faults' = faults, holder' = holder,
           \A a \in Callers : /\ AskedOf(a)' = AskedOf(a) /\ RanOf(a)' = RanOf(a)
                              /\ AnswerOf(a)' = AnswerOf(a)
    PROVE  UNCHANGED Bus!vars
  BY DEF Bus!vars, reliableBar, askedBar, ranBar, answerBar

LEMMA BusInit == Init => Bus!Init
  <1> SUFFICES ASSUME Init PROVE Bus!Init
    OBVIOUS
  <1>1. \A c \in Callers : AskedOf(c) = None /\ RanOf(c) = "no" /\ AnswerOf(c) = Bus!Silence
    BY DEF Init, AskedOf, RanOf, AnswerOf, Ended, Bus!Silence
  <1>2. reliableBar \in BOOLEAN /\ holder = None
    BY DEF reliableBar, Init
  <1> QED BY <1>1, <1>2 DEF Bus!Init, askedBar, ranBar, answerBar

LEMMA CallerServes ==
    ASSUME TypeOK, Alone, Faultless, NEW c \in Callers,
           LockI2CBus(c) \/ Exec(c) \/ CallerStep(c) \/ GiveUp(c)
    PROVE  [Bus!Next]_(Bus!vars)
  <1> USE DEF callerVars, driverVars, hwVars, intrVars
  <1>n. None \notin Callers /\ req[c] # None
    BY CallersAssumption, NoneAssumption DEF TypeOK
  <1>o. /\ faults' = faults
        /\ \A a \in Callers : a # c =>
              /\ pc[a] = "idle" /\ pc'[a] = "idle" /\ UNCHANGED <<req[a], ret[a]>>
              /\ faults = {} => buf'[a] = buf[a]
    BY <1>n DEF TypeOK, Alone, LockI2CBus, Exec, CallerStep, UnlockI2CBus, Setup, HcStart, Wait,
       Awake, GiveUp, Return
  <1>1. CASE LockI2CBus(c)
    <2>1. pc[c] = "idle" /\ pc'[c] = "locked" /\ ret'[c] = "none" /\ holder = None /\ holder' = c
      BY <1>1 DEF LockI2CBus, TypeOK
    <2>2. /\ AskedOf(c) = None /\ AskedOf(c)' = None /\ RanOf(c) = "no" /\ RanOf(c)' = "no"
          /\ AnswerOf(c)' = Bus!Silence
      BY <2>1 DEF AskedOf, RanOf, AnswerOf, Ended, Bus!Silence
    <2>3. askedBar' = askedBar /\ ranBar' = ranBar
      BY <1>o, <2>2, OneMoves
    <2>4. Bus!Lock(c)
      BY <1>o, <2>1, <2>2, <2>3, OneMoves DEF Bus!Lock
    <2> QED BY <2>4 DEF Bus!Next
  <1>2. CASE UnlockI2CBus(c)
    <2>1. /\ pc[c] = "locked" /\ pc'[c] = "idle" /\ holder = c /\ holder' = None
          /\ UNCHANGED <<faults, req, buf, ret>>
      BY <1>2, <1>n DEF UnlockI2CBus, TypeOK, Alone
    <2>2. /\ AskedOf(c) = None /\ AskedOf(c)' = None /\ RanOf(c) = "no" /\ RanOf(c)' = "no"
          /\ AnswerOf(c)' = AnswerOf(c)
      BY <2>1 DEF AskedOf, RanOf, AnswerOf, Ended, Given
    <2>3. Bus!Unlock(c)
      BY <1>o, <2>1, <2>2, OneMoves DEF Bus!Unlock
    <2> QED BY <2>3 DEF Bus!Next
  <1>3. CASE Exec(c)
    <2>1. pc[c] = "locked" /\ holder = c /\ holder' = c /\ UNCHANGED running
      BY <1>3 DEF Exec, Alone
    <2>2. AskedOf(c) = None /\ RanOf(c) = "no" /\ RanOf(c)' = "no"
      <3>1. pc'[c] \in {"locked", "setup"}
        BY <1>3, <2>1 DEF Exec, TypeOK
      <3> QED BY <2>1, <3>1 DEF AskedOf, RanOf, Ended
    <2>3. CASE running = None
      <3>1. pc'[c] = "setup"
        BY <1>3, <2>3 DEF Exec, TypeOK
      <3>2. AskedOf(c)' = req'[c] /\ AnswerOf(c)' = Bus!Silence
        BY <3>1 DEF AskedOf, AnswerOf, Ended, Bus!Silence
      <3>3. req'[c] \in [op : Ops, len : Lens, sn : 0 .. Serials - 1]
        BY <1>3, RequestTyped DEF Exec, TypeOK
      <3>4. Bus!Ask(c)
        BY <1>o, <2>1, <2>2, <3>2, <3>3, OneMoves DEF Bus!Ask
      <3> QED BY <3>4 DEF Bus!Next
    <2>4. CASE running # None
      <3>1. pc'[c] = "locked" /\ ret'[c] = "refused"
        BY <1>3, <2>1, <2>4 DEF Exec, TypeOK
      <3>2. AskedOf(c)' = None /\ AnswerOf(c)' = [told |-> "refused", bytes |-> <<>>]
        BY <3>1 DEF AskedOf, AnswerOf, Ended
      <3>3. faults # {}
        <4>1. \A a \in Callers : pc[a] \notin InWait
          BY <1>o, <2>1 DEF InWait
        <4> QED BY <2>4, <4>1 DEF Faultless, Progress, Quiet
      <3>4. ~reliableBar
        BY <3>3 DEF reliableBar
      <3>5. Bus!Refuse(c)
        BY <1>o, <2>1, <2>2, <3>2, <3>4, OneMoves DEF Bus!Refuse
      <3> QED BY <3>5 DEF Bus!Next
    <2> QED BY <2>3, <2>4
  <1>4. CASE Setup(c) \/ HcStart(c) \/ Wait(c) \/ Awake(c)
    <2>1. /\ ~Ended(c) /\ ~Ended(c)' /\ UNCHANGED <<faults, holder, req, buf, ret, last>>
      BY <1>4 DEF Setup, HcStart, Wait, Awake, Ended, TypeOK
    <2>2. RanOf(c)' = RanOf(c)
      <3>1. CASE Setup(c) \/ HcStart(c)
        <4>1. \/ pc[c] \in {"setup", "start"} /\ pc'[c] = "start"
              \/ pc[c] = "start" /\ running' = Tx(c)
          BY <3>1 DEF Setup, HcStart, TypeOK
        <4>2. Tx(c) # None
          BY NoneAssumption DEF Tx, Txs, TypeOK
        <4> QED BY <4>1, <4>2 DEF RanOf
      <3>2. CASE Wait(c) \/ Awake(c)
        <4>1. /\ UNCHANGED running /\ pc[c] \in {"wait", "awakened"}
              /\ pc'[c] \in {"asleep", "marker"}
          BY <3>2 DEF Wait, Awake, TypeOK
        <4> QED BY <2>1, <4>1 DEF RanOf
      <3> QED BY <1>4, <3>1, <3>2
    <2>3. AskedOf(c)' = AskedOf(c) /\ AnswerOf(c)' = AnswerOf(c)
      BY <2>1 DEF AskedOf, AnswerOf
    <2> QED BY <1>o, <2>1, <2>2, <2>3, OneMoves DEF Bus!vars
  <1>5. CASE GiveUp(c)
    <2>1. /\ pc[c] = "asleep" /\ pc'[c] = "locked" /\ ret'[c] = "timeout" /\ faults # {}
          /\ holder = c /\ holder' = c
      BY <1>5 DEF GiveUp, TypeOK, Alone
    <2>2. /\ AskedOf(c) = req[c] /\ AskedOf(c)' = None /\ RanOf(c) = "no" /\ RanOf(c)' = "no"
          /\ AnswerOf(c)' = [told |-> "timeout", bytes |-> <<>>]
      BY <1>o, <2>1 DEF AskedOf, RanOf, AnswerOf, Ended
    <2>3. ~reliableBar /\ "timeout" \in Bus!Unreliable
      BY <2>1 DEF reliableBar, Bus!Unreliable
    <2>4. Bus!Return(c)
      BY <1>n, <1>o, <2>1, <2>2, <2>3, OneMoves DEF Bus!Return
    <2> QED BY <2>4 DEF Bus!Next
  <1>6. CASE Return(c)
    <2>1. /\ pc[c] = "marker" /\ pc'[c] = "locked" /\ holder = c
          /\ ret'[c] = IF xfer.error THEN "error" ELSE "ok"
          /\ UNCHANGED <<faults, holder, req, buf, xfer, running, last>>
      BY <1>6 DEF Return, TypeOK, Alone
    <2>2. AskedOf(c) = req[c] /\ AskedOf(c)' = None /\ RanOf(c)' = "no"
      BY <2>1 DEF AskedOf, RanOf, Ended
    <2>3. CASE faults = {}
      <3>1. Over(c)
        BY <2>1, <2>3 DEF Faultless, Progress
      <3>2. RanOf(c) = ret'[c] /\ ret'[c] \in {"ok", "error"}
        BY <2>1, <2>3, <3>1 DEF RanOf, Over, Stored, Ran
      <3>3. ASSUME ret'[c] = "ok", req[c].op = "read" PROVE Given(c)' = Bus!BytesOf(c, req[c])
        BY <2>1, <3>1, <3>3 DEF Given, Bus!BytesOf, Over, Stored, Ran, Byte, Tx
      <3>4. AnswerOf(c)' = Bus!Verdict(c)
        <4>1. AnswerOf(c)' =
                [told |-> ret'[c],
                 bytes |-> IF ret'[c] = "ok" /\ req[c].op = "read" THEN Given(c)' ELSE <<>>]
          BY <2>1, <2>3 DEF AnswerOf, Ended
        <4>2. ranBar[c] = ret'[c] /\ askedBar[c] = req[c]
          BY <1>o, <2>2, <3>2, OneMoves
        <4> QED BY <3>3, <4>1, <4>2 DEF Bus!Verdict
      <3>5. Bus!Return(c)
        BY <1>n, <1>o, <2>1, <2>2, <2>3, <3>2, <3>4, OneMoves DEF Bus!Return, reliableBar
      <3> QED BY <3>5 DEF Bus!Next
    <2>4. CASE faults # {}
      <3>1. AnswerOf(c)' = [told |-> ret'[c], bytes |-> <<>>] /\ ret'[c] \in Bus!Unreliable
        BY <1>o, <2>1, <2>4 DEF AnswerOf, Ended, Bus!Unreliable
      <3>2. ~reliableBar
        BY <2>4 DEF reliableBar
      <3>3. Bus!Return(c)
        BY <1>n, <1>o, <2>1, <2>2, <3>1, <3>2, OneMoves DEF Bus!Return
      <3> QED BY <3>3 DEF Bus!Next
    <2> QED BY <2>3, <2>4
  <1> QED BY <1>1, <1>2, <1>3, <1>4, <1>5, <1>6 DEF CallerStep

LEMMA ControllerServes ==
    ASSUME TypeOK, Alone, Faultless, Complete
    PROVE  [Bus!Next]_(Bus!vars)
  <1> USE DEF callerVars, driverVars, intrVars
  <1>1. running # None /\ running' = None /\ UNCHANGED <<faults, holder, pc, req, buf, ret>>
    BY DEF Complete
  <1>2. \A a \in Callers : AskedOf(a)' = AskedOf(a) /\ AnswerOf(a)' = AnswerOf(a)
    BY <1>1 DEF AskedOf, AnswerOf, Ended, Given
  <1>3. CASE faults = {}
    <2>1. PICK c \in Callers : pc[c] \in InWait
      BY <1>1, <1>3 DEF Faultless, Progress, Quiet
    <2>2. /\ pc[c] \in {"wait", "asleep"}
          /\ \A a \in Callers : a # c => pc[a] = "idle"
      BY <1>1, <1>3, <2>1, OneWaits DEF Faultless, Progress, InWait, Over, Quiet
    <2>3. AskedOf(c) = req[c] /\ req[c] # None
      BY <2>2, NoneAssumption DEF AskedOf, Ended, TypeOK
    <2>4. RanOf(c) = "no" /\ RanOf(c)' \in {"ok", "error"}
      BY <1>1, <1>3, <2>2 DEF RanOf
    <2>5. reliableBar
      BY <1>3 DEF reliableBar
    <2>6. Bus!Run(c)
      BY <1>1, <1>2, <2>2, <2>3, <2>4, <2>5, OneMoves DEF Bus!Run
    <2> QED BY <2>6 DEF Bus!Next
  <1>4. CASE faults # {}
    <2>1. \A a \in Callers : RanOf(a)' = RanOf(a)
      BY <1>1, <1>4 DEF RanOf
    <2> QED BY <1>1, <1>2, <2>1, NobodyMoves
  <1> QED BY <1>3, <1>4

LEMMA InterruptUnseen ==
    ASSUME TypeOK, Faultless, Alert \/ Filter \/ Handler \/ UNCHANGED vars
    PROVE  UNCHANGED Bus!vars
  <1> USE DEF callerVars, driverVars, hwVars, intrVars
  <1>1. UNCHANGED <<faults, holder, req, ret, running, last>>
    BY DEF Alert, Filter, Handler, HandlerAck, HandlerData, HandlerWake, vars
  <1>2. \A a \in Callers : pc'[a] = pc[a] \/ (pc[a] = "asleep" /\ pc'[a] = "awakened")
    BY DEF Alert, Filter, Handler, HandlerAck, HandlerData, HandlerWake, vars, TypeOK
  <1>3. ASSUME NEW a \in Callers, faults = {}, Ended(a) PROVE buf'[a] = buf[a]
    <2>1. CASE HandlerData
      BY <1>3, <2>1, EndedUntouched
    <2>2. CASE UNCHANGED buf
      BY <2>2
    <2> QED BY <2>1, <2>2 DEF Alert, Filter, Handler, HandlerAck, HandlerWake, vars
  <1>4. ASSUME NEW a \in Callers
        PROVE  AskedOf(a)' = AskedOf(a) /\ RanOf(a)' = RanOf(a) /\ AnswerOf(a)' = AnswerOf(a)
    <2>1. Ended(a)' <=> Ended(a)
      BY <1>2 DEF Ended
    <2>2. AskedOf(a)' = AskedOf(a) /\ RanOf(a)' = RanOf(a)
      BY <1>1, <1>2, <2>1 DEF AskedOf, RanOf
    <2>3. AnswerOf(a)' = AnswerOf(a)
      BY <1>1, <1>3, <2>1 DEF AnswerOf, Given
    <2> QED BY <2>2, <2>3
  <1> QED BY <1>1, <1>4, NobodyMoves

(***************************************************************************)
(* LockI2CBus, I2CExec, filter and handler implement BusService, for any   *)
(* number of callers: one owner at a time; and on a bus without faults     *)
(* each transaction runs once, and its caller is told how it ended and     *)
(* given its bytes, none of which change until it asks again.              *)
(***************************************************************************)
THEOREM BusImplemented == Spec => ImplementsBus
  <1>1. TypeOK /\ Alone /\ Faultless /\ [Next]_vars => [Bus!Next]_(Bus!vars)
    <2> SUFFICES ASSUME TypeOK, Alone, Faultless, [Next]_vars PROVE [Bus!Next]_(Bus!vars)
      OBVIOUS
    <2>1. \A c \in Callers : LockI2CBus(c) \/ Exec(c) \/ CallerStep(c) \/ GiveUp(c)
            => [Bus!Next]_(Bus!vars)
      BY CallerServes
    <2>2. Complete => [Bus!Next]_(Bus!vars)
      BY ControllerServes
    <2>3. Alert \/ Filter \/ Handler \/ UNCHANGED vars => UNCHANGED Bus!vars
      BY InterruptUnseen
    <2> QED BY <2>1, <2>2, <2>3 DEF Next
  <1> QED BY <1>1, BusInit, BusInductive, FaultlessInductive, PTL DEF Spec, ImplementsBus, Bus!Spec

-----------------------------------------------------------------------------
(* Every transaction ends                                                  *)

\* Somebody who sleeps, or is about to, has something to wait for, which will
\* not be taken for an interrupt from before the first transaction.
Awaited ==
    \A c \in Callers :
        /\ pc[c] \in {"start", "wait", "asleep"} => xfer.op # "none"
        /\ pc[c] = "asleep" \/ (pc[c] = "wait" /\ ~event) =>
              running # None \/ hs # {} \/ hpc # "idle"

LEMMA AwaitedStep ==
    ASSUME TypeOK, Alone, Awaited, [Next]_vars
    PROVE  Awaited'
  <1> USE DEF TypeOK, Awaited, callerVars, driverVars, hwVars, intrVars
  <1>n. None \notin Callers /\ \A c \in Callers : Tx(c) # None
    BY CallersAssumption, NoneAssumption DEF Tx, Txs
  <1>1. ASSUME NEW c \in Callers, LockI2CBus(c) \/ Exec(c) \/ CallerStep(c) \/ GiveUp(c)
        PROVE  Awaited'
    <2>1. \A a \in Callers : a # c => pc'[a] = "idle"
      BY <1>1, <1>n DEF Alone, LockI2CBus, Exec, CallerStep, UnlockI2CBus, Setup, HcStart, Wait,
         Awake, GiveUp, Return
    <2>2. CASE Setup(c)
      <3>1. \/ xfer' = [op |-> "read", error |-> FALSE, to |-> c, len |-> req[c].len]
            \/ xfer' = [xfer EXCEPT !.op = "write", !.error = FALSE]
        BY <2>2 DEF Setup
      <3>2. pc'[c] = "start"
        BY <2>2 DEF Setup
      <3>3. xfer'.op # "none"
        <4>1. CASE xfer' = [op |-> "read", error |-> FALSE, to |-> c, len |-> req[c].len]
          BY <4>1
        <4>2. CASE xfer' = [xfer EXCEPT !.op = "write", !.error = FALSE]
          BY <4>2
        <4> QED BY <3>1, <4>1, <4>2
      <3> QED BY <2>1, <3>2, <3>3
    <2>3. CASE HcStart(c)
      BY <1>n, <2>1, <2>3 DEF HcStart
    <2>4. CASE Wait(c)
      BY <2>1, <2>4 DEF Wait
    <2>5. CASE LockI2CBus(c) \/ Exec(c) \/ UnlockI2CBus(c) \/ Awake(c) \/ GiveUp(c) \/ Return(c)
      <3>1. pc'[c] \in {"idle", "locked", "setup", "marker"}
        BY <2>5 DEF LockI2CBus, Exec, UnlockI2CBus, Awake, GiveUp, Return
      <3> QED BY <2>1, <3>1
    <2> QED BY <1>1, <2>2, <2>3, <2>4, <2>5 DEF CallerStep
  <1>2. CASE Complete
    <2>1. hs' # {} /\ UNCHANGED <<pc, xfer, event>>
      BY <1>2 DEF Complete, Errors
    <2> QED BY <2>1
  <1>3. CASE Alert \/ Filter \/ HandlerAck
    BY <1>3 DEF Alert, Filter, HandlerAck
  <1>4. CASE HandlerData
    <2>1. xfer'.op = xfer.op /\ hpc' = "wake" /\ UNCHANGED <<pc, event>>
      BY <1>4 DEF HandlerData
    <2> QED BY <2>1
  <1>5. CASE HandlerWake
    BY <1>5 DEF HandlerWake
  <1>6. CASE UNCHANGED vars
    BY <1>6 DEF vars
  <1> QED BY ONLY <1>1, <1>2, <1>3, <1>4, <1>5, <1>6, [Next]_vars DEF Next, Handler

Waits == TypeOK /\ Alone /\ Awaited

LEMMA WaitsInductive == Spec => []Waits
  <1>1. Init => Awaited
    BY DEF Init, Awaited
  <1>2. TypeOK /\ Alone /\ Awaited /\ [Next]_vars => Awaited'
    BY AwaitedStep
  <1> QED BY <1>1, <1>2, BusInductive, PTL DEF Spec, Waits

\* The places a caller goes through, and where the interrupt is while it sleeps.
At(c, place)  == pc[c] = place
Sleeps(c, h)  == pc[c] = "asleep" /\ hpc = h
Runs(c)       == Sleeps(c, "idle") /\ running # None
Raised(c)     == Sleeps(c, "idle") /\ running = None
AwakeOrOver(c) == pc[c] \in {"awakened", "locked", "idle"}

\* Nobody else moves a caller that is at work.
LEMMA CallerPlaces ==
    ASSUME Waits, NEW c \in Callers, [Next]_vars, pc[c] \notin {"idle", "locked"}
    PROVE  /\ pc'[c] = pc[c] \/ CallerStep(c) \/ (pc[c] = "asleep" /\ AwakeOrOver(c)')
           /\ pc[c] = "setup" /\ CallerStep(c) => At(c, "start")'
           /\ pc[c] = "start" /\ CallerStep(c) => At(c, "wait")'
           /\ pc[c] = "wait" /\ CallerStep(c) => At(c, "marker")' \/ At(c, "asleep")'
           /\ pc[c] = "awakened" /\ CallerStep(c) => At(c, "marker")'
           /\ pc[c] = "marker" /\ CallerStep(c) => At(c, "locked")'
           /\ pc[c] = "asleep" => ~CallerStep(c)
  <1> USE DEF Waits, TypeOK, callerVars, driverVars, hwVars, intrVars, At, AwakeOrOver
  <1>1. /\ pc[c] = "setup" /\ CallerStep(c) => At(c, "start")'
        /\ pc[c] = "start" /\ CallerStep(c) => At(c, "wait")'
        /\ pc[c] = "wait" /\ CallerStep(c) => At(c, "marker")' \/ At(c, "asleep")'
        /\ pc[c] = "awakened" /\ CallerStep(c) => At(c, "marker")'
        /\ pc[c] = "marker" /\ CallerStep(c) => At(c, "locked")'
        /\ pc[c] = "asleep" => ~CallerStep(c)
    BY DEF CallerStep, UnlockI2CBus, Setup, HcStart, Wait, Awake, Return
  <1>2. ASSUME NEW a \in Callers, LockI2CBus(a) \/ Exec(a) \/ CallerStep(a) \/ GiveUp(a)
        PROVE  a = c
    BY <1>2, CallersAssumption DEF Alone, CallerStep, LockI2CBus, Exec, UnlockI2CBus, Setup, HcStart,
       Wait, Awake, GiveUp, Return
  <1>3. GiveUp(c) => pc[c] = "asleep" /\ pc'[c] = "locked"
    BY DEF GiveUp
  <1>4. ~LockI2CBus(c) /\ ~Exec(c)
    BY DEF LockI2CBus, Exec
  <1>5. Complete \/ Alert \/ Filter \/ Handler \/ UNCHANGED vars =>
          pc'[c] = pc[c] \/ (pc[c] = "asleep" /\ pc'[c] = "awakened")
    BY DEF Complete, Alert, Filter, Handler, HandlerAck, HandlerData, HandlerWake, vars
  <1> QED BY <1>1, <1>2, <1>3, <1>4, <1>5 DEF Next

\* While a caller sleeps, the interrupt goes its way.
LEMMA SleeperServed ==
    ASSUME Waits, NEW c \in Callers, pc[c] = "asleep", [Next]_vars
    PROVE  /\ Runs(c) => Runs(c)' \/ Raised(c)' \/ AwakeOrOver(c)'
           /\ Runs(c) /\ Complete => Raised(c)'
           /\ Raised(c) => hs # {}
           /\ Raised(c) => Raised(c)' \/ Sleeps(c, "ack")' \/ AwakeOrOver(c)'
           /\ Raised(c) /\ Filter => Sleeps(c, "ack")'
           /\ Sleeps(c, "ack") => Sleeps(c, "ack")' \/ Sleeps(c, "data")' \/ AwakeOrOver(c)'
           /\ Sleeps(c, "ack") /\ Handler => Sleeps(c, "data")'
           /\ Sleeps(c, "data") => Sleeps(c, "data")' \/ Sleeps(c, "wake")' \/ AwakeOrOver(c)'
           /\ Sleeps(c, "data") /\ Handler => Sleeps(c, "wake")'
           /\ Sleeps(c, "wake") => Sleeps(c, "wake")' \/ AwakeOrOver(c)'
           /\ Sleeps(c, "wake") /\ Handler => AwakeOrOver(c)'
  <1> USE DEF Waits, TypeOK, callerVars, driverVars, hwVars, intrVars, Sleeps, Runs, Raised
  <1>1. pc'[c] = "asleep" \/ AwakeOrOver(c)'
    BY CallerPlaces
  <1>2. hs # {} \/ running # None \/ hpc # "idle"
    BY DEF Awaited
  <1>3. xfer.op # "none"
    BY DEF Awaited
  <1>4. CASE Complete
    BY <1>1, <1>2, <1>4 DEF Complete, Handler, HandlerAck, HandlerData, HandlerWake, Filter
  <1>5. CASE Filter
    BY <1>1, <1>2, <1>5 DEF Complete, Handler, HandlerAck, HandlerData, HandlerWake, Filter
  <1>6. CASE Handler
    <2>1. CASE HandlerAck
      BY <1>1, <1>2, <1>3, <2>1 DEF Complete, HandlerAck, HandlerData, HandlerWake, Filter, Handler
    <2>2. CASE HandlerData
      BY <1>1, <1>2, <2>2 DEF Complete, HandlerAck, HandlerData, HandlerWake, Filter, Handler
    <2>3. CASE HandlerWake
      <3>1. AwakeOrOver(c)' /\ hpc = "wake"
        BY <2>3 DEF HandlerWake, AwakeOrOver
      <3> QED BY <1>2, <3>1, <2>3 DEF Complete, HandlerWake, Filter
    <2> QED BY <1>6, <2>1, <2>2, <2>3 DEF Handler
  <1>7. CASE UNCHANGED <<hpc, running>>
    BY <1>1, <1>2, <1>7 DEF Complete, HandlerAck, HandlerData, HandlerWake, Filter, Handler
  <1>8. ASSUME NEW a \in Callers, LockI2CBus(a) \/ Exec(a) \/ CallerStep(a) \/ GiveUp(a)
        PROVE  UNCHANGED <<hpc, running>>
    <2>1. a = c
      BY <1>8, CallersAssumption DEF Alone, CallerStep, LockI2CBus, Exec, UnlockI2CBus, Setup,
         HcStart, Wait, Awake, GiveUp, Return
    <2> QED BY <1>8, <2>1, CallerPlaces DEF LockI2CBus, Exec, GiveUp
  <1>9. Alert \/ UNCHANGED vars => UNCHANGED <<hpc, running>>
    BY DEF Alert, vars
  <1> QED BY ONLY <1>4, <1>5, <1>6, <1>7, <1>8, <1>9, [Next]_vars DEF Next

\* A premise of what follows, which TLC checks of every reachable state.
NeverStuck == []NobodyStuck

\* What a caller at work comes to, one step at a time.  Each step rests on the
\* fairness of one action, and on its being enabled.
LEMMA Comes ==
    ASSUME NEW c \in Callers
    PROVE  Spec /\ NeverStuck /\ Scheduled(c) /\ Served => (At(c, "setup") ~> Ended(c))
  <1>1. \A place \in {"setup", "start", "wait", "awakened", "marker"} :
           NobodyStuck /\ At(c, place) => ENABLED <<CallerStep(c)>>_vars
    BY DEF NobodyStuck, Ended, At
  <1>2. /\ Waits /\ At(c, "setup") /\ [Next]_vars => At(c, "setup")' \/ At(c, "start")'
        /\ Waits /\ At(c, "setup") /\ [Next]_vars /\ <<CallerStep(c)>>_vars => At(c, "start")'
        /\ NobodyStuck /\ At(c, "setup") => ENABLED <<CallerStep(c)>>_vars
    BY <1>1, CallerPlaces DEF At
  <1>3. /\ Waits /\ At(c, "start") /\ [Next]_vars => At(c, "start")' \/ At(c, "wait")'
        /\ Waits /\ At(c, "start") /\ [Next]_vars /\ <<CallerStep(c)>>_vars => At(c, "wait")'
        /\ NobodyStuck /\ At(c, "start") => ENABLED <<CallerStep(c)>>_vars
    BY <1>1, CallerPlaces DEF At
  <1>4. /\ Waits /\ At(c, "wait") /\ [Next]_vars
              => At(c, "wait")' \/ At(c, "marker")' \/ At(c, "asleep")'
        /\ Waits /\ At(c, "wait") /\ [Next]_vars /\ <<CallerStep(c)>>_vars
              => At(c, "marker")' \/ At(c, "asleep")'
        /\ NobodyStuck /\ At(c, "wait") => ENABLED <<CallerStep(c)>>_vars
    BY <1>1, CallerPlaces DEF At
  <1>5. /\ Waits /\ At(c, "awakened") /\ [Next]_vars => At(c, "awakened")' \/ At(c, "marker")'
        /\ Waits /\ At(c, "awakened") /\ [Next]_vars /\ <<CallerStep(c)>>_vars => At(c, "marker")'
        /\ NobodyStuck /\ At(c, "awakened") => ENABLED <<CallerStep(c)>>_vars
    BY <1>1, CallerPlaces DEF At
  <1>6. /\ Waits /\ At(c, "marker") /\ [Next]_vars => At(c, "marker")' \/ Ended(c)'
        /\ Waits /\ At(c, "marker") /\ [Next]_vars /\ <<CallerStep(c)>>_vars => Ended(c)'
        /\ NobodyStuck /\ At(c, "marker") => ENABLED <<CallerStep(c)>>_vars
    BY <1>1, CallerPlaces DEF At, Ended
  <1>7. AwakeOrOver(c) => At(c, "awakened") \/ Ended(c)
    BY DEF AwakeOrOver, At, Ended
  <1>8. /\ Waits /\ Runs(c) /\ [Next]_vars => Runs(c)' \/ Raised(c)' \/ AwakeOrOver(c)'
        /\ Waits /\ Runs(c) /\ [Next]_vars /\ <<Complete>>_vars => Raised(c)'
        /\ NobodyStuck /\ Runs(c) => ENABLED <<Complete>>_vars
    BY SleeperServed DEF NobodyStuck, Runs, Sleeps
  <1>9. /\ Waits /\ Raised(c) /\ [Next]_vars => Raised(c)' \/ Sleeps(c, "ack")' \/ AwakeOrOver(c)'
        /\ Waits /\ Raised(c) /\ [Next]_vars /\ <<Filter>>_vars => Sleeps(c, "ack")'
        /\ Waits /\ NobodyStuck /\ Raised(c) => ENABLED <<Filter>>_vars
    <2>1. Waits /\ Raised(c) => hs # {}
      BY DEF Waits, Awaited, Raised, Sleeps
    <2> QED BY <2>1, SleeperServed DEF NobodyStuck, Raised, Sleeps
  <1>10. /\ Waits /\ Sleeps(c, "ack") /\ [Next]_vars
               => Sleeps(c, "ack")' \/ Sleeps(c, "data")' \/ AwakeOrOver(c)'
         /\ Waits /\ Sleeps(c, "ack") /\ [Next]_vars /\ <<Handler>>_vars => Sleeps(c, "data")'
         /\ NobodyStuck /\ Sleeps(c, "ack") => ENABLED <<Handler>>_vars
    BY SleeperServed DEF NobodyStuck, Sleeps
  <1>11. /\ Waits /\ Sleeps(c, "data") /\ [Next]_vars
               => Sleeps(c, "data")' \/ Sleeps(c, "wake")' \/ AwakeOrOver(c)'
         /\ Waits /\ Sleeps(c, "data") /\ [Next]_vars /\ <<Handler>>_vars => Sleeps(c, "wake")'
         /\ NobodyStuck /\ Sleeps(c, "data") => ENABLED <<Handler>>_vars
    BY SleeperServed DEF NobodyStuck, Sleeps
  <1>12. /\ Waits /\ Sleeps(c, "wake") /\ [Next]_vars => Sleeps(c, "wake")' \/ AwakeOrOver(c)'
         /\ Waits /\ Sleeps(c, "wake") /\ [Next]_vars /\ <<Handler>>_vars => AwakeOrOver(c)'
         /\ NobodyStuck /\ Sleeps(c, "wake") => ENABLED <<Handler>>_vars
    BY SleeperServed DEF NobodyStuck, Sleeps
  <1>13. Waits /\ At(c, "asleep") =>
            Runs(c) \/ Raised(c) \/ Sleeps(c, "ack") \/ Sleeps(c, "data") \/ Sleeps(c, "wake")
    BY DEF Waits, TypeOK, At, Runs, Raised, Sleeps
  <1> QED BY <1>2, <1>3, <1>4, <1>5, <1>6, <1>7, <1>8, <1>9, <1>10, <1>11, <1>12, <1>13,
             WaitsInductive, PTL DEF Spec, NeverStuck, Scheduled, Served

(***************************************************************************)
(* I2CExec always returns, and without its deadline: for any number of     *)
(* callers, with or without faults, no wake-up is lost between the start   *)
(* of a transaction and the sleep.  That the actions are enabled when they *)
(* are wanted (NobodyStuck) is a premise here.                             *)
(***************************************************************************)
THEOREM ExecReturns == FairSpec /\ NeverStuck => EveryExecReturns
  <1>1. ASSUME NEW c \in Callers PROVE FairSpec => Scheduled(c)
    BY DEF FairSpec
  <1>2. FairSpec => Spec /\ Served
    BY DEF FairSpec
  <1>3. ASSUME NEW c \in Callers PROVE Spec /\ NeverStuck /\ Scheduled(c) /\ Served => Returns(c)
    BY Comes DEF At, Returns
  <1>4. ASSUME NEW c \in Callers PROVE FairSpec /\ NeverStuck => Returns(c)
    BY <1>1, <1>2, <1>3
  <1> QED BY <1>4 DEF EveryExecReturns

=============================================================================
