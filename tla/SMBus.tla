-------------------------------- MODULE SMBus --------------------------------
(***************************************************************************)
(* The ICHSMBus driver: callers that hold the bus lock and execute         *)
(* transactions, the host controller that runs them, and the interrupt     *)
(* filter and handler that turn its status into a wake-up of the caller.   *)
(* A byte is known by the transaction it belongs to and its place in it.   *)
(***************************************************************************)
EXTENDS Naturals, FiniteSets

CONSTANTS
    Callers,  \* threads that use the bus
    None,
    Faults,   \* the sets of faults a run may have: "late", a transaction is not
              \* handled within its second or a signal ends a sleep; "alert",
              \* SMBALERT# or BDONE comes up; "stale", an error status is left
              \* from before a cold start
    Faulted,  \* bound: the callers that come in a run with faults
    MaxLen,   \* bytes of a transaction, 2 in the driver
    Serials   \* bound: numbers that tell a caller's transactions apart

ASSUME CallersAssumption == None \notin Callers /\ IsFiniteSet(Callers)
ASSUME FaultsAssumption  == Faults \subseteq SUBSET {"late", "alert", "stale"} /\ Faulted \subseteq Callers
ASSUME LengthAssumption  == MaxLen \in 1 .. 2 /\ Serials \in Nat \ {0}

Ops    == {"read", "write"}
Lens   == 1 .. MaxLen
Errors == {"FAIL"}                                 \* DEVERR, BUSERR and FAILED
Causes == {"INTR", "SMBAL", "BDONE"} \cup Errors   \* what the filter looks for
Txs    == Callers \X (0 .. Serials - 1)   \* a transaction: its caller and number
Byte(tx, k) == <<tx, k>>
Bytes  == {Byte(tx, k) : tx \in Txs, k \in 0 .. 1} \cup {None}
ASSUME NoneAssumption == None \notin Txs \cup [op : Ops, len : Lens, sn : 0 .. Serials - 1]

VARIABLES
    faults,   \* of this run
    holder,   \* of the bus lock
    pc, req,  \* where each caller is and what it asks for
    buf, ret, \* its buffer; what its last transaction returned
    xfer,     \* I2C_Transfer
    event,    \* Lock.event
    hs,       \* the host status register but for BUSY
    hd0, hd1, \* the data registers
    running,  \* the transaction the controller runs (BUSY)
    last,     \* the last one it finished, how, and what it sent (history)
    fSt,      \* the status the filter saw
    hpc       \* the interrupt event source; it is masked unless "idle"

callerVars == <<faults, holder, pc, req, buf, ret>>
driverVars == <<xfer, event>>
hwVars     == <<hs, hd0, hd1, running, last>>
intrVars   == <<fSt, hpc>>
vars == <<faults, holder, pc, req, buf, ret, xfer, event, hs, hd0, hd1, running, last, fSt, hpc>>

Tx(c) == <<c, req[c].sn>>

Init ==
    /\ faults \in Faults
    /\ holder = None
    /\ pc = [c \in Callers |-> "idle"]
    /\ req = [c \in Callers |-> [op |-> "read", len |-> 1, sn |-> 0]]
    /\ buf = [c \in Callers |-> <<None, None>>]
    /\ ret = [c \in Callers |-> "none"]
    /\ xfer = [op |-> "none", error |-> FALSE, to |-> None, len |-> 1]
    /\ event = FALSE
    /\ hs = IF "stale" \in faults THEN Errors ELSE {}
    /\ hd0 = None /\ hd1 = None
    /\ running = None
    /\ last = [tx |-> None, ok |-> FALSE, sent |-> <<None, None>>]
    /\ fSt = {} /\ hpc = "idle"

-----------------------------------------------------------------------------
(* Callers                                                                 *)

LockI2CBus(c) ==
    /\ pc[c] = "idle" /\ holder = None
    /\ faults = {} \/ c \in Faulted
    /\ holder' = c
    /\ pc' = [pc EXCEPT ![c] = "locked"]
    /\ ret' = [ret EXCEPT ![c] = "none"]
    /\ UNCHANGED <<faults, req, buf, driverVars, hwVars, intrVars>>

UnlockI2CBus(c) ==
    /\ pc[c] = "locked"
    /\ holder' = None
    /\ pc' = [pc EXCEPT ![c] = "idle"]
    /\ UNCHANGED <<faults, req, buf, ret, driverVars, hwVars, intrVars>>

\* What a caller may ask for.  In a run with faults, which is about the order
\* of transactions, one byte and one number are enough (a bound).
Requests(c) ==
    IF faults = {}
      THEN [op : Ops, len : Lens, sn : {(req[c].sn + 1) % Serials}]
      ELSE [op : Ops, len : {1}, sn : {0}]

\* Mutant of Exec: the wait for an idle bus is left out.
ExecAnyway(c) ==
    /\ pc[c] = "locked"
    /\ \E r \in Requests(c) : req' = [req EXCEPT ![c] = r]
    /\ buf' = [buf EXCEPT ![c] = <<None, None>>]
    /\ ret' = [ret EXCEPT ![c] = "none"] /\ pc' = [pc EXCEPT ![c] = "setup"]
    /\ UNCHANGED <<faults, holder, driverVars, hwVars, intrVars>>

\* I2CExec: the bus is idle, or still busy after a hundred looks.
Exec(c) ==
    /\ pc[c] = "locked"
    /\ \E r \in Requests(c) : req' = [req EXCEPT ![c] = r]
    /\ buf' = [buf EXCEPT ![c] = <<None, None>>]
    /\ IF running = None
         THEN ret' = [ret EXCEPT ![c] = "none"] /\ pc' = [pc EXCEPT ![c] = "setup"]
         ELSE ret' = [ret EXCEPT ![c] = "refused"] /\ UNCHANGED pc
    /\ UNCHANGED <<faults, holder, driverVars, hwVars, intrVars>>

\* Mutant of Setup: the error marker of the transaction before is kept.
SetupKeepsError(c) ==
    /\ pc[c] = "setup"
    /\ IF req[c].op = "read"
         THEN /\ xfer' = [xfer EXCEPT !.op = "read", !.to = c, !.len = req[c].len]
              /\ UNCHANGED hd0
         ELSE /\ xfer' = [xfer EXCEPT !.op = "write"]
              /\ hd0' = Byte(Tx(c), req[c].len - 1)
    /\ pc' = [pc EXCEPT ![c] = "start"]
    /\ UNCHANGED <<faults, holder, req, buf, ret, event, hs, hd1, running, last, intrVars>>

\* I2C_Transfer and the registers, byte by byte.
Setup(c) ==
    /\ pc[c] = "setup"
    /\ IF req[c].op = "read"
         THEN /\ xfer' = [op |-> "read", error |-> FALSE, to |-> c, len |-> req[c].len]
              /\ UNCHANGED hd0
         ELSE /\ xfer' = [xfer EXCEPT !.op = "write", !.error = FALSE]
              /\ hd0' = Byte(Tx(c), req[c].len - 1)
    /\ pc' = [pc EXCEPT ![c] = "start"]
    /\ UNCHANGED <<faults, holder, req, buf, ret, event, hs, hd1, running, last, intrVars>>

\* The write to the host control register.
HcStart(c) ==
    /\ pc[c] = "start"
    /\ running' = Tx(c)
    /\ pc' = [pc EXCEPT ![c] = "wait"]
    /\ UNCHANGED <<faults, holder, req, buf, ret, driverVars, hs, hd0, hd1, last, intrVars>>

\* Mutant of Wait: the caller sleeps without a look at the event.
WaitBlind(c) ==
    /\ pc[c] = "wait"
    /\ event' = FALSE
    /\ pc' = [pc EXCEPT ![c] = "asleep"]
    /\ UNCHANGED <<faults, holder, req, buf, ret, xfer, hwVars, intrVars>>

\* Under Lock.holder: the event was there already, or the caller sleeps.
Wait(c) ==
    /\ pc[c] = "wait"
    /\ event' = FALSE
    /\ pc' = [pc EXCEPT ![c] = IF event THEN "marker" ELSE "asleep"]
    /\ UNCHANGED <<faults, holder, req, buf, ret, xfer, hwVars, intrVars>>

Awake(c) ==
    /\ pc[c] = "awakened"
    /\ event' = FALSE
    /\ pc' = [pc EXCEPT ![c] = "marker"]
    /\ UNCHANGED <<faults, holder, req, buf, ret, xfer, hwVars, intrVars>>

\* The deadline, or a signal to a thread that sleeps interruptibly.
GiveUp(c) ==
    /\ pc[c] = "asleep" /\ "late" \in faults
    /\ event' = FALSE
    /\ ret' = [ret EXCEPT ![c] = "timeout"]
    /\ pc' = [pc EXCEPT ![c] = "locked"]
    /\ UNCHANGED <<faults, holder, req, buf, xfer, hwVars, intrVars>>

\* done: the marker decides.
Return(c) ==
    /\ pc[c] = "marker"
    /\ ret' = [ret EXCEPT ![c] = IF xfer.error THEN "error" ELSE "ok"]
    /\ pc' = [pc EXCEPT ![c] = "locked"]
    /\ UNCHANGED <<faults, holder, req, buf, driverVars, hwVars, intrVars>>

-----------------------------------------------------------------------------
(* The host controller                                                     *)

\* The transaction runs as it was requested, with the bytes in the registers.
Complete ==
    /\ running # None
    /\ running' = None
    /\ LET r == req[running[1]] IN
       \/ /\ hs' = hs \cup {"INTR"}
          /\ IF r.op = "read"
               THEN hd0' = Byte(running, 0) /\ hd1' = Byte(running, 1)
               ELSE UNCHANGED <<hd0, hd1>>
          /\ last' = [tx |-> running, ok |-> TRUE,
                      sent |-> IF r.op = "write" THEN <<hd0, hd1>> ELSE <<None, None>>]
       \/ /\ hs' = hs \cup Errors
          /\ last' = [tx |-> running, ok |-> FALSE, sent |-> <<None, None>>]
          /\ UNCHANGED <<hd0, hd1>>
    /\ UNCHANGED <<callerVars, driverVars, intrVars>>

\* Statuses the filter looks for that end no transaction: a slave pulls the
\* line, or a byte counts as done (which is of no use to the driver).
Alerts == {"SMBAL", "BDONE"}

\* Bound: no second alert comes before the first is acknowledged.
OneAlert == hs \cap Alerts = {}

Alert ==
    /\ "alert" \in faults /\ OneAlert
    /\ \E cause \in Alerts : hs' = hs \cup {cause}
    /\ UNCHANGED <<callerVars, driverVars, hd0, hd1, running, last, intrVars>>

-----------------------------------------------------------------------------
(* Interrupt filter and handler                                            *)

\* Level triggered: the source stays masked until its handler is through.
Filter ==
    /\ hpc = "idle" /\ hs # {}
    /\ running = None
    /\ fSt' = hs
    /\ hpc' = "ack"
    /\ UNCHANGED <<callerVars, driverVars, hwVars>>

\* Mutant of HandlerAck: the caller is woken before its bytes are stored.
HandlerAckWakes ==
    /\ hpc = "ack"
    /\ hs' = hs \ fSt
    /\ hpc' = IF xfer.op = "none" THEN "idle" ELSE "data"
    /\ event' = (event \/ xfer.op # "none")
    /\ pc' = [c \in Callers |-> IF pc[c] = "asleep" THEN "awakened" ELSE pc[c]]
    /\ UNCHANGED <<faults, holder, req, buf, ret, xfer, hd0, hd1, running, last, fSt>>

HandlerAck ==
    /\ hpc = "ack"
    /\ hs' = hs \ fSt
    /\ hpc' = IF xfer.op = "none" THEN "idle" ELSE "data"
    /\ UNCHANGED <<callerVars, driverVars, hd0, hd1, running, last, fSt>>

\* Mutant of HandlerData: the second byte of a read is forgotten.
HandlerDataFirst ==
    /\ hpc = "data"
    /\ IF fSt \cap Errors # {} THEN xfer' = [xfer EXCEPT !.error = TRUE] /\ UNCHANGED buf
       ELSE /\ UNCHANGED xfer
            /\ IF "INTR" \in fSt /\ xfer.op = "read"
                 THEN buf' = [buf EXCEPT ![xfer.to] = <<hd0, @[2]>>]
                 ELSE UNCHANGED buf
    /\ hpc' = "wake"
    /\ UNCHANGED <<faults, holder, pc, req, ret, event, hwVars, fSt>>

HandlerData ==
    /\ hpc = "data"
    /\ IF fSt \cap Errors # {} THEN xfer' = [xfer EXCEPT !.error = TRUE] /\ UNCHANGED buf
       ELSE /\ UNCHANGED xfer
            /\ IF "INTR" \in fSt /\ xfer.op = "read"
                 THEN buf' = [buf EXCEPT ![xfer.to] =
                                <<hd0, IF xfer.len > 1 THEN hd1 ELSE @[2]>>]
                 ELSE UNCHANGED buf
    /\ hpc' = "wake"
    /\ UNCHANGED <<faults, holder, pc, req, ret, event, hwVars, fSt>>

HandlerWake ==
    /\ hpc = "wake"
    /\ event' = TRUE
    /\ pc' = [c \in Callers |-> IF pc[c] = "asleep" THEN "awakened" ELSE pc[c]]
    /\ hpc' = "idle"
    /\ UNCHANGED <<faults, holder, req, buf, ret, xfer, hwVars, fSt>>

-----------------------------------------------------------------------------
Handler == HandlerAck \/ HandlerData \/ HandlerWake
CallerStep(c) ==
    \/ UnlockI2CBus(c) \/ Setup(c) \/ HcStart(c) \/ Wait(c) \/ Awake(c) \/ Return(c)

Next ==
    \/ \E c \in Callers : LockI2CBus(c) \/ Exec(c) \/ CallerStep(c) \/ GiveUp(c)
    \/ Complete \/ Alert \/ Filter \/ Handler

Spec == Init /\ [][Next]_vars

Scheduled(c) == WF_vars(CallerStep(c))

Served == WF_vars(Complete) /\ WF_vars(Filter) /\ WF_vars(Handler)

\* Callers run, transactions end, interrupts are served.
FairSpec == Spec /\ (\A c \in Callers : Scheduled(c)) /\ Served

-----------------------------------------------------------------------------
\* The values every variable may take.
TypeOK ==
    /\ faults \in Faults
    /\ holder \in Callers \cup {None}
    /\ pc \in [Callers -> {"idle", "locked", "setup", "start", "wait", "asleep",
                           "awakened", "marker"}]
    /\ req \in [Callers -> [op : Ops, len : Lens, sn : 0 .. Serials - 1]]
    /\ buf \in [Callers -> Bytes \X Bytes]
    /\ ret \in [Callers -> {"none", "ok", "error", "timeout", "refused"}]
    /\ xfer \in [op : Ops \cup {"none"}, error : BOOLEAN, to : Callers \cup {None}, len : Lens]
    /\ event \in BOOLEAN
    /\ hs \subseteq Causes /\ fSt \subseteq Causes
    /\ hd0 \in Bytes /\ hd1 \in Bytes
    /\ running \in Txs \cup {None}
    /\ hpc \in {"idle", "ack", "data", "wake"}

Ended(c) == pc[c] \in {"locked", "idle"}

(***************************************************************************)
(* Without faults, I2CExec returns 0 for a transaction the controller      *)
(* carried out, and an error only for one that failed: the event and the   *)
(* error marker a caller looks at are never another transaction's.         *)
(***************************************************************************)
TruthfulReturn ==
    faults = {} => \A c \in Callers : holder = c /\ Ended(c) /\ ret[c] \in {"ok", "error"} =>
        last.tx = Tx(c) /\ (last.ok <=> ret[c] = "ok")

(***************************************************************************)
(* Without faults, a read that returned 0 has put the bytes of this very   *)
(* transaction into the caller's buffer, all of them, and none after it    *)
(* returned.                                                               *)
(***************************************************************************)
ReadFresh ==
    faults = {} => \A c \in Callers : Ended(c) /\ ret[c] = "ok" /\ req[c].op = "read" =>
        \A k \in 1 .. req[c].len : buf[c][k] = Byte(Tx(c), k - 1)

(***************************************************************************)
(* Without faults, the handler writes into a buffer only while its owner   *)
(* is inside the transaction it was given for: the buffers are on the      *)
(* callers' stacks.                                                        *)
(***************************************************************************)
BufferLive ==
    [][faults = {} => \A c \in Callers :
          buf'[c] # buf[c] => ~Ended(c) \/ buf'[c] = <<None, None>>]_vars

(***************************************************************************)
(* "Limited to 2-byte data": a write of one or two bytes that returned 0   *)
(* has sent these bytes.                                                   *)
(***************************************************************************)
WriteSent ==
    \A c \in Callers : holder = c /\ Ended(c) /\ ret[c] = "ok" /\ req[c].op = "write" =>
        \A k \in 1 .. req[c].len : last.sent[k] = Byte(Tx(c), k - 1)

(***************************************************************************)
(* "Wait for bus to be idle": no caller touches the data registers, or     *)
(* starts a transaction, while the controller still runs one, were it one  *)
(* that a caller has given up.                                             *)
(***************************************************************************)
BusyUndisturbed ==
    [][\A c \in Callers : pc[c] \in {"setup", "start"} /\ pc'[c] # pc[c] => running = None]_vars

(***************************************************************************)
(* Whoever starts a transaction returns from it, and without the help of   *)
(* the deadline (there is no fairness of GiveUp): no wake-up is lost       *)
(* between the start and the sleep.                                        *)
(***************************************************************************)
Returns(c) == pc[c] = "setup" ~> Ended(c)
EveryExecReturns == \A c \in Callers : Returns(c)

(***************************************************************************)
(* A premise of liveness, which says when the steps are enabled.           *)
(* Nobody is stuck but who sleeps: a caller inside a transaction, a        *)
(* controller with a transaction, an interrupt nobody serves yet and a     *)
(* handler that has begun can each go on, whatever the others do and       *)
(* whatever interrupt comes when no caller waits for one.                  *)
(***************************************************************************)
NobodyStuck ==
    /\ \A c \in Callers : ~Ended(c) /\ pc[c] # "asleep" => ENABLED <<CallerStep(c)>>_vars
    /\ running # None => ENABLED <<Complete>>_vars
    /\ running = None /\ hs # {} /\ hpc = "idle" => ENABLED <<Filter>>_vars
    /\ hpc # "idle" => ENABLED <<Handler>>_vars
=============================================================================
