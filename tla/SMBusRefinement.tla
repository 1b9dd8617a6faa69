--------------------------- MODULE SMBusRefinement ---------------------------
(***************************************************************************)
(* The driver implements BusService.  A transaction counts as asked from   *)
(* the look at the host status to the return of I2CExec, and as run from   *)
(* the moment the controller took back its busy bit.                       *)
(***************************************************************************)
EXTENDS SMBus

AskedOf(c) == IF Ended(c) THEN None ELSE req[c]

RanOf(c) ==
    IF faults = {} /\ pc[c] \in {"wait", "asleep", "awakened", "marker"} /\ running = None
      THEN IF last.ok THEN "ok" ELSE "error"
      ELSE "no"

\* The part of the buffer a read was for.
Given(c) == [k \in 1 .. req[c].len |-> buf[c][k]]

AnswerOf(c) ==
    IF Ended(c)
      THEN [told |-> ret[c],
            bytes |-> IF faults = {} /\ ret[c] = "ok" /\ req[c].op = "read"
                        THEN Given(c) ELSE <<>>]
      ELSE [told |-> "none", bytes |-> <<>>]

reliableBar == faults = {}
askedBar    == [c \in Callers |-> AskedOf(c)]
ranBar      == [c \in Callers |-> RanOf(c)]
answerBar   == [c \in Callers |-> AnswerOf(c)]

Bus == INSTANCE BusService WITH
    Users <- Callers, Transactions <- [op : Ops, len : Lens, sn : 0 .. Serials - 1],
    reliable <- reliableBar, owner <- holder,
    asked <- askedBar, ran <- ranBar, answer <- answerBar

(***************************************************************************)
(* Every step of callers, controller, interrupt filter and handler is a    *)
(* step of the bus service or invisible to it.  The event, the marker, the *)
(* data registers and the status are used again by every transaction, and  *)
(* yet none is answered with the traces of another one.                    *)
(***************************************************************************)
ImplementsBus == Bus!Spec
=============================================================================
