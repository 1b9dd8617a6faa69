-------------------------- MODULE MegaRAIDRefinement --------------------------
(***************************************************************************)
(* The command path implements TaskService.  A request counts as executed  *)
(* from the moment the firmware wrote its status: while its ccb waits in   *)
(* the reply queue, while the handler carries the status in a cmd_context, *)
(* and while the requester holds it as the result it is about to return.   *)
(***************************************************************************)
EXTENDS MegaRAIDCommands

Replied(th) ==
    /\ pc[th] \in Waiting \cup {"awakened", "timedout"}
    /\ cmd[th] # None /\ fwq[cmd[th]] = 0

Returning(th) == pc[th] = "put" /\ result[th] \in Status

PhaseOf(th) ==
    IF pc[th] = "idle" THEN "idle"
    ELSE IF Replied(th) \/ hTask = th \/ Returning(th) THEN "executed" ELSE "busy"

VerdictOf(th) ==
    IF Replied(th) THEN ccb[cmd[th]].status
    ELSE IF hTask = th THEN hStatus
    ELSE IF Returning(th) THEN result[th] ELSE "none"

AnswerOf(th) == IF pc[th] = "idle" THEN result[th] ELSE "none"

phaseBar   == [th \in Threads |-> PhaseOf(th)]
verdictBar == [th \in Threads |-> VerdictOf(th)]
answerBar  == [th \in Threads |-> AnswerOf(th)]

Service == INSTANCE TaskService WITH
    Requesters <- Threads, Verdicts <- FwStatus,
    phase <- phaseBar, verdict <- verdictBar, answer <- answerBar

(***************************************************************************)
(* Every step of submission, firmware and handler is a step of the service *)
(* or invisible to it: each requester gets the firmware's status of its    *)
(* own request, once, although ccbs and reply slots are reused at once.    *)
(***************************************************************************)
ImplementsService == Service!Spec
=============================================================================
