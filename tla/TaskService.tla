----------------------------- MODULE TaskService -----------------------------
(***************************************************************************)
(* What the command path of SASMegaRAID promises to those who use it: a    *)
(* request is executed by the firmware at most once, and what its          *)
(* requester is told is the status the firmware gave to this very request; *)
(* a request that was never executed is told so ("failed", or "cached" for *)
(* a cache flush a good battery makes unnecessary).                        *)
(***************************************************************************)
CONSTANTS Requesters, Verdicts

VARIABLES phase, verdict, answer
vars == <<phase, verdict, answer>>

Init ==
    /\ phase = [r \in Requesters |-> "idle"]
    /\ verdict = [r \in Requesters |-> "none"]
    /\ answer = [r \in Requesters |-> "none"]

Ask(r) ==
    /\ phase[r] = "idle"
    /\ phase' = [phase EXCEPT ![r] = "busy"]
    /\ answer' = [answer EXCEPT ![r] = "none"]
    /\ UNCHANGED verdict

Execute(r) ==
    /\ phase[r] = "busy"
    /\ phase' = [phase EXCEPT ![r] = "executed"]
    /\ \E v \in Verdicts : verdict' = [verdict EXCEPT ![r] = v]
    /\ UNCHANGED answer

Answer(r) ==
    /\ phase[r] = "executed"
    /\ phase' = [phase EXCEPT ![r] = "idle"]
    /\ answer' = [answer EXCEPT ![r] = verdict[r]]
    /\ verdict' = [verdict EXCEPT ![r] = "none"]

Decline(r) ==
    /\ phase[r] = "busy"
    /\ phase' = [phase EXCEPT ![r] = "idle"]
    /\ \E a \in {"failed", "cached"} : answer' = [answer EXCEPT ![r] = a]
    /\ UNCHANGED verdict

Next == \E r \in Requesters : Ask(r) \/ Execute(r) \/ Answer(r) \/ Decline(r)

Spec == Init /\ [][Next]_vars
=============================================================================
