-------------------------- MODULE FirmwareTransition --------------------------
(***************************************************************************)
(* Transition_Firmware of the SASMegaRAID driver: it watches the state     *)
(* register of the controller, rings the inbound doorbell in the states    *)
(* that wait for the host, and goes on until the firmware is ready, or is  *)
(* at fault, or has not moved for as long as a wait lasts.                 *)
(*                                                                         *)
(* The register has a state and other bits, which are taken for a count;   *)
(* while devices are scanned it tells the driver that the scan goes on.    *)
(* Nothing is asked of the firmware but that it makes at most one move     *)
(* between two looks (Slow), which are a tenth of a second apart.          *)
(***************************************************************************)
EXTENDS Naturals, FirmwareOutcome

CONSTANTS
    MaxWait,   \* looks of one wait: max_wait * 10
    Scans,     \* values the other bits take in turn
    Slow       \* at most one move of the firmware between two looks

ASSUME WaitAssumption  == MaxWait \in Nat \ {0}
ASSUME ScansAssumption == Scans \in Nat /\ Scans > MaxWait
ASSUME SlowAssumption  == Slow \in BOOLEAN

(***************************************************************************)
(* The states in which the driver only waits; UNKNOWN is a value it does   *)
(* not know, and UNDEFINED, BB_INIT, FW_INIT and FLUSH_CACHE are alike.    *)
(***************************************************************************)
Waiting  == {"FW_INIT", "FW_INIT_2", "DEVICE_SCAN"}
Failed   == {"FAULT", "UNKNOWN"}
DoorbellOf == [WAIT_HANDSHAKE       |-> "CLEAR_HANDSHAKE",
               OPERATIONAL          |-> "INIT_READY",
               BOOT_MESSAGE_PENDING |-> "HOTPLUG"]
Handshakes == DOMAIN DoorbellOf
Doorbells  == {DoorbellOf[s] : s \in Handshakes}
States     == Waiting \cup Failed \cup Handshakes \cup {"READY"}
Register   == [state : States, scan : 0 .. Scans - 1]

VARIABLES
    reg,        \* the firmware's register
    rung,       \* doorbells it heard since its state changed last
    moves,      \* whether it moved since the driver looked last
    quiet,      \* looks since its last progress, up to MaxWait (history)
    pc,         \* where the driver is
    cur_abs,    \* cur_abs_reg_val; its state is fw_state
    prev_abs,   \* prev_abs_reg_val
    cur_state,  \* the state this wait began with
    i,          \* the loop index of the wait
    result      \* how Transition_Firmware returned

firmware == <<reg, rung, moves, quiet>>
locals   == <<cur_abs, prev_abs, cur_state, i>>
vars     == <<reg, rung, moves, quiet, pc, cur_abs, prev_abs, cur_state, i, result>>

Zero == [state |-> "FW_INIT", scan |-> 0]   \* 0 is UNDEFINED

Init ==
    /\ reg \in [state : States, scan : {0}]
    /\ rung = {} /\ moves = FALSE /\ quiet = 0
    /\ pc = "enter" /\ cur_abs = Zero /\ prev_abs = Zero
    /\ cur_state = "READY" /\ i = 0
    /\ result = "none"

-----------------------------------------------------------------------------
(* The driver                                                              *)

\* mraid_fw_state(), with what is remembered about the firmware.
Look ==
    /\ cur_abs' = reg
    /\ moves' = FALSE
    /\ quiet' = IF quiet < MaxWait THEN quiet + 1 ELSE quiet
    /\ UNCHANGED <<reg, rung>>

Return(with) == pc' = "done" /\ result' = with

Enter ==
    /\ pc = "enter" /\ Look /\ pc' = "while"
    /\ UNCHANGED <<prev_abs, cur_state, i, result>>

\* The loop's condition and the two cases of the switch that return.
Leave ==
    /\ pc = "while" /\ cur_abs.state \in Failed \cup {"READY"}
    /\ Return(IF cur_abs.state = "READY" THEN "ready" ELSE "failed")
    /\ UNCHANGED <<firmware, locals>>

\* Mutant of Knock: a missing break, as between DEVICE_SCAN and FW_INIT, lets
\* WAIT_HANDSHAKE go on into OPERATIONAL, whose value is the one written.
KnockFallThrough(s) == IF s = "WAIT_HANDSHAKE" THEN {"INIT_READY"} ELSE {DoorbellOf[s]}

\* What is written to mio_idb.
Knock(s) == {DoorbellOf[s]}

\* The other cases.
Switch ==
    /\ pc = "while" /\ cur_abs.state \in Waiting \cup Handshakes
    /\ cur_state' = cur_abs.state
    /\ rung' = IF cur_abs.state \in Handshakes THEN rung \cup Knock(cur_abs.state) ELSE rung
    /\ prev_abs' = IF cur_abs.state = "DEVICE_SCAN" THEN cur_abs ELSE prev_abs
    /\ i' = 0
    /\ pc' = "wait"
    /\ UNCHANGED <<reg, moves, quiet, cur_abs, result>>

\* Mutant of Judged: a scan that goes on counts as a standstill.
JudgedByState(seen) == IF seen.state = cur_state THEN "stuck" ELSE "while"

\* Mutant of Judged: whoever is stuck is tried again.
JudgedPatient(seen) == "while"

\* What is made of the last look of a wait.
Judged(seen) ==
    IF \/ seen.state = "DEVICE_SCAN" /\ prev_abs # seen
       \/ seen.state # cur_state
    THEN "while"
    ELSE "stuck"

\* One look of the wait.  It goes on while the state is the same.
Wait ==
    /\ pc = "wait" /\ Look
    /\ i' = i + 1
    /\ IF reg.state = cur_state /\ i + 1 < MaxWait
         THEN UNCHANGED <<pc, result>>
         ELSE \/ Judged(reg) = "while" /\ pc' = "while" /\ UNCHANGED result
              \/ Judged(reg) = "stuck" /\ Return("stuck")
    /\ UNCHANGED <<prev_abs, cur_state>>

-----------------------------------------------------------------------------
(* External: the firmware                                                  *)

\* What it does after the driver returned is left out.
MayMove == pc # "done" /\ (Slow => ~moves) /\ moves' = TRUE

\* The other bits count on, which is progress of a scan.
Count ==
    /\ MayMove
    /\ reg' = [reg EXCEPT !.scan = IF @ = Scans - 1 THEN 0 ELSE @ + 1]
    /\ quiet' = IF reg.state = "DEVICE_SCAN" THEN 0 ELSE quiet
    /\ UNCHANGED <<rung, pc, locals, result>>

\* The state changes.  A firmware that waits for the host leaves its state when
\* its doorbell was rung, or by a fault.
Move ==
    /\ MayMove /\ quiet' = 0
    /\ \E s \in States \ {reg.state} :
         /\ reg.state \in Handshakes => s = "FAULT" \/ DoorbellOf[reg.state] \in rung
         /\ reg' = [reg EXCEPT !.state = s]
    /\ rung' = {}
    /\ UNCHANGED <<pc, locals, result>>

Driver == Enter \/ Leave \/ Switch \/ Wait
Next   == Driver \/ Count \/ Move

Spec == Init /\ [][Next]_vars

\* The thread that called Transition_Firmware runs.
FairSpec == Spec /\ WF_vars(Driver)

-----------------------------------------------------------------------------
\* The values every variable may take.
TypeOK ==
    /\ reg \in Register /\ rung \subseteq Doorbells
    /\ moves \in BOOLEAN /\ quiet \in 0 .. MaxWait
    /\ pc \in {"enter", "while", "wait", "done"}
    /\ cur_abs \in Register /\ prev_abs \in Register
    /\ cur_state \in States /\ i \in 0 .. MaxWait
    /\ result \in {"none", "ready", "failed", "stuck"}

(***************************************************************************)
(* "Firmware stuck in state": a firmware that was given up has stayed in   *)
(* its state for all the looks of a wait, and has not counted on if it was *)
(* scanning.  The driver compares the last value of a wait with the first  *)
(* alone: a state left and entered again, or a count that comes round,     *)
(* must not look like a standstill.                                        *)
(***************************************************************************)
StuckIsStill == Slow /\ result = "stuck" => quiet = MaxWait

(***************************************************************************)
(* Transition_Firmware ends, unless the firmware changes its state or      *)
(* scans for ever: each wait has a limit, the number of waits has none.    *)
(***************************************************************************)
Ends ==
    \/ <>(pc = "done")
    \/ []<><<reg'.state # reg.state \/ reg.state = "DEVICE_SCAN">>_reg

(***************************************************************************)
(* Driver and firmware do not wait for each other: a firmware that was     *)
(* given up while it waited for the host had been rung, since it entered   *)
(* that state, with the doorbell it waits for.                             *)
(***************************************************************************)
NoStandoff ==
    Slow /\ result = "stuck" /\ reg.state \in Handshakes => DoorbellOf[reg.state] \in rung

-----------------------------------------------------------------------------
\* What the callers tell of the firmware's state.
Condition(s) == IF s = "READY" THEN "ready" ELSE IF s = "FAULT" THEN "fault" ELSE "other"

\* A firmware that is ready or at fault stays so.
Settles == [][reg.state \in {"READY", "FAULT"} => reg'.state = reg.state]_reg

\* Called in the state s, the loop does what Outcome says.
Answers(s) == pc = "done" => Outcome(Condition(s), Condition(reg.state), result = "ready")
=============================================================================
