----------------------- MODULE FirmwareTransition_proofs -----------------------
(***************************************************************************)
(* Proofs about FirmwareTransition: for waits of any length and any count  *)
(* longer than a wait, a firmware that is given up has stood still, and    *)
(* had been rung if it was waiting for the host.                           *)
(***************************************************************************)
EXTENDS FirmwareTransition, TLAPS

USE WaitAssumption, ScansAssumption, SlowAssumption

\* The count m moves after from.
CountOn(from, m) == IF from + m < Scans THEN from + m ELSE from + m - Scans

-----------------------------------------------------------------------------
(* The inductive invariant: what is known of the firmware during a wait.   *)

\* A wait of MaxWait looks is over.
WaitLimit == pc = "wait" => i < MaxWait

\* The firmware is where the driver saw it last, or one move away.
LastLook ==
    pc \in {"while", "wait"} =>
        /\ ~moves => reg = cur_abs
        /\ moves /\ reg.state = cur_abs.state => reg.scan = CountOn(cur_abs.scan, 1)

\* A wait goes on in the state it began with, and was rung for it.
SameState ==
    pc = "wait" =>
        /\ cur_abs.state = cur_state
        /\ reg.state = cur_state =>
             /\ cur_state \in Handshakes => DoorbellOf[cur_state] \in rung
             /\ cur_state # "DEVICE_SCAN" => quiet >= i

\* A scan has counted at most once for each look, and not since the wait began
\* only if it has been quiet.
ScanCount ==
    pc = "wait" /\ cur_state = "DEVICE_SCAN" /\ reg.state = "DEVICE_SCAN" =>
        /\ prev_abs.state = "DEVICE_SCAN"
        /\ \E m \in 0 .. i + 1 :
              /\ reg.scan = CountOn(prev_abs.scan, m)
              /\ m = 0 => quiet >= i
              /\ ~moves => m <= i

Ended == StuckIsStill /\ NoStandoff /\ (result # "none" <=> pc = "done")

IInv == TypeOK /\ WaitLimit /\ (Slow => LastLook /\ SameState /\ ScanCount) /\ Ended

-----------------------------------------------------------------------------
\* A count that went on for less than its length is not where it was.
LEMMA CountMoves ==
    ASSUME NEW from \in 0 .. Scans - 1, NEW m \in 0 .. MaxWait,
           CountOn(from, m) = from
    PROVE  m = 0
BY DEF CountOn

\* One more move is one more in the count.
LEMMA CountNext ==
    ASSUME NEW from \in 0 .. Scans - 1, NEW m \in 0 .. MaxWait
    PROVE  /\ CountOn(from, m) \in 0 .. Scans - 1
           /\ m < MaxWait =>
                CountOn(from, m + 1) = IF CountOn(from, m) = Scans - 1 THEN 0
                                       ELSE CountOn(from, m) + 1
BY DEF CountOn

LEMMA TransitionInit == Init => IInv
<1> SUFFICES ASSUME Init PROVE IInv
  OBVIOUS
<1>1. Zero \in Register /\ reg \in Register
  BY DEF Init, Zero, Register, States, Waiting
<1>2. TypeOK
  <2>1. /\ rung = {} /\ moves = FALSE /\ quiet = 0 /\ i = 0 /\ result = "none"
        /\ pc = "enter" /\ cur_abs = Zero /\ prev_abs = Zero /\ cur_state = "READY"
    BY DEF Init
  <2>2. cur_state \in States
    BY <2>1 DEF States
  <2>3. moves \in BOOLEAN
    BY <2>1
  <2> QED BY <1>1, <2>1, <2>2, <2>3 DEF TypeOK
<1> QED BY <1>2 DEF Init, IInv, WaitLimit, LastLook, SameState, ScanCount, Ended, StuckIsStill, NoStandoff

\* Types are kept by every step.
LEMMA TransitionTypes == ASSUME TypeOK, WaitLimit, [Next]_vars PROVE TypeOK'
<1> USE DEF TypeOK, firmware, locals
<1>1. CASE Enter
  <2>1. moves' \in BOOLEAN
    BY <1>1 DEF Enter, Look
  <2> QED BY <1>1, <2>1 DEF Enter, Look
<1>2. CASE Leave
  BY <1>2 DEF Leave, Return
<1>3. CASE Switch
  <2>1. rung' \subseteq Doorbells
    BY <1>3 DEF Switch, Knock, Doorbells
  <2> QED BY <1>3, <2>1 DEF Switch, States
<1>4. CASE Wait
  <2>1. i' = i + 1 /\ cur_abs' = reg /\ reg' = reg /\ rung' = rung /\ moves' = FALSE
        /\ prev_abs' = prev_abs /\ cur_state' = cur_state
        /\ quiet' \in 0 .. MaxWait
    BY <1>4 DEF Wait, Look
  <2>2. pc' \in {"wait", "while", "done"} /\ result' \in {"none", "ready", "failed", "stuck"}
    BY <1>4 DEF Wait, Return
  <2>3. moves' \in BOOLEAN
    BY <2>1
  <2>4. i' \in 0 .. MaxWait
    BY <1>4 DEF Wait, WaitLimit
  <2> QED BY <2>1, <2>2, <2>3, <2>4
<1>5. CASE Count
  <2>1. reg' \in Register
    BY <1>5 DEF Count, Register
  <2> QED BY <1>5, <2>1 DEF Count, MayMove
<1>6. CASE Move
  <2>1. reg' \in Register
    BY <1>6 DEF Move, Register
  <2> QED BY <1>6, <2>1 DEF Move, MayMove
<1>7. CASE UNCHANGED vars
  BY <1>7 DEF vars
<1> QED BY <1>1, <1>2, <1>3, <1>4, <1>5, <1>6, <1>7 DEF Next, Driver

(***************************************************************************)
(* What a firmware that moves once between two looks can have done in a    *)
(* wait: the three parts of IInv about it are kept, and a wait that ends   *)
(* with nothing new seen has watched a firmware that stood still.          *)
(***************************************************************************)
LEMMA TransitionStep == ASSUME IInv, [Next]_vars PROVE IInv'
<1> USE DEF IInv
<1>t. TypeOK'
  BY TransitionTypes
<1>w. WaitLimit'
  <2>1. ASSUME Wait PROVE WaitLimit'
    BY <2>1 DEF Wait, Return, WaitLimit, TypeOK
  <2>2. ASSUME ~Wait PROVE WaitLimit'
    BY <2>2 DEF Next, Driver, Enter, Leave, Switch, Count, Move, MayMove, Return,
                locals, firmware, vars, WaitLimit
  <2> QED BY <2>1, <2>2
<1> SUFFICES (Slow => LastLook' /\ SameState' /\ ScanCount') /\ Ended'
  BY <1>t, <1>w
<1> USE DEF Ended
<1>1. CASE Enter
  BY <1>1 DEF Enter, Look, LastLook, SameState, ScanCount, StuckIsStill, NoStandoff
<1>2. CASE Leave
  BY <1>2 DEF Leave, Return, firmware, locals, LastLook, SameState, ScanCount,
              StuckIsStill, NoStandoff
<1>3. CASE Switch
  <2>1. /\ pc = "while" /\ pc' = "wait" /\ cur_state' = cur_abs.state /\ i' = 0
        /\ UNCHANGED <<reg, moves, quiet, cur_abs, result>>
        /\ cur_abs'.state = cur_state'
    BY <1>3 DEF Switch
  <2>2. Ended'
    BY <2>1 DEF StuckIsStill, NoStandoff
  <2>3. cur_state' \in Handshakes => DoorbellOf[cur_state'] \in rung'
    BY <1>3 DEF Switch, Knock
  <2>4. quiet' >= 0
    BY <2>1 DEF TypeOK
  <2>5. LastLook => LastLook'
    BY <2>1 DEF LastLook
  <2>6. SameState'
    BY <2>1, <2>3, <2>4 DEF SameState
  <2>7. ASSUME Slow, cur_state' = "DEVICE_SCAN", reg'.state = "DEVICE_SCAN"
        PROVE  /\ prev_abs'.state = "DEVICE_SCAN"
               /\ \E m \in 0 .. i' + 1 :
                     /\ reg'.scan = CountOn(prev_abs'.scan, m)
                     /\ m = 0 => quiet' >= i'
                     /\ ~moves' => m <= i'
    <3>1. prev_abs' = cur_abs /\ cur_abs.state = "DEVICE_SCAN" /\ reg.state = "DEVICE_SCAN"
      BY <1>3, <2>1, <2>7 DEF Switch
    <3>2. cur_abs.scan \in 0 .. Scans - 1
      BY DEF TypeOK, Register
    <3>3. CASE ~moves
      <4>1. reg.scan = CountOn(cur_abs.scan, 0)
        BY <2>1, <2>7, <3>2, <3>3 DEF LastLook, CountOn
      <4> QED BY <2>1, <2>4, <3>1, <4>1
    <3>4. CASE moves
      <4>1. reg.scan = CountOn(cur_abs.scan, 1)
        BY <2>1, <2>7, <3>1, <3>4 DEF LastLook
      <4> QED BY <2>1, <3>1, <3>4, <4>1
    <3> QED BY <3>3, <3>4
  <2>8. Slow => ScanCount'
    BY <2>7 DEF ScanCount
  <2> QED BY <2>2, <2>5, <2>6, <2>8
<1>4. CASE Wait
  <2>1. /\ pc = "wait" /\ i' = i + 1 /\ cur_abs' = reg /\ moves' = FALSE
        /\ quiet' = (IF quiet < MaxWait THEN quiet + 1 ELSE quiet)
        /\ UNCHANGED <<reg, rung, prev_abs, cur_state>>
    BY <1>4 DEF Wait, Look
  <2>2. LastLook'
    BY <2>1 DEF LastLook
  <2>3. /\ i \in 0 .. MaxWait /\ i < MaxWait /\ quiet \in 0 .. MaxWait
        /\ quiet >= i => quiet' >= i'
    BY <2>1 DEF TypeOK, WaitLimit
  <2>4. ASSUME Slow, cur_state = "DEVICE_SCAN", reg.state = "DEVICE_SCAN"
        PROVE  /\ prev_abs.state = "DEVICE_SCAN"
               /\ \E m \in 0 .. i' :
                     /\ reg.scan = CountOn(prev_abs.scan, m)
                     /\ m = 0 => quiet' >= i'
    <3>1. PICK m \in 0 .. i + 1 : /\ reg.scan = CountOn(prev_abs.scan, m)
                                  /\ m = 0 => quiet >= i
      BY <2>1, <2>4 DEF ScanCount
    <3> QED BY <2>1, <2>3, <2>4, <3>1 DEF ScanCount
  <2>5. CASE reg.state = cur_state /\ i + 1 < MaxWait
    <3>1. pc' = "wait" /\ result' = result
      BY <1>4, <2>1, <2>5 DEF Wait
    <3>2. Slow => SameState'
      BY <2>1, <2>3, <2>5 DEF SameState
    <3>3. Slow => ScanCount'
      BY <2>1, <2>3, <2>4 DEF ScanCount
    <3> QED BY <2>1, <2>2, <3>1, <3>2, <3>3 DEF StuckIsStill, NoStandoff
  <2>6. CASE ~(reg.state = cur_state /\ i + 1 < MaxWait) /\ Judged(reg) = "while"
    <3>1. pc' = "while" /\ result' = result
      BY <1>4, <2>6 DEF Wait
    <3> QED BY <2>1, <2>2, <3>1 DEF SameState, ScanCount, StuckIsStill, NoStandoff
  <2>7. CASE ~(reg.state = cur_state /\ i + 1 < MaxWait) /\ Judged(reg) = "stuck"
    <3>1. pc' = "done" /\ result' = "stuck"
      BY <1>4, <2>7 DEF Wait, Return
    <3>2. reg.state = cur_state /\ i' = MaxWait
          /\ (reg.state = "DEVICE_SCAN" => prev_abs = reg)
      BY <2>1, <2>3, <2>7 DEF Judged
    <3>3. ASSUME Slow PROVE quiet' = MaxWait
      <4>1. CASE cur_state # "DEVICE_SCAN"
        BY <2>1, <2>3, <3>2, <3>3, <4>1 DEF SameState
      <4>2. CASE cur_state = "DEVICE_SCAN"
        <5>1. PICK m \in 0 .. i' : /\ reg.scan = CountOn(prev_abs.scan, m)
                                   /\ m = 0 => quiet' >= i'
          BY <2>4, <3>2, <3>3, <4>2
        <5>2. prev_abs.scan \in 0 .. Scans - 1 /\ prev_abs.scan = reg.scan
          BY <3>2, <4>2 DEF TypeOK, Register
        <5>3. m = 0
          BY <3>2, <5>1, <5>2, CountMoves
        <5> QED BY <2>1, <2>3, <3>2, <5>1, <5>3
      <4> QED BY <4>1, <4>2
    <3>4. Slow => NoStandoff'
      BY <2>1, <3>2 DEF SameState, NoStandoff
    <3>5. Ended'
      BY <3>1, <3>3, <3>4 DEF StuckIsStill, NoStandoff
    <3> QED BY <3>1, <3>5 DEF LastLook, SameState, ScanCount
  <2>8. Judged(reg) \in {"while", "stuck"}
    BY DEF Judged
  <2> QED BY <2>5, <2>6, <2>7, <2>8
<1>5. CASE Count
  <2>1. /\ pc # "done" /\ (Slow => ~moves) /\ moves' = TRUE
        /\ reg' = [reg EXCEPT !.scan = IF @ = Scans - 1 THEN 0 ELSE @ + 1]
        /\ quiet' = (IF reg.state = "DEVICE_SCAN" THEN 0 ELSE quiet)
        /\ UNCHANGED <<rung, pc, locals, result>>
    BY <1>5 DEF Count, MayMove
  <2>2. /\ reg'.state = reg.state
        /\ reg'.scan = IF reg.scan = Scans - 1 THEN 0 ELSE reg.scan + 1
        /\ reg.scan \in 0 .. Scans - 1
    BY <2>1 DEF TypeOK, Register
  <2>3. Slow => LastLook'
    <3>1. ASSUME Slow, pc \in {"while", "wait"} PROVE reg'.scan = CountOn(cur_abs'.scan, 1)
      BY <2>1, <2>2, <3>1 DEF LastLook, CountOn, locals
    <3> QED BY <2>1, <3>1 DEF LastLook, locals
  <2>4. Slow => SameState'
    BY <2>1, <2>2 DEF SameState, locals
  <2>5. Slow => ScanCount'
    <3>1. ASSUME Slow, pc = "wait", cur_state = "DEVICE_SCAN", reg.state = "DEVICE_SCAN"
          PROVE  /\ prev_abs.state = "DEVICE_SCAN"
                 /\ \E m \in 0 .. i + 1 : /\ reg'.scan = CountOn(prev_abs.scan, m)
                                           /\ m # 0
      <4>1. PICK m \in 0 .. i + 1 : reg.scan = CountOn(prev_abs.scan, m) /\ m <= i
        BY <2>1, <3>1 DEF ScanCount
      <4>2. i \in 0 .. MaxWait /\ i < MaxWait /\ prev_abs.scan \in 0 .. Scans - 1
        BY <3>1 DEF TypeOK, WaitLimit, Register
      <4>3. reg'.scan = CountOn(prev_abs.scan, m + 1)
        BY <2>2, <4>1, <4>2, CountNext
      <4>4. m + 1 \in 0 .. i + 1 /\ m + 1 # 0
        BY <4>1, <4>2
      <4>5. prev_abs.state = "DEVICE_SCAN"
        BY <3>1 DEF ScanCount
      <4> QED BY <4>3, <4>4, <4>5
    <3> QED BY <2>1, <2>2, <3>1 DEF ScanCount, locals
  <2> QED BY <2>1, <2>3, <2>4, <2>5 DEF StuckIsStill, NoStandoff
<1>6. CASE Move
  <2>1. /\ pc # "done" /\ (Slow => ~moves) /\ moves' = TRUE /\ quiet' = 0
        /\ UNCHANGED <<pc, locals, result>>
        /\ reg'.state # reg.state
    BY <1>6 DEF Move, MayMove, TypeOK, Register
  <2>2. Slow => LastLook'
    BY <2>1 DEF LastLook, locals
  <2>3. Slow /\ pc = "wait" => reg'.state # cur_state
    BY <2>1 DEF LastLook, SameState
  <2> QED BY <2>1, <2>2, <2>3 DEF SameState, ScanCount, StuckIsStill, NoStandoff, locals
<1>7. CASE UNCHANGED vars
  BY <1>7 DEF vars, LastLook, SameState, ScanCount, StuckIsStill, NoStandoff
<1> QED BY <1>1, <1>2, <1>3, <1>4, <1>5, <1>6, <1>7 DEF Next, Driver

(***************************************************************************)
(* The inductive invariant, for waits and counts of any length.            *)
(***************************************************************************)
THEOREM TransitionInductive == Spec => []IInv
BY TransitionInit, TransitionStep, PTL DEF Spec

(***************************************************************************)
(* "Firmware stuck in state" is only said of a firmware that stood still   *)
(* for a whole wait, however long a wait is.                               *)
(***************************************************************************)
THEOREM StuckStoodStill == Spec => []StuckIsStill
<1>1. IInv => StuckIsStill
  BY DEF IInv, Ended
<1> QED BY <1>1, TransitionInductive, PTL

(***************************************************************************)
(* A firmware given up while it waited for the host had been rung.         *)
(***************************************************************************)
THEOREM NeverStandoff == Spec => []NoStandoff
<1>1. IInv => NoStandoff
  BY DEF IInv, Ended
<1> QED BY <1>1, TransitionInductive, PTL

-----------------------------------------------------------------------------
(* Transition_Firmware ends.  While the firmware stands still, the driver  *)
(* is either in a wait that will find it so, or has one more look to take  *)
(* before it begins that wait; the looks that are left are counted.        *)

\* The firmware changes its state, or moves during a scan.
Stir == reg'.state # reg.state \/ reg.state = "DEVICE_SCAN"
Stands == [][~Stir]_reg

\* What the driver compares with is what the register shows.
SeenNow   == cur_abs.state = reg.state /\ (reg.state = "DEVICE_SCAN" => cur_abs = reg)
WaitsOnIt == cur_state = reg.state /\ (reg.state = "DEVICE_SCAN" => prev_abs = reg)

\* Steps that are left to the driver, at most, if nothing stirs.
StepsLeft ==
    IF pc = "done" THEN 0
    ELSE IF pc = "enter" THEN 2 * MaxWait + 3
    ELSE IF pc = "while" THEN IF SeenNow THEN MaxWait + 1 ELSE 2 * MaxWait + 2
    ELSE IF WaitsOnIt THEN MaxWait - i ELSE MaxWait + 1 + (MaxWait - i)

Nearby(n)   == StepsLeft <= n
Measured    == StepsLeft \in Nat
Returned    == pc = "done"
Known       == TypeOK /\ WaitLimit
Comes(n, m) == [](Nearby(n) /\ []Stands => <>Nearby(m))

LEMMA StepsCounted ==
    Known => StepsLeft \in 0 .. 2 * MaxWait + 3 /\ (StepsLeft = 0 <=> Returned)
BY DEF Known, TypeOK, WaitLimit, StepsLeft, Returned

\* A step of the driver leaves fewer.
LEMMA DriverAdvances == ASSUME Known, Driver PROVE StepsLeft' < StepsLeft
<1> USE DEF Known, TypeOK, WaitLimit
<1>1. CASE Enter
  BY <1>1 DEF Enter, Look, StepsLeft, SeenNow
<1>2. CASE Leave
  BY <1>2 DEF Leave, Return, StepsLeft
<1>3. CASE Switch
  <2>1. /\ pc = "while" /\ pc' = "wait" /\ i' = 0 /\ reg' = reg
        /\ cur_state' = cur_abs.state
        /\ cur_abs.state = "DEVICE_SCAN" => prev_abs' = cur_abs
    BY <1>3 DEF Switch
  <2>2. SeenNow => WaitsOnIt'
    BY <2>1 DEF SeenNow, WaitsOnIt
  <2> QED BY <2>1, <2>2 DEF StepsLeft
<1>4. CASE Wait
  <2>1. /\ pc = "wait" /\ i < MaxWait /\ i' = i + 1 /\ reg' = reg /\ cur_abs' = reg
        /\ UNCHANGED <<prev_abs, cur_state>>
    BY <1>4 DEF Wait, Look
  <2>2. WaitsOnIt' <=> WaitsOnIt
    BY <2>1 DEF WaitsOnIt
  <2>3. CASE reg.state = cur_state /\ i + 1 < MaxWait
    BY <1>4, <2>1, <2>2, <2>3 DEF Wait, StepsLeft
  <2>4. CASE ~(reg.state = cur_state /\ i + 1 < MaxWait)
    <3>1. \/ Judged(reg) = "while" /\ pc' = "while"
          \/ pc' = "done"
      BY <1>4, <2>4 DEF Wait, Return
    <3>2. WaitsOnIt => Judged(reg) = "stuck"
      BY DEF WaitsOnIt, Judged
    <3>3. SeenNow'
      BY <2>1 DEF SeenNow
    <3> QED BY <2>1, <3>1, <3>2, <3>3 DEF StepsLeft
  <2> QED BY <2>3, <2>4
<1> QED BY <1>1, <1>2, <1>3, <1>4 DEF Driver

\* The firmware, while nothing stirs, leaves as many.
LEMMA FirmwareKeeps ==
    ASSUME Known, Count \/ Move, [~Stir]_reg PROVE StepsLeft' = StepsLeft
<1>1. reg'.state = reg.state /\ (reg.state = "DEVICE_SCAN" => reg' = reg)
  BY DEF Stir
<1>2. UNCHANGED <<pc, cur_abs, prev_abs, cur_state, i>>
  BY DEF Count, Move, locals
<1>3. (SeenNow' <=> SeenNow) /\ (WaitsOnIt' <=> WaitsOnIt)
  BY <1>1, <1>2 DEF SeenNow, WaitsOnIt
<1> QED BY <1>2, <1>3 DEF StepsLeft

\* Until it has returned, the driver has a next step, whatever the firmware
\* shows: no state of the register is left out of the switch, no outcome of a
\* look is left out after the loop.
DriverReady == pc # "done" => ENABLED <<Driver>>_vars

Fair == FairSpec /\ []DriverReady

\* One step fewer is left, some time.
LEMMA OneStepOn == ASSUME NEW n \in Nat PROVE Fair => Comes(n + 1, n)
<1>0. Known' => StepsLeft' \in Nat
  <2>1. Known => Measured
    BY StepsCounted DEF Measured
  <2>2. Known' => Measured'
    BY <2>1, PTL
  <2> QED BY <2>2 DEF Measured
<1>1. ASSUME Known, Known', Nearby(n + 1), [Next]_vars, [~Stir]_reg PROVE Nearby(n + 1)'
  <2>1. CASE Driver
    BY <1>0, <1>1, <2>1, DriverAdvances, StepsCounted DEF Nearby
  <2>2. CASE Count \/ Move
    BY <1>1, <2>2, FirmwareKeeps DEF Nearby
  <2>3. CASE UNCHANGED vars
    BY <1>1, <2>3 DEF vars, Nearby, StepsLeft, SeenNow, WaitsOnIt
  <2> QED BY <1>1, <2>1, <2>2, <2>3 DEF Next
<1>2. ASSUME Known, Known', Nearby(n + 1), Driver PROVE Nearby(n)'
  BY <1>0, <1>2, DriverAdvances, StepsCounted DEF Nearby
<1>3. Known /\ Known' /\ Nearby(n + 1) /\ [Next]_vars /\ [~Stir]_reg => Nearby(n + 1)'
  BY <1>1
<1>4. Known /\ Known' /\ Nearby(n + 1) /\ <<Driver>>_vars => Nearby(n)'
  BY <1>2
<1>5. Known /\ Returned => Nearby(n)
  BY StepsCounted DEF Nearby
<1>6. DriverReady => Returned \/ ENABLED <<Driver>>_vars
  BY DEF DriverReady, Returned
<1>7. IInv => Known
  BY DEF IInv, Known
<1> QED BY <1>3, <1>4, <1>5, <1>6, <1>7, TransitionInductive, PTL
        DEF Fair, Comes, Stands, FairSpec, Spec

Leads(d) == \A n \in Nat : Fair => Comes(n + d, n)

LEMMA LeadsTwice == ASSUME NEW d \in Nat, Leads(d) PROVE Leads(d + d)
<1> SUFFICES ASSUME NEW n \in Nat PROVE Fair => Comes(n + (d + d), n)
  BY DEF Leads
<1>1. Fair => Comes(n + d, n)
  BY DEF Leads
<1>2. Fair => Comes((n + d) + d, n + d)
  BY DEF Leads
<1>3. (n + d) + d = n + (d + d)
  OBVIOUS
<1>4. Fair => Comes(n + (d + d), n + d)
  BY <1>2, <1>3
<1> QED BY <1>1, <1>4, PTL DEF Comes, Stands

(***************************************************************************)
(* Transition_Firmware ends, unless the firmware changes its state or      *)
(* scans for ever, for every length of a wait that its loop index, an int  *)
(* of at most max_wait * 10 = 1800, may be given.  That the driver can     *)
(* take its next step (DriverReady) is a premise here.                     *)
(***************************************************************************)
THEOREM TransitionEnds == MaxWait <= 30000 => (FairSpec /\ []DriverReady => Ends)
<1>0. Leads(1)
  BY OneStepOn DEF Leads
<1>1. Leads(2)
  BY <1>0, LeadsTwice, 1 + 1 = 2
<1>2. Leads(4)
  BY <1>1, LeadsTwice, 2 + 2 = 4
<1>3. Leads(8)
  BY <1>2, LeadsTwice, 4 + 4 = 8
<1>4. Leads(16)
  BY <1>3, LeadsTwice, 8 + 8 = 16
<1>5. Leads(32)
  BY <1>4, LeadsTwice, 16 + 16 = 32
<1>6. Leads(64)
  BY <1>5, LeadsTwice, 32 + 32 = 64
<1>7. Leads(128)
  BY <1>6, LeadsTwice, 64 + 64 = 128
<1>8. Leads(256)
  BY <1>7, LeadsTwice, 128 + 128 = 256
<1>9. Leads(512)
  BY <1>8, LeadsTwice, 256 + 256 = 512
<1>10. Leads(1024)
  BY <1>9, LeadsTwice, 512 + 512 = 1024
<1>11. Leads(2048)
  BY <1>10, LeadsTwice, 1024 + 1024 = 2048
<1>12. Leads(4096)
  BY <1>11, LeadsTwice, 2048 + 2048 = 4096
<1>13. Leads(8192)
  BY <1>12, LeadsTwice, 4096 + 4096 = 8192
<1>14. Leads(16384)
  BY <1>13, LeadsTwice, 8192 + 8192 = 16384
<1>15. Leads(32768)
  BY <1>14, LeadsTwice, 16384 + 16384 = 32768
<1>16. Leads(65536)
  BY <1>15, LeadsTwice, 32768 + 32768 = 65536
<1>20. Fair => Comes(65536, 0)
  <2>1. Fair => Comes(0 + 65536, 0)
    BY <1>16 DEF Leads
  <2> QED BY <2>1, 0 + 65536 = 65536
<1>21. ASSUME MaxWait <= 30000 PROVE Fair => Ends
  <2>1. Known => Nearby(65536)
    BY <1>21, StepsCounted DEF Nearby
  <2>2. Known /\ Nearby(0) => Returned
    BY StepsCounted DEF Nearby
  <2>3. IInv => Known
    BY DEF IInv, Known
  <2> QED BY <1>20, <2>1, <2>2, <2>3, TransitionInductive, PTL
          DEF Fair, Comes, Stands, Ends, Stir, Returned, FairSpec
<1> QED BY <1>21 DEF Fair

-----------------------------------------------------------------------------
(* The loop as one step                                                    *)

\* In a state that settles the driver finds the firmware as it is.
FoundSettled(s) ==
    /\ s \in {"READY", "FAULT"} =>
          reg.state = s /\ pc # "wait" /\ (pc = "while" => cur_abs.state = s)
    /\ pc = "while" /\ cur_abs.state \in {"READY", "FAULT"} => reg.state = cur_abs.state
AnswersIInv(s) == FoundSettled(s) /\ Answers(s) /\ (result # "none" => pc = "done")

LEMMA AnswersStep ==
    ASSUME NEW s \in States, AnswersIInv(s), [Next]_vars,
           reg.state \in {"READY", "FAULT"} => reg'.state = reg.state
    PROVE  AnswersIInv(s)'
<1> USE DEF AnswersIInv, FoundSettled, Answers, firmware, locals
<1>1. CASE Enter
  BY <1>1 DEF Enter, Look
<1>2. CASE Leave
  <2>1. /\ pc = "while" /\ cur_abs.state \in Failed \cup {"READY"} /\ pc' = "done"
        /\ result' = IF cur_abs.state = "READY" THEN "ready" ELSE "failed"
        /\ UNCHANGED <<reg, cur_abs>>
    BY <1>2 DEF Leave, Return
  <2>2. Outcome(Condition(s), Condition(reg.state), result' = "ready")
    BY <2>1 DEF Outcome, Condition, Failed
  <2> QED BY <2>1, <2>2
<1>3. CASE Switch
  BY <1>3 DEF Switch, Waiting, Handshakes, DoorbellOf
<1>4. CASE Wait
  <2>1. pc = "wait" /\ cur_abs' = reg /\ reg' = reg
    BY <1>4 DEF Wait, Look
  <2>2. s \notin {"READY", "FAULT"}
    BY <2>1
  <2>3. \/ pc' \in {"wait", "while"} /\ result' = result
        \/ pc' = "done" /\ result' = "stuck"
    BY <1>4, <2>1 DEF Wait, Return
  <2>4. result' # "ready" => Outcome(Condition(s), Condition(reg.state), result' = "ready")
    BY <2>2 DEF Outcome, Condition
  <2> QED BY <2>1, <2>2, <2>3, <2>4
<1>5. CASE Count \/ Move
  <2>1. pc # "done" /\ UNCHANGED <<pc, cur_abs, result>>
    BY <1>5 DEF Count, Move, MayMove
  <2> QED BY <2>1
<1>6. CASE UNCHANGED vars
  BY <1>6 DEF vars
<1> QED BY <1>1, <1>2, <1>3, <1>4, <1>5, <1>6 DEF Next, Driver

(***************************************************************************)
(* Transition_Firmware, whatever state the firmware is in when it is       *)
(* called and however it moves, as long as it leaves neither READY nor     *)
(* FAULT by itself: the loop answers as the one step does that             *)
(* MegaRAIDPower takes for it.                                             *)
(***************************************************************************)
THEOREM LoopIsOneStep == \A s \in States : Spec /\ reg.state = s /\ Settles => []Answers(s)
<1> SUFFICES ASSUME NEW s \in States PROVE Spec /\ reg.state = s /\ Settles => []Answers(s)
  OBVIOUS
<1>1. Init /\ reg.state = s => AnswersIInv(s)
  BY DEF Init, AnswersIInv, FoundSettled, Answers
<1>2. AnswersIInv(s) /\ [Next]_vars /\ [reg.state \in {"READY", "FAULT"} => reg'.state = reg.state]_reg
        => AnswersIInv(s)'
  BY AnswersStep
<1>3. AnswersIInv(s) => Answers(s)
  BY DEF AnswersIInv
<1> QED BY <1>1, <1>2, <1>3, PTL DEF Spec, Settles
=============================================================================
