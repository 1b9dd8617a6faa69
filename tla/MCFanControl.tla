----------------------------- MODULE MCFanControl -----------------------------
(* The boards of Andigilog-Info.plist, and boards of every shape.          *)
EXTENDS FanControl

\* "Active" has PCI Cage, Memory and CPU; its unused PWM is left out.
Active == <<NoPwm, 1, 0>>
Common == <<0, 1, 2, 2>>       \* "Mapping common for Intel boards"

\* NextKeyed is asked for places up to the end, and never after it.
ASSUME WalkAssumption ==
    \A board \in UNION {[1 .. n -> {NoKey, 0}] : n \in 1 .. 6} :
        NoGaps(board) <=> WalkFinds(board)

\* The board of the run is one the theorems are about.
ASSUME SoundAssumption == SoundBoard

(***************************************************************************)
(* What the run looks at (bounds).  Speeds share no variable with modes    *)
(* and duties, and nothing depends on a duty but the next one: a behaviour *)
(* is about speeds, or about modes, from duty registers at 0, and then it  *)
(* is over with its first duty (DutyLast).  OneWrong: transactions without *)
(* effect and overlaps of GetConf with SetPwmMode are about one PWM only.  *)
(***************************************************************************)
Still    == hwDuty = [p \in Pwms |-> 0]
Unread   == obsoleted = [fan \in Fans |-> TRUE] /\ reading = [fan \in Fans |-> "raw"]
NoDuty   == duty = [p \in Pwms |-> -2]
AtRest   == cpc = "reset" /\ spc = "idle" /\ commanded = {} /\ NoDuty
Apart    == (UNCHANGED sensorVars /\ Unread) \/ (sensorVars' # sensorVars /\ AtRest)
DutyLast == NoDuty
MCInit   == Init /\ Still
OneWrong == Cardinality(spoiled' \cup overlapped') <= 1
MCNext   == Next /\ Apart /\ DutyLast /\ OneWrong
MCSpec   == MCInit /\ [][MCNext]_vars
=============================================================================
