------------------------------ MODULE FanControl ------------------------------
(***************************************************************************)
(* The Andigilog plug-in for the aSC7621: the state it takes over from the *)
(* chip when it starts (GetConf, which runs when the SMC keys are already  *)
(* published), manual and automatic mode of the fans (SetPwmMode behind    *)
(* the FS! key), their duty (SetPwmDuty) and the cached tachometer         *)
(* readings (readSensor, updateSensors).  FakeSMC calls one callback at a  *)
(* time; each holds the bus lock over its transactions, GetConf does not,  *)
(* and pwm_mode is under no lock: a step is a transaction, or one load or  *)
(* store of what the two share.                                            *)
(*                                                                         *)
(* A bus transaction may have no effect.  The driver looks at the result   *)
(* of none: ReadI2CBus leaves the driver's variable alone then, and        *)
(* I2CExec never returns the -1 that GetConf compares with.                *)
(***************************************************************************)
EXTENDS FanBoards

CONSTANTS
    Board,     \* of FanBoards
    NUM_PWM,
    Duties,    \* the values of the duty register, 0 .. 0xff in five steps
    Faulty,    \* bus transactions may have no effect
    Stray      \* the SMC may set the bit after the last fan's

Pwms == 0 .. NUM_PWM - 1

ASSUME PwmAssumption   == NUM_PWM \in Nat \ {0}
ASSUME BoardAssumption == Board \in Seq(NoKey .. NUM_PWM - 1) /\ Board # <<>>
ASSUME FlagsAssumption == Faulty \in BOOLEAN /\ Stray \in BOOLEAN

Fans    == FansOf(Board)
PwmOf   == [fan \in Fans |-> PwmOn(Board, fan)]
FansOn(p) == {fan \in Fans : PwmOf[fan] = p}

\* num_fan is one more than there are fans.
NumFan  == Cardinality(Fans) + 1
Past    == IF Stray THEN NoPwm .. NUM_PWM - 1 ELSE {NoPwm}
Bits    == IF Stray THEN 0 .. NumFan - 1 ELSE Fans

(***************************************************************************)
(* A PWM configuration register: its zone field (ASC7621_FANCM) and its    *)
(* alternate bit.  Zone 7 is manual, 3 runs the fan at full speed, 4 is    *)
(* what the driver makes of 3.                                             *)
(***************************************************************************)
Confs  == [zone : 0 .. 7, alt : BOOLEAN]
Found  == [zone : {1, 3, 4, 7}, alt : {FALSE}]   \* one for each way of treating it
Manual == [zone |-> 7, alt |-> FALSE]
Cruise == [zone |-> 1, alt |-> TRUE]

VARIABLES
    hwConf, hwDuty,  \* the chip's registers
    pwm_mode,        \* config.pwm_mode, the fans whose bit is set
    value, duty,     \* Pwm[].value and Pwm[].duty
    \* GetConf: where it is, the PWM of this turn (NUM_PWM when it is over), its
    \* conf, the fans whose bits it has yet to set and the pwm_mode it adds one to
    cpc, confNext, conf, cFans, cMode,
    \* The callback: where it is; the val, i and j of SetPwmMode, its init_pwm,
    \* idx and conf and the pwm_mode it is about to change; the data of SetPwmDuty
    spc, val, fanBit, fanPlace, init_pwm, idx, new, sMode, data,
    commanded,       \* PWMs that SetPwmMode has written since GetConf began (history)
    spoiled,         \* PWMs a transaction without effect was about, and that were
                     \* not written since (history)
    overlapped,      \* PWMs that GetConf and SetPwmMode had in hand at once, or whose
                     \* bit one of them wrote over, and that SetPwmMode has not come
                     \* to again since (history)
    obsoleted, reading  \* Measures[].obsoleted; is the value raw or encoded

confVars   == <<cpc, confNext, conf, cFans, cMode>>
loopVars   == <<fanBit, fanPlace, init_pwm>>
callVars   == <<spc, val, loopVars, idx, new, sMode, data>>
chipVars   == <<hwConf, pwm_mode, value>>
history    == <<commanded, spoiled, overlapped>>
dutyVars   == <<hwDuty, duty>>
sensorVars == <<obsoleted, reading>>
vars == <<hwConf, hwDuty, pwm_mode, value, duty, cpc, confNext, conf, cFans, cMode, spc, val,
          fanBit, fanPlace, init_pwm, idx, new, sMode, data, commanded, spoiled, overlapped, obsoleted,
          reading>>

Unset == [zone |-> 0, alt |-> FALSE]

Init ==
    /\ hwConf \in [Pwms -> Found]
    /\ hwDuty \in [Pwms -> Duties]
    /\ pwm_mode = {}
    /\ value = [p \in Pwms |-> Unset]
    /\ duty = [p \in Pwms |-> -2]
    /\ cpc = "reset" /\ confNext = 0 /\ conf = Unset /\ cFans = {} /\ cMode = {}
    /\ spc = "idle" /\ val = {} /\ fanBit = 0 /\ fanPlace = 0 /\ init_pwm = {}
    /\ idx = 0 /\ new = Unset /\ sMode = {} /\ data = -2
    /\ commanded = {} /\ spoiled = {} /\ overlapped = {}
    /\ obsoleted = [fan \in Fans |-> TRUE]
    /\ reading = [fan \in Fans |-> "raw"]

-----------------------------------------------------------------------------
(* GetConf                                                                 *)

\* GetConf is in its turn for p; SetPwmMode has the fan of p in hand.
InTurn(p) == cpc \in {"write", "load", "store", "keep"} /\ confNext = p
InHand(p) == spc \in {"load", "store", "value", "write"} /\ idx = p

\* PWMs of the bits that a store of what was loaded as pwm_mode writes over.
WrittenOver(loaded) ==
    {PwmOf[fan] : fan \in Fans \cap ((loaded \ pwm_mode) \cup (pwm_mode \ loaded))} \cap Pwms

\* GetConf forgets the modes that the SMC has set so far.
GetConfReset ==
    /\ cpc = "reset"
    /\ pwm_mode' = {}
    /\ cpc' = "read"
    /\ commanded' = {}
    /\ overlapped' = overlapped \cup {p \in Pwms : InHand(p)}
    /\ UNCHANGED <<hwConf, value, confNext, conf, cFans, cMode, callVars, spoiled, dutyVars,
                   sensorVars>>

\* What GetConf's variable conf holds after a read of the register of p: when
\* the read had no effect, what is left of the turn before, at first garbage.
Read(p) == {hwConf[p]} \cup IF ~Faulty THEN {} ELSE IF p = 0 THEN Found ELSE {conf}

\* Mutant of Modes: manual mode of the chip (zone 7) is not looked for.
ModesFullOnly(c) == [manual |-> c.zone = 3, written |-> c.zone = 3]

\* Whether the fans are taken over as manual, and whether the register is
\* written, to zone 4.  ASC7621_ALTBG(val) looks at the zone, where its bit is
\* always clear.
Modes(c) == [manual |-> c.zone \in {3, 7}, written |-> c.zone = 3]

\* On to the bits of the PWM's fans that are still to be set.
SetBits(fans) == cFans' = fans /\ cpc' = IF fans = {} THEN "keep" ELSE "load"

\* A turn begins.  GetConf does not hold the bus lock: SetPwmMode may run
\* between any two steps of a turn, and in the middle of pwm_mode |= ....
GetConfRead ==
    /\ cpc = "read" /\ confNext \in Pwms
    /\ \E c \in Read(confNext) :
          /\ conf' = c
          /\ IF Modes(c).written THEN cpc' = "write" /\ UNCHANGED cFans
             ELSE SetBits(IF Modes(c).manual THEN FansOn(confNext) ELSE {})
          /\ spoiled' = IF c # hwConf[confNext] THEN spoiled \cup {confNext} ELSE spoiled
    /\ overlapped' = overlapped \cup {p \in {confNext} : InHand(p)}
    /\ UNCHANGED <<chipVars, confNext, cMode, callVars, commanded, dutyVars, sensorVars>>

GetConfWrite ==
    /\ cpc = "write"
    /\ conf' = [conf EXCEPT !.zone = 4]
    /\ \/ hwConf' = [hwConf EXCEPT ![confNext] = conf'] /\ spoiled' = spoiled \ {confNext}
       \/ Faulty /\ UNCHANGED hwConf /\ spoiled' = spoiled \cup {confNext}
    /\ SetBits(FansOn(confNext))
    /\ UNCHANGED <<pwm_mode, value, confNext, cMode, callVars, commanded, overlapped, dutyVars,
                   sensorVars>>

GetConfLoad ==
    /\ cpc = "load"
    /\ cMode' = pwm_mode
    /\ cpc' = "store"
    /\ UNCHANGED <<chipVars, confNext, conf, cFans, callVars, history, dutyVars, sensorVars>>

GetConfStore ==
    /\ cpc = "store"
    /\ \E fan \in cFans :
          /\ \A f \in cFans : fan <= f
          /\ pwm_mode' = cMode \cup {fan}
          /\ SetBits(cFans \ {fan})
    /\ overlapped' = overlapped \cup WrittenOver(cMode)
    /\ cMode' = {}
    /\ UNCHANGED <<hwConf, value, confNext, conf, callVars, commanded, spoiled, dutyVars,
                   sensorVars>>

GetConfKeep ==
    /\ cpc = "keep"
    /\ value' = [value EXCEPT ![confNext] = conf]
    /\ confNext' = confNext + 1
    /\ conf' = IF confNext' = NUM_PWM THEN Unset ELSE conf
    /\ cpc' = "read"
    /\ UNCHANGED <<hwConf, pwm_mode, cFans, cMode, callVars, history, dutyVars, sensorVars>>

-----------------------------------------------------------------------------
(* SetPwmMode                                                              *)

SetPwmMode(v) ==
    /\ spc = "idle"
    /\ spc' = "bit" /\ val' = v
    /\ UNCHANGED <<chipVars, confVars, loopVars, idx, new, sMode, data, history, dutyVars,
                   sensorVars>>

\* One turn of its loop.  Past the last sensor it reads Measures[8].hwsensor.pwm;
\* numbers beyond the PWMs, with which it would leave its other arrays too, are
\* not modelled.
AtBit   == spc = "bit" /\ fanBit < NumFan
Differs == fanBit \in val <=> fanBit \notin pwm_mode
Sensors == [j \in 0 .. Len(Board) |-> NextKeyed(Board, j)]
PwmsAt(j) == IF j = Len(Board) THEN Past ELSE {Board[j + 1]}

\* Bits that do not differ, and those of fans without a PWM, are left alone.
SkipBit ==
    /\ AtBit
    /\ \/ ~Differs /\ fanPlace' = fanPlace + 1
       \/ /\ Differs
          /\ \E pwm \in PwmsAt(Sensors[fanPlace]) : pwm < 0
          /\ fanPlace' = Sensors[fanPlace] + 1
    /\ fanBit' = fanBit + 1
    /\ UNCHANGED <<chipVars, confVars, spc, val, init_pwm, idx, new, sMode, data, history,
                   dutyVars, sensorVars>>

FindFan ==
    /\ AtBit /\ Differs
    /\ \E pwm \in PwmsAt(Sensors[fanPlace]) :
          /\ pwm >= 0
          /\ idx' = pwm
          /\ overlapped' = IF InTurn(pwm) THEN overlapped \cup {pwm} ELSE overlapped \ {pwm}
    /\ fanPlace' = Sensors[fanPlace]
    /\ spc' = "load"
    /\ UNCHANGED <<chipVars, confVars, val, fanBit, init_pwm, new, sMode, data, commanded, spoiled,
                   dutyVars, sensorVars>>

LoadMode ==
    /\ spc = "load"
    /\ sMode' = pwm_mode
    /\ spc' = "store"
    /\ UNCHANGED <<chipVars, confVars, val, loopVars, idx, new, data, history, dutyVars, sensorVars>>

\* Of several fans on one PWM the first one decides what is written.
StoreMode ==
    /\ spc = "store"
    /\ pwm_mode' = IF fanBit \in val THEN sMode \cup {fanBit} ELSE sMode \ {fanBit}
    /\ overlapped' = overlapped \cup WrittenOver(sMode)
    /\ sMode' = {}
    /\ IF idx \in init_pwm
         THEN spc' = "bit" /\ fanBit' = fanBit + 1 /\ fanPlace' = fanPlace + 1
         ELSE spc' = "value" /\ UNCHANGED <<fanBit, fanPlace>>
    /\ UNCHANGED <<hwConf, value, confVars, val, init_pwm, idx, new, data, commanded, spoiled,
                   dutyVars, sensorVars>>

\* Mutant of AutoConf: whatever GetConf found is written back.
AutoConfFound(c) == c

\* The configuration SetPwmMode writes for automatic mode.
AutoConf(c) == IF c.zone \in {4, 7} THEN Cruise ELSE c

ReadValue ==
    /\ spc = "value"
    /\ new' = IF fanBit \in val THEN Manual ELSE AutoConf(value[idx])
    /\ spc' = "write"
    /\ UNCHANGED <<chipVars, confVars, val, loopVars, idx, sMode, data, history, dutyVars,
                   sensorVars>>

WriteConf ==
    /\ spc = "write"
    /\ \/ hwConf' = [hwConf EXCEPT ![idx] = new] /\ spoiled' = spoiled \ {idx}
       \/ Faulty /\ UNCHANGED hwConf /\ spoiled' = spoiled \cup {idx}
    /\ init_pwm' = init_pwm \cup {idx}
    /\ commanded' = commanded \cup {idx}
    /\ spc' = "bit" /\ fanBit' = fanBit + 1 /\ fanPlace' = fanPlace + 1
    /\ idx' = 0 /\ new' = Unset
    /\ UNCHANGED <<pwm_mode, value, confVars, val, sMode, data, overlapped, dutyVars, sensorVars>>

SetPwmModeReturn ==
    /\ spc = "bit" /\ fanBit = NumFan
    /\ spc' = "idle" /\ val' = {} /\ fanBit' = 0 /\ fanPlace' = 0 /\ init_pwm' = {} /\ idx' = 0
    /\ UNCHANGED <<chipVars, confVars, new, sMode, data, history, dutyVars, sensorVars>>

-----------------------------------------------------------------------------
(* Duties and speeds                                                       *)

\* A duty equal to the cached one is not written again.
SetPwmDuty(p, d) ==
    IF duty[p] = d THEN UNCHANGED <<spc, idx, data>>
    ELSE spc' = "duty" /\ idx' = p /\ data' = d

\* Mutant of SetMinSpeed: fans in automatic mode are not left out.
SetMinSpeedAnyMode(fan, d) ==
    /\ spc = "idle"
    /\ PwmOf[fan] >= 0
    /\ SetPwmDuty(PwmOf[fan], d)
    /\ UNCHANGED <<chipVars, confVars, val, loopVars, new, sMode, history, dutyVars, sensorVars>>

\* Through its minimum speed a fan in manual mode is given its duty.
SetMinSpeed(fan, d) ==
    /\ spc = "idle"
    /\ fan \in pwm_mode /\ PwmOf[fan] >= 0
    /\ SetPwmDuty(PwmOf[fan], d)
    /\ UNCHANGED <<chipVars, confVars, val, loopVars, new, sMode, history, dutyVars, sensorVars>>

\* A duty that was written is cached, whatever came of it.
WriteDuty ==
    /\ spc = "duty"
    /\ \/ hwDuty' = [hwDuty EXCEPT ![idx] = data]
       \/ Faulty /\ UNCHANGED hwDuty
    /\ duty' = [duty EXCEPT ![idx] = data]
    /\ spc' = "idle" /\ idx' = 0 /\ data' = -2
    /\ UNCHANGED <<chipVars, confVars, val, loopVars, new, sMode, history, sensorVars>>

\* updateSensors refreshes all of them at once.
Updated == [obsoleted |-> [fan \in Fans |-> FALSE], reading |-> [fan \in Fans |-> "raw"]]
Cached  == [obsoleted |-> obsoleted, reading |-> reading]

\* Mutant of ReadSpeed: an obsolete reading is not refreshed.
ReadSpeedStale(fan) ==
    /\ obsoleted' = [obsoleted EXCEPT ![fan] = TRUE]
    /\ reading' = [reading EXCEPT ![fan] = IF @ = "raw" THEN "encoded" ELSE "garbled"]
    /\ UNCHANGED <<chipVars, confVars, callVars, history, dutyVars>>

\* readSensor refreshes a reading that was used before; the get callback then
\* encodes it in place.
ReadSpeed(fan) ==
    LET m == IF obsoleted[fan] THEN Updated ELSE Cached
    IN /\ obsoleted' = [m.obsoleted EXCEPT ![fan] = TRUE]
       /\ reading' = [m.reading EXCEPT ![fan] = IF @ = "raw" THEN "encoded" ELSE "garbled"]
       /\ UNCHANGED <<chipVars, confVars, callVars, history, dutyVars>>

GetConf ==
    GetConfReset \/ GetConfRead \/ GetConfWrite \/ GetConfLoad \/ GetConfStore \/ GetConfKeep
SetPwmModeStep ==
    SkipBit \/ FindFan \/ LoadMode \/ StoreMode \/ ReadValue \/ WriteConf \/ SetPwmModeReturn

Next ==
    \/ GetConf
    \/ \E v \in SUBSET Bits : SetPwmMode(v)
    \/ SetPwmModeStep
    \/ \E fan \in Fans, d \in Duties : SetMinSpeed(fan, d)
    \/ WriteDuty
    \/ \E fan \in Fans : ReadSpeed(fan)

Spec == Init /\ [][Next]_vars

-----------------------------------------------------------------------------
(***************************************************************************)
(* What the properties about modes need: the SMC sets bits of fans there   *)
(* are, no sensor without a key parts fans that the walk of SetPwmMode has *)
(* to tell from each other, and no two fans share a PWM.                   *)
(***************************************************************************)
SoundBoard ==
    /\ ~Stray
    /\ NoGaps(Board)
    /\ \A f, g \in Fans : PwmOf[f] = PwmOf[g] /\ PwmOf[f] # NoPwm => f = g

\* The values every variable may take.
TypeOK ==
    /\ hwConf \in [Pwms -> Confs] /\ hwDuty \in [Pwms -> Duties]
    /\ pwm_mode \subseteq Bits
    /\ value \in [Pwms -> Confs] /\ duty \in [Pwms -> Duties \cup {-2}]
    /\ cpc \in {"reset", "read", "write", "load", "store", "keep"}
    /\ confNext \in 0 .. NUM_PWM /\ conf \in Confs
    /\ cFans \subseteq Fans /\ cMode \subseteq Bits
    /\ spc \in {"idle", "bit", "load", "store", "value", "write", "duty"}
    /\ val \subseteq Bits /\ fanBit \in 0 .. NumFan /\ fanPlace \in 0 .. Len(Board) + 1
    /\ init_pwm \subseteq Pwms /\ idx \in Pwms /\ new \in Confs /\ sMode \subseteq Bits
    /\ data \in Duties \cup {-2}
    /\ commanded \subseteq Pwms /\ spoiled \subseteq Pwms /\ overlapped \subseteq Pwms
    /\ obsoleted \in [Fans -> BOOLEAN]
    /\ reading \in [Fans -> {"raw", "encoded", "garbled"}]

\* PWMs of which nothing went wrong that was not put right, and those that
\* nobody has in hand, either.
Sound   == Pwms \ (spoiled \cup overlapped)
Settled == {p \in Sound : ~InTurn(p) /\ ~InHand(p)}

(***************************************************************************)
(* "Return real states": the bits of FS! say which fans the chip really    *)
(* runs in manual mode, for every PWM GetConf has been through, also when  *)
(* the SMC sets modes before or while GetConf runs.  A transaction without *)
(* effect and a SetPwmMode that comes into the turn of the same PWM, or    *)
(* between load and store of pwm_mode, make the bits wrong for the PWMs    *)
(* they are about alone, and until SetPwmMode changes those again.         *)
(***************************************************************************)
RealStates ==
    \A fan \in Fans : PwmOf[fan] \in Settled /\ PwmOf[fan] < confNext =>
        /\ fan \in pwm_mode => hwConf[PwmOf[fan]].zone \in {4, 7}
        /\ fan \notin pwm_mode => hwConf[PwmOf[fan]].zone # 7

(***************************************************************************)
(* "No auto mode info was obtained": a fan that was put back into          *)
(* automatic mode is not left in manual mode or standing, even if that is  *)
(* how the driver found it, or if it never learnt how it was; but for      *)
(* overlaps with GetConf and transactions without effect, as above.        *)
(***************************************************************************)
AutoIsAuto ==
    \A fan \in Fans : PwmOf[fan] \in commanded \cap Settled /\ fan \notin pwm_mode =>
        hwConf[PwmOf[fan]].zone \notin {4, 7}

(***************************************************************************)
(* A fan's speed is read from the chip and encoded once, in whatever order *)
(* the fans are read: never a stale value encoded over again.              *)
(***************************************************************************)
EncodedOnce == \A fan \in Fans : reading[fan] # "garbled"

(***************************************************************************)
(* A duty is written only to a PWM that the chip runs in manual mode, also *)
(* if GetConf comes between the look at the mode and the write; but for    *)
(* the PWMs that an overlap or a transaction without effect was about.     *)
(***************************************************************************)
DutyOnlyManual ==
    [][\A p \in Sound : hwDuty'[p] # hwDuty[p] => hwConf[p].zone \in {4, 7}]_vars
=============================================================================
