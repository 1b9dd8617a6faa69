\* The board "Active" of the property list, with transactions that have no effect.
CONSTANTS
    Board <- Active
    NUM_PWM = 2
    Duties = {0, 255}
    Faulty = TRUE
    Stray = FALSE
SPECIFICATION MCSpec
INVARIANTS RealStates AutoIsAuto EncodedOnce
PROPERTIES DutyOnlyManual
CHECK_DEADLOCK FALSE
