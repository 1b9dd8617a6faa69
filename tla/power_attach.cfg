\* The controller's interrupts never reach the processor.
CONSTANTS
    Tasks = {t1}
    Users = {}
    Pm = pm
    PreferMSI = FALSE
    HasMSI = FALSE
    Wired = FALSE
    MaxSleeps = 1
    MaxUnderWay = 1
SPECIFICATION Spec
INVARIANTS AttachEnsuresInterrupts
CHECK_DEADLOCK FALSE
