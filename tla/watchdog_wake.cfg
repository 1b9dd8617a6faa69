\* Nobody feeds, and the system sleeps and wakes up.
CONSTANTS
    Version = 2
    Timeout = 30
    Default = 30
    SelfFeeding = FALSE
    Workaround = FALSE
    Word = 8192
SPECIFICATION Spec
INVARIANTS ArmedOnDemand
CHECK_DEADLOCK FALSE
