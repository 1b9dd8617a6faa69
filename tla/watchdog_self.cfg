\* Version 1 at the shortest timeout it can take.
CONSTANTS
    Version = 1
    Timeout = 5
    Default = 30
    SelfFeeding = TRUE
    Workaround = FALSE
    Word = 8192
SPECIFICATION FairSpec
INVARIANTS ResetOnlyOnHalt LeavesAsFound
PROPERTIES HaltResets
CHECK_DEADLOCK FALSE
