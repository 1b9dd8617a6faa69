\* The feeder and launchd over a version 2 timer.
CONSTANTS
    Version = 2
    Timeout = 6
    Default = 30
    SelfFeeding = FALSE
    Workaround = FALSE
    Word = 8192
    KeepAlive = TRUE
    RestartDelay = 3
SPECIFICATION FairFeederSpec
INVARIANTS NoResetWhileFed TermIsSafe
PROPERTIES StallResets
CHECK_DEADLOCK FALSE
