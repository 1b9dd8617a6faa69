\* Waits of two looks, a count that does not come round within one.
CONSTANTS
    MaxWait = 3
    Scans = 4
    Slow = TRUE
SPECIFICATION FairSpec
INVARIANTS StuckIsStill NoStandoff
PROPERTY Ends
CHECK_DEADLOCK FALSE
