\* Up to two sleeps; any request may fail or be late, a task and a command of a program may come at any time.
CONSTANTS
    Tasks = {t1}
    Users = {u1}
    Pm = pm
    PreferMSI = TRUE
    HasMSI = TRUE
    Wired = TRUE
    MaxSleeps = 2
    MaxUnderWay = 1
SPECIFICATION FairSpec
INVARIANTS NothingLost PostedToLive NoStaleSource RepliesHandledOnce GoneIsQuiet ExecHasListener
PROPERTIES PowerChangeEnds
CHECK_DEADLOCK FALSE
