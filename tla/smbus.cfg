\* Two callers without faults; one that gives up, comes back and sees alerts, after a cold start.
CONSTANTS
    Callers = {c1, c2}
    None = None
    Faults = {{}, {"late", "alert", "stale"}}
    Faulted = {c1}
    MaxLen = 2
    Serials = 2
SPECIFICATION FairSpec
INVARIANTS TruthfulReturn ReadFresh
PROPERTIES BufferLive BusyUndisturbed EveryExecReturns ImplementsBus
CHECK_DEADLOCK FALSE
