\* Message signalled interrupts, one work loop for pool and interrupt; fairness.
CONSTANTS
    c1 = c1  c2 = c2  t1 = t1  m1 = m1
    Ccbs = {c1, c2}
    Tasks = {t1}
    Managers = {m1}
    None = None
    Invalid = Invalid
    Reserve = 1
    PreferMSI = TRUE
    SharedLoop = TRUE
    Prompt = TRUE
    FwStatus = {"ok", "error"}
    MaxPosts = 1
SPECIFICATION FairSpec
PROPERTIES EveryRequestReturns ImplementsService
