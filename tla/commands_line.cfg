\* Level interrupts; the pool's gate is not the interrupt work loop's.
CONSTANTS
    c1 = c1  c2 = c2  c3 = c3  t1 = t1  t2 = t2  m1 = m1 m2 = m2
    Ccbs = {c1, c2, c3}
    Tasks = {t1, t2}
    Managers = {m1, m2}
    None = None
    Invalid = Invalid
    Reserve = 2
    PreferMSI = FALSE
    SharedLoop = FALSE
    Prompt = TRUE
    FwStatus = {"ok"}
    MaxPosts = 1
SPECIFICATION Spec
SYMMETRY Symmetry
INVARIANTS Exclusive RepliesOwned QueueWindow NoStrandedReply PoolNeverEmpty
