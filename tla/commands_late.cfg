\* The sleep of MRAID_Exec as it is: a slow firmware or a signal ends it early.
CONSTANTS
    c1 = c1  c2 = c2  t1 = t1  m1 = m1
    Ccbs = {c1, c2}
    Tasks = {t1}
    Managers = {m1}
    None = None
    Invalid = Invalid
    Reserve = 1
    PreferMSI = FALSE
    SharedLoop = TRUE
    Prompt = FALSE
    FwStatus = {"ok"}
    MaxPosts = 1
SPECIFICATION Spec
INVARIANTS CcbDoneSet
