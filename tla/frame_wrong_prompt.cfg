SPECIFICATION Spec
CONSTANTS
    i1 = i1
    i2 = i2
    i3 = i3
    i4 = i4
    NoFrame = NoFrame
    Task = {t1, t2}
    View = {v1}
    Note = {}
    NumCalls = 2
    MaxCalls = 1
    MaxIter = 2
    MaxTurns = 2
    MaxCrash = 0
    CallId = {i1, i2, i3, i4}
    IdOf <- FreshIds
    KindOf <- AskAsk
    LowRisk <- SecondIsLow
    Scheduled = FALSE
    Surfaces = {"socket"}
INVARIANTS ResolvedAsSaid
CHECK_DEADLOCK FALSE
