SPECIFICATION Spec
CONSTANTS
    i1 = i1
    i2 = i2
    i3 = i3
    i4 = i4
    NoFrame = NoFrame
    Task = {t1, t2}
    View = {v1}
    Note = {}
    NumCalls = 4
    MaxCalls = 4
    MaxIter = 2
    MaxTurns = 2
    MaxCrash = 1
    CallId = {i1, i2, i3, i4}
    IdOf <- FreshIds
    KindOf <- AllKinds
    LowRisk <- SecondIsLow
    Scheduled = TRUE
    Surfaces = {"rest", "reply"}
INVARIANTS ConsentedRuns
PROPERTIES StopHolds GateSpec
SYMMETRY Symmetry
CHECK_DEADLOCK FALSE
