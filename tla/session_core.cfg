SPECIFICATION Spec
CONSTANTS
    i1 = i1
    i2 = i2
    i3 = i3
    i4 = i4
    NoFrame = NoFrame
    Task = {t1, t2}
    View = {v1}
    Note = {n1}
    NumCalls = 2
    MaxCalls = 2
    MaxIter = 2
    MaxTurns = 2
    MaxCrash = 0
    CallId = {i1, i2, i3, i4}
    IdOf <- FreshIds
    KindOf <- AskAsk
    LowRisk <- SecondIsLow
    Scheduled = FALSE
    Surfaces = {"rest", "socket", "reply"}
INVARIANTS TypeOK OneRunner AtMostOnce AnsweredOnce NoOrphans NotesKept ParkedIsDurable
SYMMETRY Symmetry
CHECK_DEADLOCK FALSE
