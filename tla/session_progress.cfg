SPECIFICATION FairSpec
CONSTANTS
    i1 = i1
    i2 = i2
    i3 = i3
    i4 = i4
    NoFrame = NoFrame
    Task = {t1, t2}
    View = {v1}
    Note = {n1, n2}
    NumCalls = 2
    MaxCalls = 2
    MaxIter = 2
    MaxTurns = 1
    MaxCrash = 1
    CallId = {i1, i2, i3, i4}
    IdOf <- FreshIds
    KindOf <- AskQuestion
    LowRisk <- SecondIsLow
    Scheduled = FALSE
    Surfaces = {"rest"}
PROPERTIES StopEndsTurn AnswerTakesEffect
CHECK_DEADLOCK FALSE
