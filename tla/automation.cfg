SPECIFICATION FairSpec
CONSTANTS
    early = early
    late = late
    s1 = s1
    s2 = s2
    s3 = s3
    k1 = k1
    k2 = k2
    Task = {early, late}
    Slot = {s1, s2, s3}
    Worker = {k2}
    TaskOf <- TaskOfEach
    Wake = {w1, w2}
    FireAt <- AtTwo
    Fires <- Times
    MaxRuns <- OneOfEarly
    MaxTime = 2
    MaxCrash = 1
    MaxEdits = 1
    NoWake = NoWake
INVARIANTS TypeOK NoOverlap WakeOnce
PROPERTIES DueRuns WakesDelivered
CHECK_DEADLOCK FALSE
