SPECIFICATION FairSpec
CONSTANTS
    early = early
    late = late
    s1 = s1
    s2 = s2
    s3 = s3
    k1 = k1
    k2 = k2
    Task = {early}
    Slot = {s1}
    Worker = {k1}
    TaskOf <- TaskOfEach
    Wake = {}
    FireAt <- AtTwo
    Fires <- Times
    MaxRuns <- OneOfEarly
    MaxTime = 3
    MaxCrash = 0
    MaxEdits = 1
    NoWake = NoWake
PROPERTIES MissedRunKept
CHECK_DEADLOCK FALSE
