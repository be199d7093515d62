SPECIFICATION Spec
CONSTANTS
    Caller = {c1, c2}
    MaxRec = 1
    Profile <- TwoProfiles
    Quote <- TwoQuotes
    Cooldown = 1
    Expiry = 2
    BackoffCap = 3
    MaxTime = 2
    MaxCrash = 1
    NoRec = NoRec
SYMMETRY Symmetry
INVARIANTS TypeOK Profitable DecidedOnce AppliedIsSold DecisionsAudited
PROPERTIES ApprovalSpec
CHECK_DEADLOCK FALSE
