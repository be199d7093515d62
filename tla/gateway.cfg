SPECIFICATION Spec
CONSTANTS
    Call = {c1, c2}
    Conn = {1}
    Admin = admin
    Cmd = {m1, m2}
    Exempt = {}
    Limit = {1, 2}
    MaxEvent = 1
    Event = {"stop", "verify"}
    NoCall = NoCall
    NoConn = NoConn
    NoCmd = NoCmd
SYMMETRY Symmetry
INVARIANTS TypeOK StateSettles
PROPERTIES OutcomeSpec
CHECK_DEADLOCK FALSE
