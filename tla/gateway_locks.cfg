SPECIFICATION FairSpec
CONSTANTS
    Call = {c1}
    Conn <- TwoConns
    Admin = admin
    Cmd = {m1}
    Exempt = {}
    Limit = {1}
    MaxEvent = 0
    Event = {}
    NoCall = NoCall
    NoConn = NoConn
    NoCmd = NoCmd
PROPERTIES CommandsReturn
CHECK_DEADLOCK FALSE
