SPECIFICATION FairSpec
CONSTANTS
    Call = {c1}
    Conn <- TwoConns
    Admin = admin
    Cmd = {m1}
    Exempt = {}
    Limit = {1}
    MaxEvent = 1
    Event = {"rotate", "revoke"}
    NoCall = NoCall
    NoConn = NoConn
    NoCmd = NoCmd
INVARIANTS SocketLossReleases
PROPERTIES OwnerKept OnlyLocksBlock ReplacedEnds
CHECK_DEADLOCK FALSE
