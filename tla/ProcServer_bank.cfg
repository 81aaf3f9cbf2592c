SPECIFICATION Spec
CONSTANTS
    Kind = "bank"
    Conns = {c1, c2, c3}
    NoConn = NoConn
    MaxUsers = 2
    MaxMsgs = 3
    AuditLimit = 1000000
    MaxHasty = 0
    Requests <- WaitingRequests
    Signals = {}
SYMMETRY Symmetry
PROPERTY WaitingStay
CHECK_DEADLOCK FALSE
