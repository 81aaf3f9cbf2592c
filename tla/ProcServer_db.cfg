SPECIFICATION FairSpec
CONSTANTS
    Kind = "db"
    Conns = {c1, c2}
    NoConn = NoConn
    MaxUsers = 1
    MaxMsgs = 2
    AuditLimit = 1000000
    MaxHasty = 1
    Requests <- MixedRequests
    Signals = {"TERM", "INT"}
INVARIANTS TypeOK AuditOnce WholeAnswers NoAbort
PROPERTIES ImplementsService RequestsSettled ShutdownEnds
CHECK_DEADLOCK FALSE
