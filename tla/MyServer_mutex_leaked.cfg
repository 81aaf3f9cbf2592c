SPECIFICATION FairSpec
CONSTANTS
    Conns = {c1}
    Fds = {f1}
    NSlots = 1
    MaxUsers = 1
    Requests = {"Bank"}
    MayDrop = FALSE
    Timed = TRUE
    Connected = TRUE
    MaxDown = 1
    Signals = {}
CHECK_DEADLOCK FALSE
PROPERTY AnsweredOrMarked
