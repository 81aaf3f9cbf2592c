SPECIFICATION FairSpec
CONSTANTS
    Conns = {c1}
    Fds = {f1}
    NSlots = 1
    MaxUsers = 1
    Requests = {"Bank"}
    MayDrop = FALSE
    Timed = FALSE
    Connected = FALSE
    MaxDown = 0
    Signals = {"TERM", "INT"}
PROPERTIES ShutdownEnds NoThreadLeft
