SPECIFICATION FairSpec
CONSTANTS
    Conns = {c1}
    Fds = {f1}
    NSlots = 1
    MaxUsers = 1
    Requests = {"Bank", "Ctrl", "Bad"}
    MayDrop = TRUE
    Timed = TRUE
    Connected = TRUE
    MaxDown = 0
    Signals = {}
PROPERTIES AnsweredOrMarked SilenceEnds
