SPECIFICATION Spec
CONSTANTS
    Conns = {c1}
    Fds = {f1}
    NSlots = 1
    MaxUsers = 1
    Requests = {"Bank"}
    MayDrop = FALSE
    Timed = FALSE
    Connected = TRUE
    MaxDown = 0
    Signals = {}
PROPERTY NoAnswerDropped
