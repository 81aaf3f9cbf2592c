SPECIFICATION Spec
CONSTANTS
    Conns = {c1, c2}
    Fds = {f1}
    NSlots = 1
    MaxUsers = 1
    Requests = {"Bank"}
    MayDrop = TRUE
    Timed = FALSE
    Connected = TRUE
    MaxDown = 0
    Signals = {}
SYMMETRY Symmetry
INVARIANT OwnVerdict
