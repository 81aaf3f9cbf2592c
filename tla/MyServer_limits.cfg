SPECIFICATION Spec
CONSTANTS
    Conns = {c1, c2, c3}
    Fds = {f1, f2, f3}
    NSlots = 3
    MaxUsers = 2
    Requests = {"Ctrl", "Bank"}
    MayDrop = TRUE
    Timed = TRUE
    Connected = TRUE
    MaxDown = 1
    Signals = {}
SYMMETRY Symmetry
ACTION_CONSTRAINT Limits
CHECK_DEADLOCK FALSE
INVARIANTS OneInteractive UsersBound MutualExclusion
PROPERTIES ChargedIsFlagged
