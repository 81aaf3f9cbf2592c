SPECIFICATION Spec
CONSTANTS
    Conns = {c1, c2}
    Fds = {f1, f2}
    NSlots = 2
    MaxUsers = 2
    Requests = {"Bank"}
    MayDrop = FALSE
    Timed = FALSE
    Connected = TRUE
    MaxDown = 0
    Signals = {}
SYMMETRY Symmetry
INVARIANTS TypeOK OwnVerdict AuditForCard NoLostWakeup
PROPERTIES ImplementsApproval
