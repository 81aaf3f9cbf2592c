SPECIFICATION FairSpec
CONSTANTS
    Rotators = {r1}
    MaxCmds = 2
    MaxBatch = 2
    Signals = {"INT", "TERM", "USR1", "HUP"}
INVARIANTS TypeOK NothingDropped NoLostSignal
PROPERTIES QuietRotation QueueDrains RotationEnds QuietShutdownEnds ImplementsService
CHECK_DEADLOCK FALSE
