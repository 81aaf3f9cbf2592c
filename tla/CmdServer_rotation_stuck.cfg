SPECIFICATION FairSpec
CONSTANTS
    Rotators = {r1}
    MaxCmds = 1
    MaxBatch = 1
    Signals = {"TERM", "USR1"}
PROPERTY ShutdownEnds
CHECK_DEADLOCK FALSE
