SPECIFICATION Spec
CONSTANTS
    NBlocks = 21
    LogSize = 16
    Reserve = 8
    Values = {v1}
    MaxDeltas = 8
    MaxCrashes = 0
CHECK_DEADLOCK FALSE
INVARIANT Remountable
