SPECIFICATION Spec
CONSTANTS
    NBlocks = 21
    LogSize = 8
    Reserve = 5
    Values = {v1}
    MaxDeltas = 6
    MaxCrashes = 0
CHECK_DEADLOCK FALSE
INVARIANT Remountable
