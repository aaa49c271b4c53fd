SPECIFICATION Spec
CONSTANTS
    Tasks = {t1, t2}
    FlushTask = flusher
    FlusherSync = FALSE
    CommitMayFail = FALSE
    Kinds = {"change_atomic", "force_delta"}
    MaxOps = 4
    NULL = NULL
CHECK_DEADLOCK FALSE
SYMMETRY TaskSymmetry
INVARIANT SyncDurable
