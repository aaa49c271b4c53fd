SPECIFICATION Spec
CONSTANTS
    Tasks = {t1, t2}
    FlushTask = flusher
    FlusherSync = TRUE
    CommitMayFail = TRUE
    Kinds = {"change", "force_delta"}
    MaxOps = 2
    NULL = NULL
CHECK_DEADLOCK FALSE
INVARIANT SyncDurable
