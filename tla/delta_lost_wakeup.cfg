SPECIFICATION FairSpec
CONSTANTS
    Tasks = {t1, t2}
    FlushTask = flusher
    FlusherSync = FALSE
    CommitMayFail = FALSE
    Kinds = {"force_delta"}
    MaxOps = 3
    NULL = NULL
CHECK_DEADLOCK FALSE
PROPERTY SyncCompletes
