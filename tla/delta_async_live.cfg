SPECIFICATION FairSpec
CONSTANTS
    Tasks = {t1, t2}
    FlushTask = flusher
    FlusherSync = FALSE
    CommitMayFail = FALSE
    Kinds = {"change"}
    MaxOps = 3
    NULL = NULL
CHECK_DEADLOCK FALSE
PROPERTIES MarshalledCommitted
