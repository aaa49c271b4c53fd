SPECIFICATION FairSpec
CONSTANTS
    Tasks = {t1, t2}
    FlushTask = flusher
    FlusherSync = TRUE
    CommitMayFail = FALSE
    Kinds = {"change", "change_atomic", "force_delta", "force_unify"}
    MaxOps = 3
    NULL = NULL
CHECK_DEADLOCK FALSE
INVARIANTS
    DurableInOrder
    SyncDurable
    UnifyForced
PROPERTIES
    SyncCompletes
