SPECIFICATION Spec
CONSTANTS
    Tasks = {t1, t2}
    FlushTask = flusher
    FlusherSync = FALSE
    CommitMayFail = TRUE
    Kinds = {"change", "force_delta"}
    MaxOps = 3
    NULL = NULL
CHECK_DEADLOCK FALSE
SYMMETRY TaskSymmetry
INVARIANTS
    TypeOK
    RefcountAccounts
    NextSlotFree
    BackendExclusive
    OperationAtomic
    SyncDurableCurrent
PROPERTIES
    CommittedInSequence
