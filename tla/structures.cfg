SPECIFICATION StructSpec
CONSTANTS
    volblocks = 7
    mapsize = 2
    MaxRequest = 4
CHECK_DEADLOCK FALSE
INVARIANTS
    StructTypeOK
    NoError
    NoOverwrite
    ReplayExact
    NoLeak
    TakeFree
    FreeblocksExact
    SearchCorrect
    IleafExact
    Dleaf2Exact
    BtreeReplayExact
    BtreeSound
    DirExact
    BlocksReadExact
    BlocksFlushExact
    BlocksPoolExact
    PurgeExact
PROPERTIES
    AtomicCommit
    CallAdvances
