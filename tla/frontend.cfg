SPECIFICATION FrontSpec
CONSTANTS
    Objs = {a, b}
    NoObject = NoObject
    MaxInum = 1
    Period = 4
    MaxNlink = 2
    MaxCount = 2
    UnifyEvery = 3
    XInodes = {i1, i2}
    XNames = {"a", "b"}
    Lens = {0, 9}
    Presents = {{"RDEV", "MODE_OWNER", "CTIME_SIZE"}, {"MODE_OWNER", "DATA_BTREE", "CTIME_SIZE", "LINK_COUNT", "MTIME"}}
    MaxAtom = 3
    RefMod = 2
    MinAlloc = 8
    Pages = {p1, p2, p3}
    NoPage = NoPage
    DirInums = {1, 2, 3}
    Root = 1
    DirNames = {"a", "b"}
    Callers = {"kernel", "fuse"}
    TUX_LINK_MAX = 4
    MaxDelta = 3
    Starts = {0, 1, 2}
    Ends = {1, 4}
    MaxOps = 3
SYMMETRY FrontSymmetry
CHECK_DEADLOCK FALSE
INVARIANTS
    CommitExact
    InodesConsistent
    NamesSound
    XattrExact
    PagesReadExact
    PagesFlushExact
PROPERTIES
    NamesRenameMoves
    PagesStable
