SPECIFICATION Spec
CONSTANTS
    Pages = {p1, p2, p3}
    NoPage = NoPage
    Values = {1, 2, 3}
    Starts = {0, 1, 2}
    Ends = {1, 4}
    MaxOps = 3
CHECK_DEADLOCK FALSE
INVARIANT AsWritten
