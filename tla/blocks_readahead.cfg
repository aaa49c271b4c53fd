SPECIFICATION Spec
CONSTANTS
  NBlocks = 3
  MaxBuffers = 3
  MaxEvict = 1
  MaxSegs = 2
  Starts = {0, 3}
  Ends = {3, 4, 6}
  MaxOps = 3
INVARIANTS SegmentsFit
CHECK_DEADLOCK FALSE
