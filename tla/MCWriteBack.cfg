SPECIFICATION Spec
SYMMETRY Interchangeable
CHECK_DEADLOCK FALSE
CONSTANTS
  Slice = {1, 2}
  Drain = {d1, d2}
  GcSlice = {s1}
  WalkBatch = 1
  MaxGcTime = 5
  Inode = {i1, i2}
  BatchBudget = 2
  CacheBytes = 2
  CacheItems = 2
  MaxBroken = 1
  MaxCrash = 1
  Window = 2
  MaxDown = 1
  SegmentSize = 2
  MaxSeq = 5
  MaxTorn = 2
  MaxOpen = 2
  FileLen = 5
  RaWindow = 2
  Trigger = 2
  MaxTrackers = 1
  MaxReads = 3
INVARIANTS CacheSound SlicesKept  ReadAheadSound
