SPECIFICATION Spec
CONSTANTS EpochSpan = 2 SnapEvery = 2 WriterCap = 1 MaxHeight = 3 MaxBlocks = 3 MaxMarks = 1 MaxFaults = 1
INVARIANTS TypeOK Recovers
PROPERTY SealReturns
CHECK_DEADLOCK FALSE
