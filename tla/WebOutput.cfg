CONSTANTS
    Size = 3
    HighWater = 2
    MaxRequests = 2
    MaxBody = 2
    MaxPiece = 3
SPECIFICATION FairSpec
INVARIANTS RightFraming Drained NoEmptyChunk MutexExists
PROPERTIES InOrder EveryRequestEnds
CHECK_DEADLOCK FALSE
