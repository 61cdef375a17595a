CONSTANTS
    MaxWR = 4
    MaxBatch = 3
    Posts = 24
SPECIFICATION FairSpec
CHECK_DEADLOCK FALSE
INVARIANTS
    SendQueueInv
    SendQueueNeverFull
    CompletionIsOwn
PROPERTIES
    SignaledReturns
