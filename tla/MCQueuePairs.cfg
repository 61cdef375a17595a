CONSTANTS
    Transports <- BothTransports
    ConnIDs <- SuppliedIDs
    OwnID = 2
    MaxCalls = 5
    MaxFaults = 1
SPECIFICATION QueuePairsSpec
CHECK_DEADLOCK FALSE
INVARIANTS
    QueuePairsInv
    NothingElseLeft
PROPERTIES
    KeysStay
