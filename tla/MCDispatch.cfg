CONSTANTS
    w1 = w1
    w2 = w2
    w3 = w3
    p1 = p1
    p2 = p2
    r1 = r1
    r2 = r2
    Workers <- ThreeWorkers
    Dispatchers <- TwoDispatchers
    Local <- TwoAndOne
    NodeId <- Ids
    Receivers <- OneReceiver
    Requests = 2
    Modes <- WrittenAndSent
    PreparedResponses = 8
    Batch = 2
SPECIFICATION FairSpec
CHECK_DEADLOCK FALSE
INVARIANTS
    DispatcherInv
    FinishedIsLast
    ResponseFindsItsWorker
    NoReceiverNotReady
PROPERTIES
    RequestReplySpec
    AllReturn
