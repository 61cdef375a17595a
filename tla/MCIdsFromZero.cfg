CONSTANTS
    c1 = c1
    c2 = c2
    r1 = r1
    r2 = r2
    p1 = p1
    p2 = p2
    Clients <- TwoClients
    Receivers <- OneReceiver
    ReceiverOrder <- OneReceiverOrder
    Process <- TwoProcesses
    NodeId <- IdsFromZero
    MaxRequests = 2
    PreparedResponses = 2
    RandNumbers = {0, 1}
    Modes <- SendSend
SPECIFICATION Spec
CHECK_DEADLOCK FALSE
INVARIANTS
    NoReceiverNotReady
