CONSTANTS
    c1 = c1
    c2 = c2
    r1 = r1
    r2 = r2
    p1 = p1
    p2 = p2
    Clients <- TwoClients
    Receivers <- TwoReceivers
    ReceiverOrder <- TwoReceiversOrder
    Process <- OneProcess
    NodeId <- IdsWithGap
    MaxRequests = 3
    PreparedResponses = 2
    RandNumbers = {0, 1}
    Modes <- AllForms
SPECIFICATION FairSpec
CHECK_DEADLOCK FALSE
INVARIANTS
    RequestResponseInv
    OnlyInitIsLost
    CompletionsMatchPhase
    ResponseMatchesRequest
    TransferReadsSameRequest
    ReceiverReturnsComplete
PROPERTIES
    RequestReplySpec
    AllReturn
