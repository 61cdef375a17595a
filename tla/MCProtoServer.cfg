CONSTANTS
    c1 = c1
    c2 = c2
    Clients <- TwoClients
    Scenarios <- Lives
SPECIFICATION FairSpec
CHECK_DEADLOCK FALSE
INVARIANTS
    ProtoServerInv
PROPERTIES
    RequestsAnswered
    StopReturns
