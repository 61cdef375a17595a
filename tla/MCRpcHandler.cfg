CONSTANTS
    c1 = c1
    c2 = c2
    Clients <- TwoClients
    MaxMsgs = 2
    IndexMod = 4
    CqSize = 2
    Scenarios <- Lives
SPECIFICATION FairSpec
CHECK_DEADLOCK FALSE
INVARIANTS
    RpcHandlerInv
    HandledIsReceived
PROPERTIES
    CallsReturn
