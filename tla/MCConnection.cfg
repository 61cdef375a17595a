CONSTANTS
    s1 = s1
    s2 = s2
    c1 = c1
    c2 = c2
    Start = Start
    Nodes <- AllNodes
    Servers <- AllServers
    SrqClients <- SharedQueueClient
    Scenarios <- SixScenarios
SPECIFICATION FairSpec
CHECK_DEADLOCK FALSE
INVARIANTS
    ConnectionInv
    ConnectionsPaired
    ClientIsConnected
PROPERTIES
    ConnectionStable
    PromiseKept
    AllReturn
