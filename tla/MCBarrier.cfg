CONSTANTS
    t1 = t1
    t2 = t2
    t3 = t3
    t4 = t4
    Threads <- MCThreads
    Waits = 4
    RoundMod = 2
SPECIFICATION FairSpec
CHECK_DEADLOCK FALSE
INVARIANTS
    NobodyLeavesEarly
    FinalizerRunsOncePerRound
    BarrierInv
PROPERTIES
    AbstractSpec
    AllThreadsReturn
