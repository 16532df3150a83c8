SPECIFICATION Spec
CONSTANTS
    s1 = s1
    s2 = s2
    g1 = g1
    g2 = g2
    ka = ka
    kb = kb
    x1 = x1
    x2 = x2
    Seed <- Seeds
    Maintainer = s1
    Key <- KeySet
    Address <- AddressSet
    Genesis <- GenesisDocs
    Order <- KeyOrder
    Approved <- KeySet
    Request <- Requests
    Workload <- Workloads
    Winner <- Winners
    VerifierAmount = 2
    TotalAmount = 4
    MaxFaults = 1
INVARIANTS
    TypeOK
    GenesisComplete
    StatisticsPaired
    CreditedOnce
    StatisticsComplete
    OneRoundPerHeight
    SoloOfLastUpdate
CHECK_DEADLOCK FALSE
