SPECIFICATION Spec
CONSTANTS
    da = da
    db = db
    ds = ds
    None = None
    Node <- Three
    Seed <- SeedS
    Order <- ThreeInOrder
    Lottery <- MCLottery
    Genesis <- MCGenesis
    CommitteeSize = 1
    SeedCount = 1
    VerifiersAmount = 4
    ValidAmount = 2
    MajorityPercent = 50
    PoSHeight = 1
    MaxStale = 0
    MaxRound = 2
    MaxMissing = 0
    Faulty <- OnlyA
    Torn <- OnlyA
INVARIANTS
    TotalsMatchVoters
PROPERTIES
    BlocksElectedOnChain
CHECK_DEADLOCK FALSE
