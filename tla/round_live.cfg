SPECIFICATION PromptSpec
CONSTANTS
    da = da
    db = db
    ds = ds
    None = None
    Node <- Three
    Seed <- SeedS
    Order <- ThreeInOrder
    Lottery <- MCLottery
    Genesis <- EmptyChain
    CommitteeSize = 1
    SeedCount = 1
    VerifiersAmount = 4
    ValidAmount = 2
    MajorityPercent = 70
    PoSHeight = 1
    MaxStale = 0
    MaxRound = 3
    MaxMissing = 0
    Faulty <- Nobody
    Torn <- Nobody
PROPERTIES
    EveryRoundMakesABlock
    KeepsBallot
CHECK_DEADLOCK FALSE
