SPECIFICATION Spec
CONSTANTS
    da = da
    db = db
    ds = ds
    None = None
    Node <- Three
    Seed <- SeedS
    Order <- ThreeInOrder
    Lottery <- MCLottery
    Genesis <- MCGenesis
    CommitteeSize = 2
    SeedCount = 1
    VerifiersAmount = 4
    ValidAmount = 2
    MajorityPercent = 50
    PoSHeight = 1
    MaxStale = 0
    MaxRound = 1
    MaxMissing = 1
    Faulty <- OnlyA
    Torn <- Nobody
INVARIANTS
    TypeOK
    TotalsMatchVoters
    Agreement
    ElectionCertified
    OneProducer
PROPERTIES
    KeepsBallot
CHECK_DEADLOCK FALSE
