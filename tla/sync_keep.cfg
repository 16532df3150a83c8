SPECIFICATION Spec
CONSTANTS
    da = da
    db = db
    dc = dc
    s1 = s1
    s2 = s2
    old = old
    new = new
    Node <- Five
    Seed <- Seeds
    FirstSeed = s1
    Store <- FiveStores
    StoreOf <- FiveStoreOf
    Content <- Contents
    Start <- FiveStart
    ValidAmount = 2
    MajorityPercent = 70
    MaxMissing = 0
    MaxFails = 1
    MaxMinute = 2
INVARIANTS
    TypeOK
    SharedCopyKept
CHECK_DEADLOCK FALSE
