SPECIFICATION PromptSpec
CONSTANTS
    da = da
    db = db
    dc = dc
    s1 = s1
    s2 = s2
    old = old
    new = new
    Node <- Five
    Seed <- Seeds
    FirstSeed = s1
    Store <- FiveStores
    StoreOf <- FiveStoreOf
    Content <- Contents
    Start <- FiveStart
    ValidAmount = 2
    MajorityPercent = 70
    MaxMissing = 1
    MaxFails = 0
    MaxMinute = 3
PROPERTIES
    CopiesConverge
CHECK_DEADLOCK FALSE
