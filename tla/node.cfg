SPECIFICATION Spec
CONSTANTS
    c1 = c1
    c2 = c2
    m = m
    t = t
    Thread <- Threads
    Conn <- Conns
    Main = m
    Timer = t
    PoolSize = 2
    Traffic <- TrafficOf
    MaxActive = 1
    MaxMessages = 1
    Roles = {"delegate", "seed", "job"}
    Lines <- FileLines
    MaxMissed = 2
    MaxSignals = 1
INVARIANTS
    TypeOK
    SlotsAccounted
    SemaphoreOutlivesLoop
    ClientsReturned
    OnlyClientsMissPool
    StarvedByLookups
PROPERTIES
    StopsOrStarves
CHECK_DEADLOCK FALSE
