SPECIFICATION Spec
CONSTANTS
    Hosts <- Names
    NetworkNodes <- SeedTable
    DelegatesAll <- DelegateTable
    DelegatesTimerAll <- TimerTable
    BlockVerifiers <- CommitteeTable
    Self = "A"
    Addresses <- AddressCount
    Workers = 2
    Retries = 2
    Units = 2
    MaxHosts = 4
INVARIANTS
    TypeOK
    AnsweredAll
    NoWorkerLeft
    FailureUnhandled
    GivenUpAfterAll
PROPERTIES
    CallReturns
    KeepsPromise
CHECK_DEADLOCK FALSE
