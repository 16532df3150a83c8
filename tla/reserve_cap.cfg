SPECIFICATION Spec
CONSTANTS
    d1 = d1
    d2 = d2
    w1 = w1
    w2 = w2
    x1 = x1
    x2 = x2
    t1 = t1
    None = None
    Delegate <- Delegates
    Vote <- Rivals
    Thread <- OneThread
    BatchSize = 2
    MaxProofs = 1
    MaxInserts = 2
    WalletFails = FALSE
INVARIANTS
    CapEnforced
CHECK_DEADLOCK FALSE
