SPECIFICATION Spec
CONSTANTS
    t1 = t1
    t2 = t2
    c1 = c1
    c2 = c2
    i1 = i1
    i2 = i2
    r1 = r1
    n1 = n1
    g1 = g1
    p1 = p1
    p2 = p2
    None = None
    Wallet <- Wallets
    Terminals <- TwoTerminals
    Claims <- TwoClaims
    Checkouts <- TwoCheckouts
    Saves <- OneSave
    FailureLimit = 1
    MaxIdx = 2
    Taken <- FirstIsTaken
CHECK_DEADLOCK FALSE
SYMMETRY Interchangeable
INVARIANTS
    IInv
    FundsStaySeparate
PROPERTY
    PairingIsFinal
