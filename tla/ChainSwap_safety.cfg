SPECIFICATION FairSpec
CONSTANTS
    h1 = h1
    h2 = h2
    sw = sw
    t1 = t1
    t2 = t2
    None = None
    Refund = Refund
    Handlers <- OneHandler
    Sweep = sw
    MaxAttempts = 2
    MaxFaults = 1
    Claims <- TwoClaims
    BoltzMay <- SwappedOrRefunded
CHECK_DEADLOCK FALSE
INVARIANTS
    IInv
    OneClaimTx
    ClaimIsOnChain
    CreditIsBackedAndFinal
PROPERTIES
    KeepsPromise
    ClaimableSettles
