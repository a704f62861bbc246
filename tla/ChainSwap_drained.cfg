SPECIFICATION FairSpec
CONSTANTS
    h1 = h1
    h2 = h2
    sw = sw
    t1 = t1
    t2 = t2
    None = None
    Refund = Refund
    Handlers <- TwoHandlers
    Sweep = sw
    MaxAttempts = 2
    MaxFaults = 0
    Claims <- TwoClaims
    BoltzMay <- Swapped
CHECK_DEADLOCK FALSE
PROPERTIES
    ClaimableIsDrained
