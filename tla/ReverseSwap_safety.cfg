SPECIFICATION Spec
CONSTANTS
    h1 = h1
    h2 = h2
    sw = sw
    a1 = a1
    a2 = a2
    n1 = n1
    n2 = n2
    None = None
    Refund = Refund
    Handlers <- OneHandler
    Sweep = sw
    MaxAttempts = 2
    MaxFaults = 1
    Nonces <- TwoNonces
    Addrs <- TwoAddrs
    InvoiceAddr = a1
    Invoices <- EitherKind
    BoltzMay <- FundedThenRefunded
CHECK_DEADLOCK FALSE
SYMMETRY Interchangeable
INVARIANTS
    IInv
    OneClaimTx
    PaysTheMerchant
    ClaimIsOnChain
    NoAbandonedLockup
    CreditIsBackedAndFinal
PROPERTIES
    RowForwardOnly
    KeepsPromise
