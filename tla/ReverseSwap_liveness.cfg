SPECIFICATION FairSpec
CONSTANTS
    h1 = h1
    h2 = h2
    sw = sw
    a1 = a1
    a2 = a2
    n1 = n1
    n2 = n2
    None = None
    Refund = Refund
    Handlers <- OneHandler
    Sweep = sw
    MaxAttempts = 2
    MaxFaults = 1
    Nonces <- OneNonce
    Addrs <- OneAddr
    InvoiceAddr = a1
    Invoices <- LnurlPayment
    BoltzMay <- FundedThenExpired
CHECK_DEADLOCK FALSE
PROPERTIES
    ClaimableSettles
    LostWebhookRecovered
