SPECIFICATION Spec
CONSTANTS
    alice = alice
    p1 = p1
    d1 = d1
    o1 = o1
    c1 = c1
    s1 = s1
    i1 = i1
    i2 = i2
    NoDesc = NoDesc
    None = None
    Nyms <- OneNym
    Npubs <- OneKey
    Descs <- OneDesc
    Outpoints <- OneOutpoint
    Calls <- OneCall
    Swaps <- OneSwap
    Invoices <- TwoInvoices
    Quota = 1
    Lookahead = 1
    MaxIdx = 2
    WalletIdx = {1}
    PaidIdx = {1}
CHECK_DEADLOCK FALSE
INVARIANT
    InvoiceAddressIsExclusive
