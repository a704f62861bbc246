SPECIFICATION FairSpec
CONSTANTS
    r1 = r1
    r2 = r2
    x = x
    y = y
    None = None
    Requests <- TwoRequests
    Sessions <- TwoSessions
    Total = 2
    Deadline = 1
    Lives = {0, 1}
    Margin = 1
    MaxTime = 1
CHECK_DEADLOCK FALSE
INVARIANTS
    IInv
    OneOfferPerNeed
    ShownIsRecorded
    OffersKeepTheirInvoice
PROPERTIES
    EveryRequestEnds
