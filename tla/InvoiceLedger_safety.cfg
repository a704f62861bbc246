SPECIFICATION FairSpec
CONSTANTS
    ln = ln
    claim = claim
    liq1 = liq1
    btc1 = btc1
    t1 = t1
    t2 = t2
    t3 = t3
    Payments <- SwapAndDirect
    Source <- SwapSource
    Txid <- SwapTxid
    Sats <- SwapSats
    Amount <- Thousand
    Shortfall <- Tolerances
    Origin = "checkout"
    MaxFaults = 1
CHECK_DEADLOCK FALSE
INVARIANTS
    LedgerInv
    CountedOnce
    CachedTotal
    VerdictMatchesTotal
    StatusCoherent
    DeepBeforeCounted
PROPERTIES
    NothingUncounted
    ClosureGivesWayToEvidence
    LiquidIsCounted
    BitcoinIsCounted
    ExpiredIsClosed
