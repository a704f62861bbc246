--------------------------- MODULE MCReverseSwap ---------------------------
(***************************************************************************)
(* Instances of ReverseSwap for TLC.                                       *)
(***************************************************************************)
EXTENDS ReverseSwapProperties, TLC

CONSTANTS h1, h2, sw, a1, a2, n1, n2

OneHandler == {h1}
TwoHandlers == {h1, h2}
OneAddr == {a1}
TwoAddrs == {a1, a2}
OneNonce == {n1}
TwoNonces == {n1, n2}

\* Handlers and nonces are interchangeable; addresses are not, one of them
\* is the invoice's.
Interchangeable == Permutations(TwoHandlers) \cup Permutations(TwoNonces)

\* Boltz's statuses up to its refund, and those around a settled lockup.
FundedThenRefunded == BoltzStatus \ {"transaction.confirmed", "invoice.settled"}
FundedOnly == {"transaction.mempool"}
FundedThenExpired == {"transaction.mempool", "swap.expired"}
FundedThenSettled == {"transaction.mempool", "transaction.confirmed",
                      "invoice.settled"}

InvoiceOffer == {"unpaid"}
LnurlPayment == {"absent"}
EitherKind == InvoiceOffer \cup LnurlPayment
=============================================================================
