---------------------------- MODULE MCChainSwap ----------------------------
(***************************************************************************)
(* Instances of ChainSwap for TLC.                                         *)
(***************************************************************************)
EXTENDS ChainSwapProperties

CONSTANTS h1, h2, sw, t1, t2

OneHandler == {h1}
TwoHandlers == {h1, h2}
TwoClaims == {t1, t2}

\* A payment that is swapped or refused, and a server lock that is claimed
\* or taken back.
SwappedOrRefunded ==
    {"transaction.mempool", "transaction.zeroconf.rejected",
     "transaction.server.mempool", "transaction.claimed", "swap.expired",
     "transaction.refunded"}
\* A payment that Boltz locks against as soon as it is seen.
Swapped == {"transaction.mempool", "transaction.server.mempool",
            "transaction.server.confirmed"}
=============================================================================
