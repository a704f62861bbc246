-------------------------- MODULE MCInvoiceLedger --------------------------
(***************************************************************************)
(* Instances of InvoiceLedger for TLC.  The amounts keep the proportions   *)
(* of the defaults (300, 60 and 1 sat): a tenth of the Bitcoin tolerance   *)
(* is wide, Liquid's is narrower, Lightning's is one sat.                  *)
(***************************************************************************)
EXTENDS InvoiceLedgerProperties, TLC

CONSTANTS ln, claim, liq1, btc1, t1, t2, t3

Tolerances == "bitcoin" :> 10 @@ "liquid" :> 4 @@ "lightning" :> 1

Thousand == 1000

SourceOf(p) == CASE p = ln -> "lightning_boltz_reverse"
                 [] p \in {claim, liq1} -> "liquid_direct"
                 [] OTHER -> "bitcoin_direct"

TxidOf(p) == CASE p \in {ln, claim} -> t1
               [] p = liq1 -> t2
               [] OTHER -> t3

\* A swap, whose claim pays a little less for its fee, a Bitcoin payment that
\* makes the invoice whole with the one and just within the tolerance with the
\* other, and Liquid dust that then lacks one sat more than Liquid forgives.
SwapAndDirect == {ln, claim, liq1, btc1}
SwapSource == [p \in SwapAndDirect |-> SourceOf(p)]
SwapTxid == [p \in SwapAndDirect |-> TxidOf(p)]
SwapSats == ln :> 600 @@ claim :> 590 @@ liq1 :> 5 @@ btc1 :> 400
=============================================================================
