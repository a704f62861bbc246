------------------------ MODULE ChainSwapProperties ------------------------
(***************************************************************************)
(* What ChainSwap must guarantee: its type invariant, safety invariants,   *)
(* action and liveness properties, the promise it shares with reverse      *)
(* swaps, the claim of the documentation that it breaks, and the inductive *)
(* invariant the proofs rest on.                                           *)
(***************************************************************************)
EXTENDS ChainSwap

Label == {"idle", "received", "apply", "flip", "called", "construct",
          "commit", "broadcast", "probe", "won", "clear", "settle", "credit",
          "failed", "stuck"}

\* Every variable keeps its type.
TypeOK ==
    /\ status \in ChainSwapStatus
    /\ claimTx \in Claims \cup {None} /\ claimTxid \in Claims \cup {None}
    /\ attempts \in 0..MaxAttempts
    /\ nextAt \in {"null", "due"} \cup Future
    /\ invStatus \in InvoiceStatus /\ settlement \in SettlementStatus
    /\ credited \in BOOLEAN
    /\ processed \in SUBSET BoltzStatus
    /\ pc \in [Workers -> Label] /\ msg \in [Handlers -> BoltzStatus]
    /\ hand \in [Workers -> Claims \cup {None}]
    /\ lock \in Workers \cup {None}
    /\ boltz \in BoltzStatus /\ emitted \in SUBSET BoltzStatus
    /\ spender \in Claims \cup {None, Refund}
    /\ broadcast \in SUBSET Claims /\ revealed \in BOOLEAN
    /\ faults \in 0..MaxFaults

-----------------------------------------------------------------------------
(***************************************************************************)
(* Safety.                                                                 *)
(***************************************************************************)

\* However many webhooks and sweeps race, fail or crash, one transaction is
\* ever sent for the server lock, the one its row holds
\* (claim_chain_swap_inner persists before it broadcasts).
OneClaimTx == \A t \in broadcast : t = claimTx

\* A row says claimed only when the transaction it names has taken the
\* server lock; Boltz's transaction.claimed, which speaks of the other
\* chain, is never enough (handle_chain_swap_webhook).
ClaimIsOnChain ==
    status = "claimed" => spender \in Claims /\ claimTxid = spender

\* A row is given up exactly when its budget is spent: concurrent failures
\* neither overrun it nor close a row early (record_chain_swap_claim_failure).
StuckMeansBudgetSpent ==
    attempts = MaxAttempts <=> status = "claim_stuck"

\* The user's and the server's locks are progress only: the merchant is
\* credited for a server lock that our claim spent, and no late flip or
\* stuck mark disturbs the credited invoice
\* (flip_invoice_on_bitcoin_boltz_settlement).
CreditIsBackedAndFinal ==
    credited => /\ spender \in Claims
                /\ invStatus = "paid" /\ settlement = "settled"

\* Late webhooks and answers leave a terminal row alone, the claim is
\* written once, and attempts never return.
RowForwardOnly ==
    [][/\ status \in Terminal => status' = status
       /\ claimTx # None => claimTx' = claimTx
       /\ attempts' \in {attempts, attempts + 1}]_vars

\* The abstract view: the server lock, the row's verdict, the credit.
CoinView ==
    IF spender = Refund THEN "refunded"
    ELSE IF spender # None THEN "ours"
    ELSE IF Funded THEN "locked" ELSE "none"

\* expired and lockup_failed may close a row whose server lock exists, or
\* comes later: all they say is that nobody will claim it again.
VerdictView ==
    CASE status = "claimed" -> "claimed"
      [] status = "refunded" -> "lost"
      [] status \in {"claim_stuck", "expired", "lockup_failed"} -> "gave_up"
      [] OTHER -> "open"

Promise == INSTANCE SwapPromise
             WITH coin <- CoinView, verdict <- VerdictView, paid <- credited

\* A chain swap keeps the promise a reverse swap makes: its verdict and the
\* invoice follow the money and never precede it.
KeepsPromise == Promise!Spec

-----------------------------------------------------------------------------
(***************************************************************************)
(* The inductive invariant, of the shape of ReverseSwap's.                 *)
(***************************************************************************)

\* Labels at which a task holds or sends a claim.
Claiming == {"construct", "commit", "broadcast", "probe", "won"}

\* Boltz speaks of the server lock only once it exists; a refund and a claim
\* both spend it.
WorldInv ==
    /\ boltz \in emitted
    /\ "transaction.server.confirmed" \in emitted => Funded
    /\ "transaction.refunded" \in emitted => spender = Refund
    /\ spender # None => Funded

\* What a handler was told was said; who claims has seen the server lock.
KnowledgeInv ==
    /\ \A h \in Handlers : pc[h] \in {"received", "apply"} => msg[h] \in emitted
    /\ \A w \in Workers : pc[w] \in Claiming => Funded

\* The advisory lock is held exactly from Begin to the commit.
LockInv ==
    \A w \in Workers : lock = w <=> pc[w] \in {"construct", "commit"}

\* The claim in a task's hand against the claim in the row.
HandInv ==
    \A w \in Workers :
        /\ pc[w] = "construct" => claimTx = None
        /\ pc[w] = "commit" => /\ hand[w] # None
                               /\ claimTx # None => hand[w] = claimTx
        /\ pc[w] \in {"broadcast", "probe"} => /\ claimTx # None
                                               /\ hand[w] = claimTx
        /\ pc[w] = "won" => spender = claimTx /\ hand[w] = claimTx
        /\ pc[w] \in {"won", "clear", "settle", "credit"} => spender \in Claims

\* The row's claim against what was sent, and its status against the world.
RowInv ==
    /\ claimTxid = claimTx
    /\ \A t \in broadcast : t = claimTx
    /\ spender \in Claims => spender = claimTx
    /\ status \in Claimable => Funded
    /\ status = "claimed" => spender \in Claims
    /\ status = "refunded" => spender = Refund
    /\ attempts = MaxAttempts <=> status = "claim_stuck"

\* The invoice.
InvoiceInv ==
    credited => /\ spender \in Claims
                /\ invStatus = "paid" /\ settlement = "settled"

IInv ==
    /\ TypeOK
    /\ WorldInv /\ KnowledgeInv /\ LockInv /\ HandInv /\ RowInv /\ InvoiceInv

-----------------------------------------------------------------------------
(***************************************************************************)
(* Liveness, under FairSpec.                                               *)
(***************************************************************************)
UserLockNews == {"transaction.mempool", "transaction.confirmed"}

\* No news of the payer's lock is still to come, or is being handled.
UserLockNewsSpent ==
    /\ emitted \cap UserLockNews \subseteq processed
    /\ \A h \in Handlers : msg[h] \notin UserLockNews

\* Once the news of the payer's lock has all been handled, a row that shows
\* a server lock is claimed, given up or closed in the end, whatever
\* attempts failed or were cut off: the sweep retries it.
ClaimableSettles ==
    (status \in Claimable /\ UserLockNewsSpent) ~> status \in Terminal

-----------------------------------------------------------------------------
(***************************************************************************)
(* A claim of the documentation that the code does not keep.               *)
(***************************************************************************)

\* "The claimer drains claimable Boltz swaps ... both Lightning reverse
\* swaps and donation-page chain swaps" (background-workers.md): a row that
\* shows a server lock, once Boltz has reported all there is to report on it,
\* is claimed, given up or closed in the end.
ClaimableIsDrained ==
    (status \in Claimable /\ "transaction.server.confirmed" \in processed)
        ~> status \in Terminal
=============================================================================
