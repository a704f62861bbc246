----------------------- MODULE ReverseSwapProperties -----------------------
(***************************************************************************)
(* What ReverseSwap must guarantee: its type invariant, safety invariants, *)
(* action and liveness properties, the promise it implements, the claims   *)
(* of the repository's text that it breaks, and the inductive invariant    *)
(* the proofs rest on.                                                     *)
(***************************************************************************)
EXTENDS ReverseSwap

Label == {"idle", "received", "apply", "flip", "refund", "called", "resolve",
          "construct", "commit", "broadcast", "probe", "won", "settle",
          "clear", "credit", "failed", "stuck"}

\* Every variable keeps its type.
TypeOK ==
    /\ status \in SwapStatus
    /\ claimTx \in Tx \cup {None} /\ claimTxid \in Tx \cup {None}
    /\ attempts \in 0..MaxAttempts
    /\ nextAt \in {"null", "due"} \cup Future
    /\ coopRefused \in BOOLEAN
    /\ address \in Addrs \cup {None}
    /\ invStatus \in InvoiceStatus /\ settlement \in SettlementStatus
    /\ credited \in BOOLEAN
    /\ processed \in SUBSET BoltzStatus
    /\ pc \in [Workers -> Label] /\ msg \in [Handlers -> BoltzStatus]
    /\ hand \in [Workers -> Tx \cup {None}] /\ coop \in [Workers -> BOOLEAN]
    /\ lock \in Workers \cup {None}
    /\ rpc \in {"idle", "listed", "apply", "nudge", "flip", "refund"}
    /\ rstatus \in SwapStatus /\ raction \in ReconcilerAction
    /\ boltz \in BoltzStatus /\ emitted \in SUBSET BoltzStatus
    /\ spender \in Tx \cup {None, Refund}
    /\ broadcast \in SUBSET Tx /\ revealed \in BOOLEAN
    /\ faults \in 0..MaxFaults

-----------------------------------------------------------------------------
(***************************************************************************)
(* Safety.                                                                 *)
(***************************************************************************)

\* However many attempts race, fail or crash, one transaction is ever sent
\* for the swap, the one its row holds (claim_swap persists before it
\* broadcasts, so that a retry cannot double-spend its own claim).
OneClaimTx == \A t \in broadcast : t = claimTx

\* Every claim that took the lockup pays the address kept in the row, and
\* the invoice's own address when there is one (resolve_claim_address: no
\* split and no second allocation under concurrent attempts).
PaysTheMerchant ==
    spender \in Tx => /\ spender.dest = address
                      /\ invStatus # "absent" => address = InvoiceAddr

\* A row says claimed only when the transaction it names has taken the
\* lockup, also after lost answers, late webhooks and recovered outspends.
ClaimIsOnChain ==
    status = "claimed" => spender \in Tx /\ claimTxid = spender

\* No row is closed as expired once Boltz has funded the lockup: swap.expired
\* leaves the HTLC claimable (dispatch_webhook, decide_action).
NoAbandonedLockup == status = "expired" => ~Funded

\* A row is given up exactly when its budget is spent: concurrent failures
\* neither overrun it nor close a row early (record_claim_failure).
StuckMeansBudgetSpent ==
    attempts = MaxAttempts <=> status = "claim_stuck"

\* The merchant is credited only for a lockup that our claim spent, and no
\* late flip, refund or stuck mark disturbs a credited invoice afterwards.
CreditIsBackedAndFinal ==
    credited => /\ spender \in Tx
                /\ invStatus = "paid" /\ settlement = "settled"

\* The row only moves forward: a terminal status stays, the claim and the
\* address are written once, attempts and the script-path flag never return.
RowForwardOnly ==
    [][/\ status \in Terminal => status' = status
       /\ claimTx # None => claimTx' = claimTx
       /\ address # None => address' = address
       /\ attempts' \in {attempts, attempts + 1}
       /\ coopRefused => coopRefused']_vars

\* The abstract view: the coin, the row's verdict, the invoice's credit.
CoinView ==
    IF spender = Refund THEN "refunded"
    ELSE IF spender # None THEN "ours"
    ELSE IF Funded THEN "locked" ELSE "none"

VerdictView ==
    CASE status = "claimed" -> "claimed"
      [] status = "expired" -> "dead"
      [] status = "lockup_refunded" -> "lost"
      [] status = "claim_stuck" -> "gave_up"
      [] OTHER -> "open"

Promise == INSTANCE SwapPromise
             WITH coin <- CoinView, verdict <- VerdictView, paid <- credited

\* The swap's tasks together keep the promise of SwapPromise.
KeepsPromise == Promise!Spec

\* The row as a purge and the allocator of addresses see it.
PhaseView ==
    CASE status \in {"claimed", "expired"} -> "done"
      [] status \in {"claim_stuck", "lockup_refunded"} -> "dead"
      [] status \in Claimable -> "claimable"
      [] OTHER -> "pending"

Life == INSTANCE SwapLife WITH phase <- PhaseView

\* The row lives as AddressBook lets it: a row that purge_user counts as
\* closed stays closed and needs no address any more, and an address is
\* chosen once, for a lockup that was seen.
LivesAsAssumed == Life!Spec

-----------------------------------------------------------------------------
(***************************************************************************)
(* The inductive invariant.  The safety properties speak of the row, the   *)
(* invoice and the chain; to be kept by every step they need what each     *)
(* task holds at each label, and what the world has shown.                 *)
(***************************************************************************)
Dead == {"invoice.expired", "transaction.failed"}

\* Labels at which a task is on its way to claim, or claiming.
Claims == {"flip", "called", "resolve", "construct", "commit", "broadcast",
           "probe", "won"}

\* Boltz's last word: after a dead status nothing follows, and it never
\* follows a lockup; a refund and a claim both spend a published lockup.
WorldInv ==
    /\ boltz \in emitted
    /\ boltz = "swap.created" => emitted = {"swap.created"}
    /\ emitted \cap Dead # {} => boltz \in Dead /\ ~Funded
    /\ "transaction.confirmed" \in emitted => Funded
    /\ "transaction.refunded" \in emitted => spender = Refund
    /\ spender # None => Funded

\* What a task knows is still true when it acts on it.
KnowledgeInv ==
    /\ \A h \in Handlers : pc[h] \in {"received", "apply"} => msg[h] \in emitted
    /\ \A w \in Workers : pc[w] \in Claims => Funded
    /\ raction \in {"AdvanceToLockupMempool", "AdvanceToLockupConfirmed"}
         => Funded
    /\ raction = "MarkExpired" => emitted \cap Dead # {}
    /\ raction = "MarkLockupRefunded" => "transaction.refunded" \in emitted

\* The advisory lock is held exactly from Begin to the commit.
LockInv ==
    \A w \in Workers :
        lock = w <=> pc[w] \in {"resolve", "construct", "commit"}

\* The claim in a task's hand against the claim in the row.
HandInv ==
    \A w \in Workers :
        /\ pc[w] = "resolve" => hand[w] = claimTx
        /\ pc[w] = "construct" => claimTx = None /\ address # None
        /\ pc[w] = "commit" => /\ hand[w] # None
                               /\ hand[w].dest = address
                               /\ claimTx # None => hand[w] = claimTx
        /\ pc[w] \in {"broadcast", "probe"} => /\ claimTx # None
                                               /\ hand[w] = claimTx
        /\ pc[w] = "won" => spender = claimTx /\ hand[w] = claimTx
        /\ pc[w] \in {"won", "settle", "clear", "credit"} => spender \in Tx

\* The row's claim against what was sent, and its status against the world.
RowInv ==
    /\ claimTxid = claimTx
    /\ claimTx # None => address # None /\ claimTx.dest = address
    /\ address # None /\ invStatus # "absent" => address = InvoiceAddr
    /\ \A t \in broadcast : t = claimTx
    /\ spender \in Tx => spender = claimTx
    /\ status \in Claimable => Funded
    /\ status = "claimed" => spender \in Tx
    /\ status = "expired" => emitted \cap Dead # {}
    /\ status = "lockup_refunded" => spender = Refund
    /\ attempts = MaxAttempts <=> status = "claim_stuck"

\* The invoice.
InvoiceInv ==
    credited => spender \in Tx /\ invStatus = "paid" /\ settlement = "settled"

\* A claim is never at a row that has not seen its lockup.
SeenInv == \A w \in Workers : pc[w] \in Claims => status # "pending"

IInv ==
    /\ TypeOK
    /\ WorldInv /\ KnowledgeInv /\ LockInv /\ HandInv /\ RowInv /\ InvoiceInv

-----------------------------------------------------------------------------
(***************************************************************************)
(* Liveness, under FairSpec.                                               *)
(***************************************************************************)

\* A row seen with a lockup is claimed, given up or otherwise closed in the
\* end, whatever attempts failed or were cut off: the sweep retries it.
ClaimableSettles == status \in Claimable ~> status \in Terminal

\* A lockup whose webhooks never arrive is found by the reconciler while
\* Boltz still shows it (reconciler.rs, the gap it closes).
LostWebhookRecovered ==
    (Funded /\ status = "pending")
        ~> (status # "pending" \/ boltz \notin {"transaction.mempool",
                                                "transaction.confirmed"})

\* A claimed swap's invoice is credited, unless it was cancelled.
ClaimedIsCredited ==
    (status = "claimed" /\ invStatus # "absent")
        ~> (credited \/ invStatus = "cancelled")

-----------------------------------------------------------------------------
(***************************************************************************)
(* A claim of the repository's text that the code does not keep.           *)
(***************************************************************************)

\* "flipping cooperative_refused and schedule an immediate retry so the
\* sweep takes the script path" (reconciler.rs): once the reconciler has
\* scheduled it, an unspent lockup sees an attempt, or the row is closed.
ScriptPathIsTaken ==
    (Funded /\ boltz = "swap.expired" /\ coopRefused /\ nextAt = "due")
        ~> (status \in Terminal \/ status = "claiming" \/ attempts > 0)
=============================================================================
