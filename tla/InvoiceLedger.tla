--------------------------- MODULE InvoiceLedger ---------------------------
(***************************************************************************)
(* One invoice and its payment events (db/invoices.rs), fed by four tasks  *)
(* that share nothing but the two tables:                                  *)
(*                                                                         *)
(*   - the Liquid watcher (chain_watcher.rs) scans the invoice's address;  *)
(*   - the Bitcoin watcher (bitcoin_watcher.rs) counts confirmed outputs;  *)
(*   - the claimer credits Boltz swaps (invoice.rs), whose claim pays the  *)
(*     very address the Liquid watcher scans;                              *)
(*   - GC and the status endpoint close invoices (gc.rs, invoice.rs).      *)
(*                                                                         *)
(* A payment is a piece of evidence, named like its event_key: a Bitcoin   *)
(* output, a Liquid output, or a Boltz swap.  A step is one transaction or *)
(* one answer of a backend; record_invoice_payment is one step because it  *)
(* holds the invoice's row lock (FOR UPDATE) from its first read on.       *)
(***************************************************************************)
EXTENDS Naturals, FiniteSetsExt

CONSTANTS
    Payments,     \* the evidence that may turn up for the invoice
    Source,       \* [Payments -> sources of evidence]
    Sats,         \* [Payments -> amount_sat]
    Txid,         \* [Payments -> transactions]; a swap's is its claim
    Amount,       \* invoices.amount_sat
    Shortfall,    \* [rails -> configured shortfall tolerance]
    Origin,       \* invoices.origin
    MaxFaults     \* bound on failed scans and crashes

Sources == {"bitcoin_direct", "liquid_direct", "lightning_boltz_reverse",
            "bitcoin_boltz_chain"}

Rails == {"bitcoin", "liquid", "lightning"}

BoltzSources == {"lightning_boltz_reverse", "bitcoin_boltz_chain"}

ASSUME PaymentsAssumption ==
    /\ Source \in [Payments -> Sources]
    /\ \A p \in Payments : Sats[p] \in Nat \ {0}
    /\ DOMAIN Txid = Payments
\* Only an output of the claim itself shares the transaction of a swap.
ASSUME ClaimAssumption ==
    \A p, q \in Payments :
        p # q /\ Txid[p] = Txid[q] /\ Source[p] \in BoltzSources
            => Source[q] = "liquid_direct"
ASSUME AmountAssumption == Amount \in Nat \ {0}
ASSUME ShortfallAssumption == Shortfall \in [Rails -> Nat]
ASSUME OriginAssumption == Origin \in {"checkout", "wallet"}
ASSUME FaultsAssumption == MaxFaults \in Nat

Liquid  == {p \in Payments : Source[p] = "liquid_direct"}
Bitcoin == {p \in Payments : Source[p] = "bitcoin_direct"}
Swaps   == {p \in Payments : Source[p] \in BoltzSources}

RailOf(p) == CASE Source[p] = "liquid_direct" -> "liquid"
               [] Source[p] = "lightning_boltz_reverse" -> "lightning"
               [] OTHER -> "bitcoin"

Open == {"unpaid", "in_progress", "partially_paid"}

InvoiceStatus == Open \cup {"paid", "underpaid", "overpaid", "expired",
                            "cancelled"}

SettlementStatus == {"none", "pending", "settled", "claim_stuck", "refunded"}

Observation == {"none", "seen_unconfirmed", "awaiting_confirmations",
                "counted", "not_seen"}

\* A Liquid output counts once seen; a Bitcoin output once deep enough.
Depth == {"absent", "mempool", "shallow", "deep"}

VARIABLES
    status, settlement, paidAmount,   \* the invoices row
    events,                           \* its invoice_payment_events
    observed,                         \* its invoice_payment_observations
    expired,                          \* past expires_at
    chain,                            \* what the chains show
    swap,                             \* how far the claimer is with a swap
    liquidPc, liquidTodo,             \* the Liquid watcher's scan
    btcPc, btcSeen, btcTodo, btcNow,  \* the Bitcoin watcher's check
    chosen,                           \* GC's batch has chosen the invoice
    faults

invoice == <<status, settlement, paidAmount, events>>
liquid  == <<liquidPc, liquidTodo>>
btc     == <<btcPc, btcSeen, btcTodo, btcNow>>
world   == <<expired, chain, swap>>
vars    == <<invoice, observed, world, liquid, btc, chosen, faults>>

NoOutputs == [p \in Bitcoin |-> "absent"]

\* insert_invoice
Init ==
    /\ status = "unpaid" /\ settlement = "none" /\ paidAmount = 0
    /\ events = {}
    /\ observed = [p \in Bitcoin |-> "none"]
    /\ expired = FALSE
    /\ chain = [p \in Liquid \cup Bitcoin |-> "absent"]
    /\ swap = [p \in Swaps |-> "offered"]
    /\ liquidPc = "idle" /\ liquidTodo = {}
    /\ btcPc = "idle" /\ btcSeen = NoOutputs
    /\ btcTodo = {} /\ btcNow = {}
    /\ chosen = FALSE
    /\ faults = 0

-----------------------------------------------------------------------------
(***************************************************************************)
(* The statements on the invoice.                                          *)
(***************************************************************************)

\* received_sat: the sum over the invoice's events.
Total(es) == MapThenSumSet(LAMBDA p : Sats[p], es)

\* payment_tolerance_sat_for_amount: a configured cap, at most one percent.
Tolerance(rail) ==
    Min({Shortfall[rail], Max({Amount \div 100, 1})})

\* Bug: the cap of one percent is left out.
VerdictUncapped(received, rail) ==
    IF received > Amount THEN "overpaid"
    ELSE IF received + 100 * Shortfall[rail] >= Amount THEN "paid"
    ELSE IF status = "underpaid" \/ expired THEN "underpaid"
    ELSE "partially_paid"

\* Bug: a top-up that is too small reopens an underpaid invoice.
VerdictReopens(received, rail) ==
    IF received > Amount THEN "overpaid"
    ELSE IF received + Tolerance(rail) >= Amount THEN "paid"
    ELSE IF expired THEN "underpaid"
    ELSE "partially_paid"

\* The status that record_invoice_payment writes.
Verdict(received, rail) ==
    IF received > Amount THEN "overpaid"
    ELSE IF received + Tolerance(rail) >= Amount THEN "paid"
    ELSE IF status = "underpaid" \/ expired THEN "underpaid"
    ELSE "partially_paid"

\* Bug: a Liquid output is counted although its swap already is.
CountedElsewhereNever(p) == FALSE

\* A Liquid output of a claim that its swap already accounts for.
CountedElsewhere(p) ==
    /\ Source[p] = "liquid_direct"
    /\ \E e \in events : Source[e] \in BoltzSources /\ Txid[e] = Txid[p]

\* Bug: the swap's own claim, seen by the watcher first, stays counted.
SupersededNone(p) == {}

\* Bug: every Liquid output of the invoice is replaced.
SupersededAll(p) ==
    {e \in events : /\ Source[p] \in BoltzSources
                    /\ Source[e] = "liquid_direct"}

\* The Liquid outputs that the credit of a swap replaces: its own claim.
Superseded(p) ==
    {e \in events : /\ Source[p] \in BoltzSources
                    /\ Source[e] = "liquid_direct"
                    /\ Txid[e] = Txid[p]}

\* Bug: an insert refused as a duplicate is added to the cached total.
RecordBlindly(p) ==
    /\ events' = events \cup {p}
    /\ paidAmount' = paidAmount + Sats[p]
    /\ status' = Verdict(paidAmount', RailOf(p))
    /\ settlement' = IF status' \in {"paid", "overpaid"}
                     THEN "settled" ELSE "none"

\* record_invoice_payment
Record(p) ==
    LET after == (events \ Superseded(p)) \cup {p}
    IN IF \/ status = "cancelled"
          \/ CountedElsewhere(p)
          \/ (p \in events /\ Superseded(p) = {})
       THEN UNCHANGED invoice
       ELSE /\ events' = after
            /\ paidAmount' = Total(after)
            /\ status' = Verdict(Total(after), RailOf(p))
            /\ settlement' = IF status' \in {"paid", "overpaid"}
                             THEN "settled" ELSE "none"

\* mark_invoice_settlement_status and its _for_swap variant.
MarkSettlement(s) ==
    /\ settlement' = IF status \in Open THEN s ELSE settlement
    /\ UNCHANGED <<status, paidAmount, events>>

\* mark_invoice_in_progress, else the settlement status alone.  Nothing
\* returns to unpaid, so the two statements act as one.
MarkInProgress ==
    IF status = "unpaid"
    THEN /\ status' = "in_progress" /\ settlement' = "pending"
         /\ UNCHANGED <<paidAmount, events>>
    ELSE MarkSettlement("pending")

-----------------------------------------------------------------------------
(***************************************************************************)
(* The Liquid watcher: list, fetch the history, record output by output.   *)
(***************************************************************************)

\* list_unpaid_invoices_with_liquid_address
WatchedForLiquid ==
    /\ \/ status \in Open
       \/ Origin = "checkout" /\ status = "underpaid"
    /\ ~expired

LiquidList ==
    /\ liquidPc = "idle"
    /\ WatchedForLiquid
    /\ liquidPc' = "listed"
    /\ UNCHANGED <<invoice, observed, world, liquidTodo, btc, chosen, faults>>

LiquidHistory ==
    /\ liquidPc = "listed"
    /\ liquidTodo' = {p \in Liquid : chain[p] # "absent"}
    /\ liquidPc' = "record"
    /\ UNCHANGED <<invoice, observed, world, btc, chosen, faults>>

\* Bug: the scan stops at the first output that is already known.
LiquidRecordUntilKnown(p) ==
    /\ liquidPc = "record" /\ p \in liquidTodo
    /\ Record(p)
    /\ liquidTodo' = IF p \in events THEN {} ELSE liquidTodo \ {p}
    /\ UNCHANGED <<observed, world, liquidPc, btc, chosen, faults>>

LiquidRecord(p) ==
    /\ liquidPc = "record" /\ p \in liquidTodo
    /\ Record(p)
    /\ liquidTodo' = liquidTodo \ {p}
    /\ UNCHANGED <<observed, world, liquidPc, btc, chosen, faults>>

LiquidDone ==
    /\ liquidPc = "record" /\ liquidTodo = {}
    /\ liquidPc' = "idle"
    /\ UNCHANGED <<invoice, observed, world, liquidTodo, btc, chosen, faults>>

LiquidStep ==
    \/ LiquidHistory \/ LiquidDone
    \/ \E p \in Liquid : LiquidRecord(p)

-----------------------------------------------------------------------------
(***************************************************************************)
(* The Bitcoin watcher: list, fetch the tip, fetch the address, and act on *)
(* each output; then close the observations that are gone and show that a  *)
(* payment is on its way.                                                  *)
(***************************************************************************)

\* Bug: a partial payment ends the watch.
BtcListUnpaid ==
    /\ btcPc = "idle"
    /\ status \in {"unpaid", "in_progress"} /\ ~expired
    /\ btcPc' = "listed"
    /\ UNCHANGED <<invoice, observed, world, liquid, btcSeen, btcTodo, btcNow,
                   chosen, faults>>

\* fetch_invoices
BtcList ==
    /\ btcPc = "idle"
    /\ status \in Open /\ ~expired
    /\ btcPc' = "listed"
    /\ UNCHANGED <<invoice, observed, world, liquid, btcSeen, btcTodo, btcNow,
                   chosen, faults>>

\* fetch_tip_height: what is deep enough by that tip.
BtcTip ==
    /\ btcPc = "listed"
    /\ btcSeen' = [p \in Bitcoin |->
                     IF chain[p] = "deep" THEN "deep" ELSE "absent"]
    /\ btcPc' = "tip"
    /\ UNCHANGED <<invoice, observed, world, liquid, btcTodo, btcNow, chosen,
                   faults>>

\* The address is read after the tip: with the blocks that came in between,
\* an output looks shallower than it is.
BtcFetch ==
    /\ btcPc = "tip"
    /\ btcSeen' = [p \in Bitcoin |->
                     IF chain[p] = "deep" /\ btcSeen[p] # "deep"
                     THEN "shallow" ELSE chain[p]]
    /\ btcTodo' = {p \in Bitcoin : chain[p] # "absent"}
    /\ btcPc' = "outputs"
    /\ UNCHANGED <<invoice, observed, world, liquid, btcNow, chosen, faults>>

\* Bug: an output counts from its first confirmation on.
BtcRecordEarly(p) ==
    /\ btcPc = "outputs" /\ btcNow = {} /\ p \in btcTodo
    /\ btcSeen[p] \in {"shallow", "deep"}
    /\ Record(p)
    /\ btcNow' = {p}
    /\ UNCHANGED <<observed, world, liquid, btcPc, btcSeen, btcTodo, chosen,
                   faults>>

\* record_confirmed_output
BtcRecord(p) ==
    /\ btcPc = "outputs" /\ btcNow = {} /\ p \in btcTodo
    /\ btcSeen[p] = "deep"
    /\ Record(p)
    /\ btcNow' = {p}
    /\ UNCHANGED <<observed, world, liquid, btcPc, btcSeen, btcTodo, chosen,
                   faults>>

\* Bug: the observation is closed whether or not the event was inserted.
BtcCountedAlways(p) ==
    /\ btcPc = "outputs" /\ p \in btcNow
    /\ observed' = [observed EXCEPT ![p] = "counted"]
    /\ btcTodo' = btcTodo \ {p} /\ btcNow' = {}
    /\ UNCHANGED <<invoice, world, liquid, btcPc, btcSeen, chosen, faults>>

\* ... and its observation, unless the event was refused (cancelled).
BtcCounted(p) ==
    /\ btcPc = "outputs" /\ p \in btcNow
    /\ observed' = IF p \in events
                   THEN [observed EXCEPT ![p] = "counted"] ELSE observed
    /\ btcTodo' = btcTodo \ {p} /\ btcNow' = {}
    /\ UNCHANGED <<invoice, world, liquid, btcPc, btcSeen, chosen, faults>>

\* upsert_bitcoin_observation of an output that does not count yet.
BtcObserve(p) ==
    /\ btcPc = "outputs" /\ btcNow = {} /\ p \in btcTodo
    /\ btcSeen[p] # "deep"
    /\ observed' = [observed EXCEPT ![p] =
                      IF btcSeen[p] = "mempool" THEN "seen_unconfirmed"
                      ELSE "awaiting_confirmations"]
    /\ btcTodo' = btcTodo \ {p}
    /\ UNCHANGED <<invoice, world, liquid, btcPc, btcSeen, btcNow, chosen,
                   faults>>

\* mark_missing_bitcoin_payment_observations_not_seen
BtcMissing ==
    /\ btcPc = "outputs" /\ btcTodo = {}
    /\ observed' = [p \in Bitcoin |->
                      IF /\ btcSeen[p] = "absent"
                         /\ observed[p] \in {"seen_unconfirmed",
                                             "awaiting_confirmations"}
                      THEN "not_seen" ELSE observed[p]]
    /\ btcPc' = IF \E p \in Bitcoin : btcSeen[p] \in {"mempool", "shallow"}
                THEN "mark" ELSE "idle"
    /\ btcSeen' = NoOutputs
    /\ UNCHANGED <<invoice, world, liquid, btcTodo, btcNow, chosen, faults>>

BtcMark ==
    /\ btcPc = "mark"
    /\ MarkInProgress
    /\ btcPc' = "idle"
    /\ UNCHANGED <<observed, world, liquid, btcSeen, btcTodo, btcNow, chosen,
                   faults>>

BtcStep ==
    \/ BtcTip \/ BtcFetch \/ BtcMissing \/ BtcMark
    \/ \E p \in Bitcoin : BtcRecord(p) \/ BtcCounted(p) \/ BtcObserve(p)

-----------------------------------------------------------------------------
(***************************************************************************)
(* The claimer, as the invoice sees it (ReverseSwap has the whole of it):  *)
(* a lockup is seen, maybe late and more than once; the claim is sent, and *)
(* from then on the Liquid watcher may see it too; the settlement mark and *)
(* the payment event follow, unless the process dies in between.           *)
(***************************************************************************)
SwapLocks(p) ==
    /\ swap[p] = "offered"
    /\ swap' = [swap EXCEPT ![p] = "locked"]
    /\ UNCHANGED <<invoice, observed, expired, chain, liquid, btc, chosen,
                   faults>>

\* flip_invoice_on_lightning_in_progress and its Bitcoin twin
SwapFlip(p) ==
    /\ swap[p] # "offered"
    /\ MarkInProgress
    /\ UNCHANGED <<observed, world, liquid, btc, chosen, faults>>

SwapClaimed(p) ==
    /\ swap[p] = "locked"
    /\ swap' = [swap EXCEPT ![p] = "claimed"]
    /\ chain' = [q \in DOMAIN chain |->
                   IF q \in Liquid /\ Txid[q] = Txid[p] THEN "mempool"
                   ELSE chain[q]]
    /\ UNCHANGED <<invoice, observed, expired, liquid, btc, chosen, faults>>

SwapMarks(p) ==
    /\ swap[p] = "claimed"
    /\ MarkSettlement("settled")
    /\ swap' = [swap EXCEPT ![p] = "marked"]
    /\ UNCHANGED <<observed, expired, chain, liquid, btc, chosen, faults>>

\* flip_invoice_on_lightning_settlement and its Bitcoin twin
SwapCredits(p) ==
    /\ swap[p] = "marked"
    /\ Record(p)
    /\ swap' = [swap EXCEPT ![p] = "done"]
    /\ UNCHANGED <<observed, expired, chain, liquid, btc, chosen, faults>>

\* claim_stuck, or the lockup was refunded.
SwapFails(p) ==
    /\ swap[p] = "locked"
    /\ \E s \in {"claim_stuck", "refunded"} : MarkSettlement(s)
    /\ swap' = [swap EXCEPT ![p] = "failed"]
    /\ UNCHANGED <<observed, expired, chain, liquid, btc, chosen, faults>>

SwapStep ==
    \E p \in Swaps : \/ SwapLocks(p) \/ SwapFlip(p) \/ SwapClaimed(p)
                     \/ SwapMarks(p) \/ SwapCredits(p) \/ SwapFails(p)

-----------------------------------------------------------------------------
(***************************************************************************)
(* Closing an invoice.                                                     *)
(***************************************************************************)

\* cancel_invoice
Cancel ==
    /\ status = "unpaid"
    /\ status' = "cancelled"
    /\ UNCHANGED <<settlement, paidAmount, events, observed, world,
                   liquid, btc, chosen, faults>>

\* Bug: a partial payment expires like an unpaid invoice.
ExpireAll ==
    /\ expired /\ status \in Open
    /\ status' = "expired"
    /\ UNCHANGED <<settlement, paidAmount, events, observed, world,
                   liquid, btc, chosen, faults>>

\* Bug: partial payments are left open.
ExpireUntouched ==
    /\ expired /\ status \in {"unpaid", "in_progress"}
    /\ status' = "expired"
    /\ UNCHANGED <<settlement, paidAmount, events, observed, world,
                   liquid, btc, chosen, faults>>

\* expire_invoices_past_deadline
Expire ==
    /\ expired /\ status \in Open
    /\ status' = IF status = "partially_paid" THEN "underpaid" ELSE "expired"
    /\ UNCHANGED <<settlement, paidAmount, events, observed, world,
                   liquid, btc, chosen, faults>>

\* A checkout that waits for the rest of its payment.  That its latest event
\* is older than the grace may be true at any time, as there is no clock here.
ShortCheckout ==
    /\ Origin = "checkout" /\ status = "partially_paid"
    /\ settlement \notin {"pending", "claim_stuck", "refunded"}

\* terminalize_stale_checkout_partial_invoice, by a status request: one row,
\* which the statement looks at again when it had to wait for it.
Terminalize ==
    /\ ShortCheckout
    /\ status' = "underpaid"
    /\ UNCHANGED <<settlement, paidAmount, events, observed, world, liquid,
                   btc, chosen, faults>>

\* terminalize_stale_checkout_partial_invoices, by GC: the batch is chosen by
\* the statement's snapshot, ...
BatchChooses ==
    /\ ~chosen /\ ShortCheckout
    /\ chosen' = TRUE
    /\ UNCHANGED <<invoice, observed, world, liquid, btc, faults>>

\* ... and the update joins it by id alone: the row is written whatever a
\* payment did to it in the meantime.  A statement that fails never writes, and
\* the next one then stands for both.
BatchWrites ==
    /\ chosen
    /\ chosen' = FALSE
    /\ status' = "underpaid"
    /\ UNCHANGED <<settlement, paidAmount, events, observed, world, liquid,
                   btc, faults>>

-----------------------------------------------------------------------------
(***************************************************************************)
(* The clock, the chains and faults.                                       *)
(***************************************************************************)
Deadline ==
    /\ ~expired /\ expired' = TRUE
    /\ UNCHANGED <<invoice, observed, chain, swap, liquid, btc, chosen,
                   faults>>

\* A payer's transaction enters the mempool, confirms, drops out before it
\* is deep, or loses its block; the output of a claim comes with its swap.
ChainMoves(p) ==
    /\ \/ chain[p] = "absent" /\ chain' = [chain EXCEPT ![p] = "mempool"]
       \/ /\ p \in Bitcoin /\ chain[p] \in {"mempool", "shallow"}
          /\ \E d \in Depth \ {chain[p]} : chain' = [chain EXCEPT ![p] = d]
    /\ \A s \in Swaps : Txid[s] # Txid[p]
    /\ UNCHANGED <<invoice, observed, expired, swap, liquid, btc, chosen,
                   faults>>

\* A scan breaks off, a check fails, or the process dies.  A
\* swap that was claimed and not yet credited stays so: its row is terminal.
ScanFails ==
    /\ faults < MaxFaults
    /\ faults' = faults + 1
    /\ \/ /\ liquidPc' = "idle" /\ liquidTodo' = {}
          /\ UNCHANGED <<btc, swap>>
       \/ /\ btcPc' = "idle" /\ btcSeen' = NoOutputs
          /\ btcTodo' = {} /\ btcNow' = {}
          /\ UNCHANGED <<liquid, swap>>
       \/ /\ \E p \in Swaps :
               /\ swap[p] \in {"claimed", "marked"}
               /\ swap' = [swap EXCEPT ![p] = "lost"]
          /\ UNCHANGED <<liquid, btc>>
    /\ UNCHANGED <<invoice, observed, expired, chain, chosen>>

Next ==
    \/ LiquidList \/ LiquidStep
    \/ BtcList \/ BtcStep
    \/ SwapStep
    \/ Cancel \/ Expire \/ Terminalize \/ BatchChooses \/ BatchWrites
    \/ Deadline
    \/ \E p \in Liquid \cup Bitcoin : ChainMoves(p)
    \/ ScanFails

Spec == Init /\ [][Next]_vars

(***************************************************************************)
(* The watchers and GC loop on timers and finish what they started.        *)
(***************************************************************************)
Fairness ==
    /\ WF_vars(LiquidList \/ LiquidStep)
    /\ WF_vars(BtcList \/ BtcStep)
    /\ WF_vars(Expire)

FairSpec == Spec /\ Fairness
=============================================================================
