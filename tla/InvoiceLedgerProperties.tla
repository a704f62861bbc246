---------------------- MODULE InvoiceLedgerProperties ----------------------
(***************************************************************************)
(* What InvoiceLedger must guarantee.                                      *)
(***************************************************************************)
EXTENDS InvoiceLedger

\* Every variable keeps its type; the cached total is CachedTotal's matter.
TypeOK ==
    /\ status \in InvoiceStatus /\ settlement \in SettlementStatus
    /\ events \in SUBSET Payments
    /\ observed \in [Bitcoin -> Observation]
    /\ expired \in BOOLEAN
    /\ chain \in [Liquid \cup Bitcoin -> Depth]
    /\ swap \in [Swaps -> {"offered", "locked", "claimed", "marked",
                           "done", "lost", "failed"}]
    /\ liquidPc \in {"idle", "listed", "record"}
    /\ liquidTodo \in SUBSET Liquid
    /\ btcPc \in {"idle", "listed", "tip", "outputs", "mark"}
    /\ btcSeen \in [Bitcoin -> Depth]
    /\ btcTodo \in SUBSET Bitcoin /\ btcNow \in SUBSET Bitcoin
    /\ chosen \in BOOLEAN
    /\ faults \in 0..MaxFaults

\* A claim is counted once: as its swap's payment or as the Liquid output
\* the watcher saw, whichever of the two tasks came first.
CountedOnce ==
    \A p, q \in events :
        p # q /\ Txid[p] = Txid[q] => Source[p] \notin BoltzSources

\* paid_amount_sat is the sum of the events, through every interleaving of
\* inserts, refused duplicates and replaced outputs.
CachedTotal == paidAmount = Total(events)

\* The events and the status agree, so that no statement ever runs into
\* invoices_paid_via_chk (024_invoice_payment_events.sql): an expired or
\* cancelled invoice has counted nothing.
StatusCoherent ==
    events = {} <=> status \in {"unpaid", "in_progress", "expired",
                                "cancelled"}

\* The batch of GC has declared underpaid what was paid: it had chosen the
\* checkout before the payment and did not look again (db/invoices.rs:942), so
\* that it shows as a session which "expired after receiving some value below
\* the target" (docs/payment-architecture.md:220).  The settlement mark of that
\* payment is what is left of it.
Overwritten ==
    status = "underpaid" /\ settlement = "settled" /\ Origin = "checkout"

\* The verdict says what was received: overpaid above the amount alone, paid
\* never below it by more than the widest tolerance, partially paid and
\* underpaid below it, in every order of payments, replacements, closures and
\* late evidence.  The one exception is a checkout that GC has overwritten.
VerdictMatchesTotal ==
    /\ status = "overpaid" => paidAmount > Amount
    /\ paidAmount > Amount => status = "overpaid" \/ Overwritten
    /\ status = "paid" =>
         \E rail \in Rails : paidAmount + Tolerance(rail) >= Amount
    /\ status = "partially_paid" => paidAmount < Amount
    /\ status = "underpaid" => paidAmount < Amount \/ Overwritten
    /\ status \in {"paid", "overpaid"} => settlement = "settled"

\* Evidence is never dropped, but for an output whose swap takes its place.
NothingUncounted ==
    [][\A p \in events \ events' :
          /\ Source[p] = "liquid_direct"
          /\ \E q \in events' : /\ Source[q] \in BoltzSources
                                /\ Txid[q] = Txid[p]]_vars

\* What ends an invoice, and what may still move it then.  Cancelled is final,
\* and only an unpaid invoice is cancelled ("can cancel only while unpaid");
\* an expired one moves by late evidence only, and not back to open; an
\* underpaid one only improves ("Preserved terminal monotonicity", ITEM-002).
\* A paid one is not final: it falls back when new evidence leaves the sum
\* below the amount, judged by another rail's tolerance or lowered by a
\* replacement, to partially paid before the deadline and underpaid after it;
\* without evidence, only GC's batch takes it back, to underpaid.
ClosureGivesWayToEvidence ==
    [][/\ status = "cancelled" => status' = "cancelled"
       /\ status \notin {"unpaid", "cancelled"} =>
            status' \notin {"unpaid", "cancelled"}
       /\ status = "expired" =>
            status' \in {"expired", "underpaid", "paid", "overpaid"}
       /\ status = "underpaid" => status' \in {"underpaid", "paid", "overpaid"}
       /\ status \in {"paid", "overpaid"} =>
            \/ status' \in {"paid", "overpaid"}
            \/ /\ events' # events /\ paidAmount' < Amount
               /\ status' = IF expired THEN "underpaid" ELSE "partially_paid"
            \/ chosen /\ status' = "underpaid"]_vars

\* An observation is shown as counted only for an output that is counted:
\* observations are status evidence, the events alone are accounting.
CountedIsAccounted ==
    \A p \in Bitcoin : observed[p] = "counted" => p \in events

\* A Bitcoin output is counted only once it had the required confirmations.
DeepBeforeCounted ==
    \A p \in Bitcoin : p \in events => chain[p] = "deep"

\* The inductive invariant of the ledger: with the types and the above, what
\* the Bitcoin watcher saw deep is deep, an expired invoice is past its
\* deadline, and what GC has chosen is a checkout with payments.
LedgerInv ==
    /\ TypeOK
    /\ CountedOnce /\ CachedTotal /\ StatusCoherent
    /\ CountedIsAccounted /\ DeepBeforeCounted
    /\ \A p \in Bitcoin : btcSeen[p] = "deep" => chain[p] = "deep"
    /\ status = "expired" => expired
    /\ chosen => Origin = "checkout" /\ events # {}

-----------------------------------------------------------------------------
(***************************************************************************)
(* Liveness, under FairSpec.                                               *)
(***************************************************************************)
Accounted(p) == \E e \in events : e = p \/ Txid[e] = Txid[p]

\* What a payer has sent to the Liquid address is counted while the invoice
\* is watched: a top-up of a partial payment is not held up by the outputs
\* already known.
LiquidIsCounted ==
    \A p \in Liquid :
        chain[p] # "absent" ~> (Accounted(p) \/ ~WatchedForLiquid)

\* So is a Bitcoin output that is deep enough, unless it got there after the
\* deadline or the invoice was settled otherwise.
BitcoinIsCounted ==
    \A p \in Bitcoin :
        chain[p] = "deep" ~> (Accounted(p) \/ expired \/ status \notin Open)

\* No invoice stays open past its deadline, whatever arrives meanwhile.
ExpiredIsClosed == expired ~> status \notin Open
=============================================================================
