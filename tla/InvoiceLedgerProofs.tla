------------------------ MODULE InvoiceLedgerProofs ------------------------
(***************************************************************************)
(* Proofs about InvoiceLedger, for any payments on any rails, any amounts, *)
(* tolerances and number of faults.                                        *)
(*                                                                         *)
(* What record_invoice_payment does to the ledger is shown once (the       *)
(* Record lemmas), and used by the three tasks that call it.  That the     *)
(* cached total is the sum of the events needs no property of sums; what   *)
(* the total says of the status, and of one event, rests on LedgerSums.    *)
(***************************************************************************)
EXTENDS InvoiceLedgerProperties, LedgerSums

USE PaymentsAssumption, ClaimAssumption, FaultsAssumption

\* The vocabulary: tuples of variables and sets of values.
USE DEF invoice, liquid, btc, world, Liquid, Bitcoin, Swaps, Sources,
        BoltzSources, Open, InvoiceStatus, SettlementStatus, Observation,
        Depth, NoOutputs

\* The part of the invariant that is about the invoice and its events.
RowInv ==
    /\ status \in InvoiceStatus /\ settlement \in SettlementStatus
    /\ events \in SUBSET Payments
    /\ CountedOnce /\ CachedTotal /\ StatusCoherent

\* The part that is about the Bitcoin watcher and its observations.
WatchInv ==
    /\ observed \in [Bitcoin -> Observation]
    /\ expired \in BOOLEAN
    /\ chain \in [Liquid \cup Bitcoin -> Depth]
    /\ swap \in [Swaps -> {"offered", "locked", "claimed", "marked",
                           "done", "lost", "failed"}]
    /\ liquidPc \in {"idle", "listed", "record"}
    /\ liquidTodo \in SUBSET Liquid
    /\ btcPc \in {"idle", "listed", "tip", "outputs", "mark"}
    /\ btcSeen \in [Bitcoin -> Depth]
    /\ btcTodo \in SUBSET Bitcoin /\ btcNow \in SUBSET Bitcoin
    /\ chosen \in BOOLEAN /\ faults \in 0..MaxFaults
    /\ \A p \in Bitcoin : btcSeen[p] = "deep" => chain[p] = "deep"

\* The two parts, and what ties them: an observation shown as counted has
\* its event, an event of a Bitcoin output its confirmations, an expired
\* invoice its deadline behind it, and a checkout chosen by GC its payments.
Ties ==
    /\ CountedIsAccounted /\ DeepBeforeCounted
    /\ status = "expired" => expired
    /\ chosen => Origin = "checkout" /\ events # {}

LEMMA InvParts ==
    LedgerInv <=> RowInv /\ WatchInv /\ Ties
BY DEF LedgerInv, TypeOK, RowInv, WatchInv, Ties

LEMMA InvPartsPrime ==
    LedgerInv' <=> RowInv' /\ WatchInv' /\ Ties'
BY DEF LedgerInv, TypeOK, RowInv, WatchInv, Ties

-----------------------------------------------------------------------------
(***************************************************************************)
(* The statements on the invoice.                                          *)
(***************************************************************************)

\* record_invoice_payment either refuses the evidence or adds it, and then
\* all it removes are Liquid outputs of the recorded swap's own claim.
LEMMA RecordEvents ==
    ASSUME NEW p \in Payments, Record(p)
    PROVE  \/ UNCHANGED invoice
           \/ /\ events' = (events \ Superseded(p)) \cup {p}
              /\ p \notin events \/ Superseded(p) # {}
              /\ ~CountedElsewhere(p) /\ status # "cancelled"
              /\ paidAmount' = Total(events')
              /\ status' = Verdict(paidAmount', RailOf(p))
              /\ settlement' \in {"settled", "none"}
              /\ status' \in {"paid", "overpaid"} => settlement' = "settled"
BY DEF Record

\* The verdict is one of four statuses, and never reopens an underpaid one.
LEMMA VerdictRange ==
    ASSUME NEW r, NEW rail
    PROVE  /\ Verdict(r, rail) \in {"overpaid", "paid", "underpaid",
                                    "partially_paid"}
           /\ status = "underpaid" => Verdict(r, rail) # "partially_paid"
BY DEF Verdict

\* The two tasks that see one claim, in either order, leave one event of it.
LEMMA RecordInv ==
    ASSUME RowInv, NEW p \in Payments, Record(p)
    PROVE  RowInv'
<1>1. CASE UNCHANGED invoice
  BY <1>1 DEF RowInv, CountedOnce, CachedTotal, StatusCoherent
<1>2. CASE /\ events' = (events \ Superseded(p)) \cup {p}
           /\ ~CountedElsewhere(p) /\ status # "cancelled"
           /\ paidAmount' = Total(events')
           /\ status' = Verdict(paidAmount', RailOf(p))
           /\ settlement' \in {"settled", "none"}
  <2>1. status' \in {"overpaid", "paid", "underpaid", "partially_paid"}
    BY <1>2, VerdictRange
  <2>2. StatusCoherent'
    BY <1>2, <2>1 DEF StatusCoherent
  <2>3. CachedTotal'
    BY <1>2 DEF CachedTotal
  <2>4. CountedOnce'
    <3>1. SUFFICES ASSUME NEW e \in events', NEW q \in events',
                          e # q, Txid[e] = Txid[q], Source[e] \in BoltzSources
                   PROVE  FALSE
      BY DEF CountedOnce
    <3>2. e \in Payments /\ q \in Payments /\ Source[q] = "liquid_direct"
      BY <1>2, <3>1 DEF RowInv
    <3>3. CASE e \in events /\ q \in events
      BY <3>1, <3>3 DEF RowInv, CountedOnce
    <3>4. CASE e = p
      BY <1>2, <3>1, <3>2, <3>4 DEF Superseded
    <3>5. CASE q = p /\ e \in events
      BY <1>2, <3>1, <3>2, <3>5 DEF CountedElsewhere
    <3>. QED
      BY <1>2, <3>3, <3>4, <3>5
  <2>. QED
    BY <1>2, <2>1, <2>2, <2>3, <2>4 DEF RowInv
<1>. QED
  BY <1>1, <1>2, RecordEvents

\* Recording leaves the status or writes a verdict, never on a cancelled
\* invoice, and a partial payment only to an invoice still in time;
LEMMA RecordStatus ==
    ASSUME NEW p \in Payments, Record(p)
    PROVE  \/ status' = status
           \/ /\ status # "cancelled"
              /\ status' \in {"overpaid", "paid", "underpaid",
                             "partially_paid"}
              /\ status = "underpaid" \/ expired
                   => status' # "partially_paid"
BY RecordEvents DEF Verdict

\* ... an invoice that has events keeps some,
LEMMA RecordKeepsSome ==
    ASSUME NEW p \in Payments, Record(p)
    PROVE  events # {} => events' # {}
BY RecordEvents

\* ... and no event of a Bitcoin output is lost, or added but p.
LEMMA RecordKeepsBitcoin ==
    ASSUME NEW p \in Payments, Record(p), NEW q \in Bitcoin
    PROVE  /\ q \in events => q \in events'
           /\ q \in events' => q \in events \/ q = p
BY RecordEvents DEF Superseded

\* The settlement mark leaves the ledger alone.
LEMMA MarkInv ==
    ASSUME RowInv, NEW s \in SettlementStatus, MarkSettlement(s)
    PROVE  RowInv' /\ events' = events /\ status' = status
BY DEF RowInv, MarkSettlement, CountedOnce, CachedTotal, StatusCoherent

LEMMA MarkInProgressInv ==
    ASSUME RowInv, MarkInProgress
    PROVE  /\ RowInv' /\ events' = events
           /\ status' = status \/ status' = "in_progress"
<1>1. CASE status = "unpaid"
  BY <1>1 DEF MarkInProgress, RowInv, CountedOnce, CachedTotal, StatusCoherent
<1>2. CASE status # "unpaid"
  BY <1>2, MarkInv DEF MarkInProgress
<1>. QED
  BY <1>1, <1>2

-----------------------------------------------------------------------------
(***************************************************************************)
(* The invariant.                                                          *)
(***************************************************************************)

\* The invoice is created without events.
LEMMA InitInv == Init => LedgerInv
<1>. SUFFICES ASSUME Init PROVE LedgerInv
  OBVIOUS
<1>1. Total({}) = 0
  BY TotalOfNone
<1>2. RowInv
  BY <1>1 DEF Init, RowInv, CountedOnce, CachedTotal, StatusCoherent
<1>3. observed \in [Bitcoin -> Observation] /\ btcSeen \in [Bitcoin -> Depth]
  BY DEF Init
<1>4. /\ chain \in [Liquid \cup Bitcoin -> Depth]
      /\ swap \in [Swaps -> {"offered", "locked", "claimed", "marked",
                             "done", "lost", "failed"}]
  BY DEF Init
<1>5. WatchInv
  <2>0. faults \in 0..MaxFaults
    BY DEF Init
  <2>1. /\ expired \in BOOLEAN /\ chosen \in BOOLEAN
        /\ liquidPc \in {"idle", "listed", "record"}
        /\ liquidTodo \in SUBSET Liquid
    BY DEF Init
  <2>2. /\ btcPc \in {"idle", "listed", "tip", "outputs", "mark"}
        /\ btcTodo \in SUBSET Bitcoin /\ btcNow \in SUBSET Bitcoin
    BY DEF Init
  <2>3. \A p \in Bitcoin : btcSeen[p] # "deep"
    BY DEF Init
  <2>. QED
    BY <1>3, <1>4, <2>0, <2>1, <2>2, <2>3 DEF WatchInv
<1>6. Ties
  BY DEF Init, Ties, CountedIsAccounted, DeepBeforeCounted
<1>. QED
  BY <1>2, <1>5, <1>6, InvParts

\* A step of the Liquid watcher; only LiquidRecord touches the ledger.
LEMMA LiquidInv ==
    ASSUME LedgerInv, LiquidList \/ LiquidStep
    PROVE  LedgerInv'
<1>. USE InvParts, InvPartsPrime
<1>. USE DEF Ties, CountedIsAccounted, DeepBeforeCounted
<1>1. CASE LiquidList
  BY <1>1 DEF LiquidList, WatchInv, RowInv, CountedOnce, CachedTotal,
              StatusCoherent
<1>2. CASE LiquidHistory
  BY <1>2 DEF LiquidHistory, WatchInv, RowInv, CountedOnce, CachedTotal,
              StatusCoherent
<1>3. CASE LiquidDone
  BY <1>3 DEF LiquidDone, WatchInv, RowInv, CountedOnce, CachedTotal,
              StatusCoherent
<1>4. ASSUME NEW p \in Liquid, LiquidRecord(p) PROVE LedgerInv'
  <2>1. Record(p) /\ p \in Payments /\ p \notin Bitcoin
    BY <1>4 DEF LiquidRecord
  <2>2. RowInv'
    BY <2>1, RecordInv
  <2>3. WatchInv'
    BY <1>4 DEF LiquidRecord, WatchInv
  <2>4. \A q \in Bitcoin : q \in events' <=> q \in events
    BY <2>1, RecordKeepsBitcoin
  <2>5. Ties'
    BY <1>4, <2>1, <2>4, RecordStatus, RecordKeepsSome DEF LiquidRecord
  <2>. QED
    BY <2>2, <2>3, <2>5
<1>. QED
  BY <1>1, <1>2, <1>3, <1>4 DEF LiquidStep

\* A step of the Bitcoin watcher: what it saw deep stays deep, so that what it
\* records has its confirmations, whatever passed since the tip was read.
LEMMA BtcInv ==
    ASSUME LedgerInv, BtcList \/ BtcStep
    PROVE  LedgerInv'
<1>. USE InvParts, InvPartsPrime
<1>. USE DEF Ties, CountedIsAccounted, DeepBeforeCounted
<1>0. ASSUME UNCHANGED invoice PROVE RowInv'
  BY <1>0 DEF RowInv, CountedOnce, CachedTotal, StatusCoherent
<1>1. CASE BtcList
  BY <1>0, <1>1 DEF BtcList, WatchInv
<1>2. CASE BtcTip
  BY <1>0, <1>2 DEF BtcTip, WatchInv
<1>3. CASE BtcFetch
  <2>1. btcSeen' \in [Bitcoin -> Depth]
    BY <1>3 DEF BtcFetch, WatchInv
  <2>2. \A p \in Bitcoin : btcSeen'[p] = "deep" => chain'[p] = "deep"
    BY <1>3 DEF BtcFetch, WatchInv
  <2>. QED
    BY <1>0, <1>3, <2>1, <2>2 DEF BtcFetch, WatchInv
<1>4. CASE BtcMissing
  <2>1. observed' \in [Bitcoin -> Observation]
    BY <1>4 DEF BtcMissing, WatchInv
  <2>2. btcSeen' \in [Bitcoin -> Depth]
    BY <1>4 DEF BtcMissing, WatchInv
  <2>3. WatchInv'
    BY <1>4, <2>1, <2>2 DEF BtcMissing, WatchInv
  <2>4. Ties'
    BY <1>4 DEF BtcMissing, WatchInv
  <2>. QED
    BY <1>0, <1>4, <2>3, <2>4 DEF BtcMissing
<1>5. CASE BtcMark
  <2>1. /\ RowInv' /\ events' = events
        /\ status' = status \/ status' = "in_progress"
    BY <1>5, MarkInProgressInv DEF BtcMark
  <2>. QED
    BY <1>5, <2>1 DEF BtcMark, WatchInv
<1>6. ASSUME NEW p \in Bitcoin, BtcRecord(p) PROVE LedgerInv'
  <2>1. Record(p) /\ p \in Payments /\ chain[p] = "deep"
    BY <1>6 DEF BtcRecord, WatchInv
  <2>2. RowInv'
    BY <2>1, RecordInv
  <2>3. WatchInv'
    BY <1>6 DEF BtcRecord, WatchInv
  <2>4. \A q \in Bitcoin : /\ q \in events => q \in events'
                           /\ q \in events' => q \in events \/ q = p
    BY <2>1, RecordKeepsBitcoin
  <2>5. Ties'
    BY <1>6, <2>1, <2>4, RecordStatus, RecordKeepsSome DEF BtcRecord
  <2>. QED
    BY <2>2, <2>3, <2>5
<1>7. ASSUME NEW p \in Bitcoin, BtcCounted(p) PROVE LedgerInv'
  <2>1. WatchInv'
    BY <1>7 DEF BtcCounted, WatchInv
  <2>2. Ties'
    BY <1>7 DEF BtcCounted, WatchInv
  <2>. QED
    BY <1>0, <1>7, <2>1, <2>2 DEF BtcCounted
<1>8. ASSUME NEW p \in Bitcoin, BtcObserve(p) PROVE LedgerInv'
  <2>1. WatchInv'
    BY <1>8 DEF BtcObserve, WatchInv
  <2>2. Ties'
    BY <1>8 DEF BtcObserve, WatchInv
  <2>. QED
    BY <1>0, <1>8, <2>1, <2>2 DEF BtcObserve
<1>. QED
  BY <1>1, <1>2, <1>3, <1>4, <1>5, <1>6, <1>7, <1>8 DEF BtcStep

\* A step of the claimer.
LEMMA SwapInv ==
    ASSUME LedgerInv, SwapStep
    PROVE  LedgerInv'
<1>. USE InvParts, InvPartsPrime
<1>. USE DEF Ties, CountedIsAccounted, DeepBeforeCounted
<1>0. ASSUME UNCHANGED invoice PROVE RowInv'
  BY <1>0 DEF RowInv, CountedOnce, CachedTotal, StatusCoherent
<1>1. ASSUME NEW p \in Swaps, SwapLocks(p) PROVE LedgerInv'
  BY <1>0, <1>1 DEF SwapLocks, WatchInv
<1>2. ASSUME NEW p \in Swaps, SwapFlip(p) PROVE LedgerInv'
  <2>1. /\ RowInv' /\ events' = events
        /\ status' = status \/ status' = "in_progress"
    BY <1>2, MarkInProgressInv DEF SwapFlip
  <2>. QED
    BY <1>2, <2>1 DEF SwapFlip, WatchInv
<1>3. ASSUME NEW p \in Swaps, SwapClaimed(p) PROVE LedgerInv'
  <2>1. /\ chain' \in [Liquid \cup Bitcoin -> Depth]
        /\ \A q \in Bitcoin : chain'[q] = chain[q]
    BY <1>3 DEF SwapClaimed, WatchInv
  <2>2. WatchInv'
    BY <1>3, <2>1 DEF SwapClaimed, WatchInv
  <2>3. Ties'
    BY <1>3, <2>1 DEF SwapClaimed
  <2>. QED
    BY <1>0, <1>3, <2>2, <2>3 DEF SwapClaimed
<1>4. ASSUME NEW p \in Swaps, SwapMarks(p) PROVE LedgerInv'
  <2>1. RowInv' /\ events' = events /\ status' = status
    BY <1>4, MarkInv DEF SwapMarks
  <2>. QED
    BY <1>4, <2>1 DEF SwapMarks, WatchInv
<1>5. ASSUME NEW p \in Swaps, SwapCredits(p) PROVE LedgerInv'
  <2>1. Record(p) /\ p \in Payments /\ p \notin Bitcoin
    BY <1>5 DEF SwapCredits
  <2>2. RowInv'
    BY <2>1, RecordInv
  <2>3. WatchInv'
    BY <1>5 DEF SwapCredits, WatchInv
  <2>4. \A q \in Bitcoin : q \in events' <=> q \in events
    BY <2>1, RecordKeepsBitcoin
  <2>5. Ties'
    BY <1>5, <2>1, <2>4, RecordStatus, RecordKeepsSome DEF SwapCredits
  <2>. QED
    BY <2>2, <2>3, <2>5
<1>6. ASSUME NEW p \in Swaps, SwapFails(p) PROVE LedgerInv'
  <2>1. RowInv' /\ events' = events /\ status' = status
    BY <1>6, MarkInv DEF SwapFails
  <2>. QED
    BY <1>6, <2>1 DEF SwapFails, WatchInv
<1>. QED
  BY <1>1, <1>2, <1>3, <1>4, <1>5, <1>6 DEF SwapStep

\* Closing the invoice, the clock, the chains and faults.
LEMMA OtherInv ==
    ASSUME LedgerInv,
           \/ Cancel \/ Expire \/ Terminalize \/ BatchChooses \/ BatchWrites
           \/ Deadline \/ ScanFails
           \/ \E p \in Liquid \cup Bitcoin : ChainMoves(p)
    PROVE  LedgerInv'
<1>. USE InvParts, InvPartsPrime
<1>. USE DEF Ties, CountedIsAccounted, DeepBeforeCounted, RowInv, WatchInv,
             CountedOnce, CachedTotal, StatusCoherent
<1>1. CASE Cancel
  BY <1>1 DEF Cancel
<1>2. CASE Expire
  BY <1>2 DEF Expire
<1>3. CASE Terminalize
  BY <1>3 DEF Terminalize, ShortCheckout
<1>4. CASE Deadline
  BY <1>4 DEF Deadline
<1>5. CASE BatchChooses
  BY <1>5 DEF BatchChooses, ShortCheckout
<1>8. CASE BatchWrites
  BY <1>8 DEF BatchWrites
<1>6. CASE ScanFails
  <2>1. faults' \in 0..MaxFaults
    BY <1>6 DEF ScanFails
  <2>2. swap' \in [Swaps -> {"offered", "locked", "claimed", "marked",
                            "done", "lost", "failed"}]
    BY <1>6 DEF ScanFails
  <2>3. /\ liquidPc' \in {"idle", "listed", "record"}
        /\ liquidTodo' \in SUBSET Liquid
    BY <1>6 DEF ScanFails
  <2>4. /\ btcPc' \in {"idle", "listed", "tip", "outputs", "mark"}
        /\ btcTodo' \in SUBSET Bitcoin /\ btcNow' \in SUBSET Bitcoin
        /\ btcSeen' \in [Bitcoin -> Depth]
    BY <1>6 DEF ScanFails
  <2>5. \A p \in Bitcoin : btcSeen'[p] = "deep" => chain'[p] = "deep"
    BY <1>6 DEF ScanFails
  <2>6. WatchInv'
    BY <1>6, <2>1, <2>2, <2>3, <2>4, <2>5 DEF ScanFails
  <2>. QED
    BY <1>6, <2>6 DEF ScanFails
<1>7. ASSUME NEW p \in Liquid \cup Bitcoin, ChainMoves(p) PROVE LedgerInv'
  <2>1. PICK d \in Depth : /\ chain' = [chain EXCEPT ![p] = d]
                            /\ chain[p] # "deep"
    BY <1>7 DEF ChainMoves
  <2>2. chain' \in [Liquid \cup Bitcoin -> Depth]
    BY <2>1
  <2>3. \A q \in Bitcoin : chain[q] = "deep" => chain'[q] = "deep"
    BY <2>1
  <2>4. UNCHANGED <<invoice, observed, expired, swap, liquid, btc, chosen,
                   faults>>
    BY <1>7 DEF ChainMoves
  <2>5. RowInv'
    BY <2>4
  <2>6. WatchInv'
    BY <2>2, <2>3, <2>4
  <2>7. CountedIsAccounted'
    BY <2>4
  <2>8. DeepBeforeCounted'
    BY <2>3, <2>4
  <2>9. /\ status' = "expired" => expired'
        /\ chosen' => Origin = "checkout" /\ events' # {}
    BY <2>4
  <2>. QED
    BY <2>5, <2>6, <2>7, <2>8, <2>9
<1>. QED
  BY <1>1, <1>2, <1>3, <1>4, <1>5, <1>6, <1>7, <1>8

\* No step breaks the invariant.
LEMMA NextInv == LedgerInv /\ [Next]_vars => LedgerInv'
<1>. SUFFICES ASSUME LedgerInv, [Next]_vars PROVE LedgerInv'
  OBVIOUS
<1>1. CASE UNCHANGED vars
  BY <1>1, InvParts, InvPartsPrime
     DEF vars, RowInv, WatchInv, CountedOnce, CachedTotal, StatusCoherent,
         Ties, CountedIsAccounted, DeepBeforeCounted
<1>. QED
  BY <1>1, LiquidInv, BtcInv, SwapInv, OtherInv DEF Next

-----------------------------------------------------------------------------
(***************************************************************************)
(* The theorems.                                                           *)
(***************************************************************************)

\* The inductive invariant holds in every behaviour of the ledger.
THEOREM Invariance == Spec => []LedgerInv
<1>1. Init => LedgerInv
  BY InitInv
<1>2. LedgerInv /\ [Next]_vars => LedgerInv'
  BY NextInv
<1>. QED
  BY <1>1, <1>2, PTL DEF Spec

\* Every variable keeps its type.
THEOREM TypeCorrect == Spec => []TypeOK
<1>1. LedgerInv => TypeOK
  BY DEF LedgerInv
<1>. QED
  BY <1>1, Invariance, PTL

\* One claim never counts twice, whichever of the claimer's credit and the
\* Liquid watcher's scan comes first, and however often either is repeated.
THEOREM ClaimsCountOnce == Spec => []CountedOnce
<1>1. LedgerInv => CountedOnce
  BY DEF LedgerInv
<1>. QED
  BY <1>1, Invariance, PTL

\* paid_amount_sat is the sum of the invoice's events at every instant.
THEOREM TotalIsExact == Spec => []CachedTotal
<1>1. LedgerInv => CachedTotal
  BY DEF LedgerInv
<1>. QED
  BY <1>1, Invariance, PTL

\* No interleaving of credits, cancellation and expiry leaves an invoice that
\* the paid_via constraint of the schema would refuse.
THEOREM RowsSatisfyTheConstraint == Spec => []StatusCoherent
<1>1. LedgerInv => StatusCoherent
  BY DEF LedgerInv
<1>. QED
  BY <1>1, Invariance, PTL

\* An output is shown as counted only if it is.
THEOREM ShownIsCounted == Spec => []CountedIsAccounted
<1>1. LedgerInv => CountedIsAccounted
  BY DEF LedgerInv
<1>. QED
  BY <1>1, Invariance, PTL

\* A Bitcoin output counts only once it is deep, although the tip and the
\* address are read at different times and the chain moves in between.
THEOREM CountedIsDeep == Spec => []DeepBeforeCounted
<1>1. LedgerInv => DeepBeforeCounted
  BY DEF LedgerInv
<1>. QED
  BY <1>1, Invariance, PTL

\* The actions that touch the invoice do so by one of the four statements, or
\* by closing it; the rest leave the row alone.
LEMMA InvoiceSteps ==
    ASSUME LedgerInv, [Next]_vars
    PROVE  \/ UNCHANGED <<status, events>>
           \/ \E p \in Payments : Record(p)
           \/ MarkInProgress
           \/ \E s \in SettlementStatus : MarkSettlement(s)
           \/ Cancel \/ Expire \/ Terminalize \/ BatchWrites
<1>1. CASE LiquidList \/ LiquidStep
  BY <1>1 DEF LiquidStep, LiquidList, LiquidHistory, LiquidDone, LiquidRecord
<1>2. CASE BtcList \/ BtcStep
  BY <1>2 DEF BtcStep, BtcList, BtcTip, BtcFetch, BtcMissing, BtcMark,
              BtcRecord, BtcCounted, BtcObserve
<1>3. CASE SwapStep
  BY <1>3 DEF SwapStep, SwapLocks, SwapFlip, SwapClaimed, SwapMarks,
              SwapCredits, SwapFails
<1>4. CASE \/ Deadline \/ BatchChooses \/ ScanFails \/ UNCHANGED vars
           \/ \E p \in Liquid \cup Bitcoin : ChainMoves(p)
  BY <1>4 DEF Deadline, BatchChooses, ScanFails, ChainMoves, vars
<1>. QED
  BY <1>1, <1>2, <1>3, <1>4 DEF Next

\* The only evidence ever dropped is a Liquid output whose swap replaces it.
THEOREM EvidenceIsKept == Spec => NothingUncounted
<1>1. LedgerInv /\ [Next]_vars =>
        [\A p \in events \ events' :
            /\ Source[p] = "liquid_direct"
            /\ \E q \in events' : /\ Source[q] \in BoltzSources
                                  /\ Txid[q] = Txid[p]]_vars
  <2>. SUFFICES ASSUME LedgerInv, [Next]_vars, NEW p \in events \ events'
                PROVE  /\ Source[p] = "liquid_direct"
                       /\ \E q \in events' : /\ Source[q] \in BoltzSources
                                             /\ Txid[q] = Txid[p]
    OBVIOUS
  <2>1. PICK r \in Payments : Record(r)
    BY InvoiceSteps
       DEF MarkInProgress, MarkSettlement, Cancel, Expire, Terminalize,
           BatchWrites
  <2>2. events' = (events \ Superseded(r)) \cup {r} /\ p \in Superseded(r)
    BY <2>1, RecordEvents
  <2>. QED
    BY <2>2 DEF Superseded
<1>. QED
  BY <1>1, Invariance, PTL DEF Spec, NothingUncounted

-----------------------------------------------------------------------------
(***************************************************************************)
(* What the cached total says of the status.                               *)
(***************************************************************************)

\* The events of an invoice are a bundle.
EventsAreFinite == events \in Bundle

\* Max and Min of two numbers are what their names say.
LEMMA MaxOfTwo ==
    ASSUME NEW a \in Int, NEW b \in Int
    PROVE  Max({a, b}) = IF a >= b THEN a ELSE b
<1>1. \E x \in {a, b} : \A y \in {a, b} : x >= y
  OBVIOUS
<1>. QED
  BY <1>1 DEF Max

LEMMA MinOfTwo ==
    ASSUME NEW a \in Int, NEW b \in Int
    PROVE  Min({a, b}) = IF a <= b THEN a ELSE b
<1>1. \E x \in {a, b} : \A y \in {a, b} : x =< y
  OBVIOUS
<1>. QED
  BY <1>1 DEF Min

\* The tolerance is at most one percent, or one satoshi.
LEMMA ToleranceBound ==
    ASSUME NEW rail \in Rails
    PROVE  /\ Tolerance(rail) \in Nat
           /\ 100 * Tolerance(rail) <= Amount \/ Tolerance(rail) <= 1
<1>1. Amount \div 100 \in Nat /\ 100 * (Amount \div 100) <= Amount
  BY AmountAssumption
<1>2. Shortfall[rail] \in Nat
  BY ShortfallAssumption
<1> DEFINE cap == Max({Amount \div 100, 1})
<1>3. cap = IF Amount \div 100 >= 1 THEN Amount \div 100 ELSE 1
  BY <1>1, MaxOfTwo
<1>4. cap \in Nat
  BY <1>1, <1>3
<1>5. Tolerance(rail) = Min({Shortfall[rail], cap})
  BY DEF Tolerance
<1>. HIDE DEF cap
<1>6. Tolerance(rail) = IF Shortfall[rail] <= cap THEN Shortfall[rail] ELSE cap
  BY <1>2, <1>4, <1>5, MinOfTwo
<1>7. Tolerance(rail) \in Nat /\ Tolerance(rail) <= cap
  BY <1>2, <1>4, <1>6
<1> DEFINE percent == Amount \div 100
<1>8. percent \in Nat /\ 100 * percent <= Amount /\ Amount \in Nat
  BY <1>1, AmountAssumption
<1>9. Tolerance(rail) <= percent \/ Tolerance(rail) <= 1
  BY <1>3, <1>7
<1>. HIDE DEF percent
<1>. QED
  BY <1>7, <1>8, <1>9

\* A verdict that is just given says what was received.
LEMMA VerdictIsTrue ==
    ASSUME NEW r \in Nat, NEW p \in Payments
    PROVE  LET v == Verdict(r, RailOf(p)) IN
           /\ v = "overpaid" <=> r > Amount
           /\ v = "paid" => \E rail \in Rails : r + Tolerance(rail) >= Amount
           /\ v \in {"partially_paid", "underpaid"} => r < Amount
<1>1. RailOf(p) \in Rails
  BY DEF RailOf, Rails
<1>2. Tolerance(RailOf(p)) \in Nat /\ Amount \in Nat
  BY <1>1, ToleranceBound, AmountAssumption
<1>. QED
  BY <1>1, <1>2 DEF Verdict

\* What a step does to the total and the status: it counts a payment, or
\* leaves the total and closes the invoice, or shows that one is on its way.
\* Only an open invoice gets another settlement mark without being paid.
LEMMA VerdictSteps ==
    ASSUME LedgerInv, [Next]_vars
    PROVE  \/ \E p \in Payments : Record(p)
           \/ /\ UNCHANGED <<status, events, paidAmount>>
              /\ settlement' = settlement \/ status \in Open
           \/ /\ UNCHANGED <<events, paidAmount>>
              /\ status \in {"unpaid", "in_progress"}
              /\ status' \in {"in_progress", "cancelled", "expired"}
           \/ /\ UNCHANGED <<events, paidAmount, settlement>>
              /\ status = "partially_paid" /\ status' = "underpaid"
           \/ BatchWrites
<1>1. CASE LiquidList \/ LiquidStep
  BY <1>1 DEF LiquidStep, LiquidList, LiquidHistory, LiquidDone, LiquidRecord
<1>2. CASE BtcList \/ BtcStep
  BY <1>2 DEF BtcStep, BtcList, BtcTip, BtcFetch, BtcMissing, BtcMark,
              BtcRecord, BtcCounted, BtcObserve, MarkInProgress, MarkSettlement
<1>3. CASE SwapStep
  BY <1>3 DEF SwapStep, SwapLocks, SwapFlip, SwapClaimed, SwapMarks,
              SwapCredits, SwapFails, MarkInProgress, MarkSettlement
<1>4. CASE \/ Deadline \/ BatchChooses \/ ScanFails \/ UNCHANGED vars
           \/ \E p \in Liquid \cup Bitcoin : ChainMoves(p)
  BY <1>4 DEF Deadline, BatchChooses, ScanFails, ChainMoves, vars
<1>5. CASE Cancel \/ Expire \/ Terminalize
  BY <1>5 DEF Cancel, Expire, Terminalize, ShortCheckout
<1>. QED
  BY <1>1, <1>2, <1>3, <1>4, <1>5 DEF Next

\* Recording adds one event.
LEMMA RecordKeepsFinite ==
    ASSUME EventsAreFinite, NEW p \in Payments, Record(p)
    PROVE  EventsAreFinite'
<1>1. CASE UNCHANGED invoice
  BY <1>1 DEF EventsAreFinite
<1>2. CASE events' = (events \ Superseded(p)) \cup {p}
  <2>1. events \ Superseded(p) \in Bundle
    BY BundleParts DEF EventsAreFinite
  <2>. QED
    BY <1>2, <2>1, BundleParts DEF EventsAreFinite
<1>. QED
  BY <1>1, <1>2, RecordEvents

\* An invoice that has received nothing is not overpaid, whatever closes it,
\* and one that GC overwrites keeps the settlement mark of its payment.
LEMMA VerdictStep ==
    ASSUME LedgerInv, EventsAreFinite, VerdictMatchesTotal, [Next]_vars
    PROVE  EventsAreFinite' /\ VerdictMatchesTotal'
<1>0. paidAmount \in Nat /\ Amount \in Nat
  BY TotalType, AmountAssumption DEF LedgerInv, CachedTotal, EventsAreFinite
<1>1. ASSUME NEW p \in Payments, Record(p)
      PROVE  EventsAreFinite' /\ VerdictMatchesTotal'
  <2>1. EventsAreFinite'
    BY <1>1, RecordKeepsFinite
  <2>2. Total(events') \in Nat
    BY <2>1, TotalType DEF EventsAreFinite
  <2>3. CASE UNCHANGED invoice
    BY <2>1, <2>3 DEF VerdictMatchesTotal, Overwritten
  <2>4. CASE /\ paidAmount' = Total(events')
             /\ status' = Verdict(paidAmount', RailOf(p))
             /\ status' \in {"paid", "overpaid"} => settlement' = "settled"
    <3>1. paidAmount' \in Nat
      BY <2>2, <2>4
    <3>. QED
      BY <2>1, <2>4, <3>1, VerdictIsTrue DEF VerdictMatchesTotal
  <2>. QED
    BY <1>1, <2>3, <2>4, RecordEvents
<1>2. CASE /\ UNCHANGED <<status, events, paidAmount>>
           /\ settlement' = settlement \/ status \in Open
  BY <1>2 DEF EventsAreFinite, VerdictMatchesTotal, Overwritten
<1>3. CASE /\ UNCHANGED <<events, paidAmount>>
           /\ status \in {"unpaid", "in_progress"}
           /\ status' \in {"in_progress", "cancelled", "expired"}
  <2>1. paidAmount = 0
    BY <1>3, TotalOfNone DEF LedgerInv, StatusCoherent, CachedTotal
  <2>. QED
    BY <1>3, <2>1, AmountAssumption DEF EventsAreFinite, VerdictMatchesTotal
<1>4. CASE /\ UNCHANGED <<events, paidAmount, settlement>>
           /\ status = "partially_paid" /\ status' = "underpaid"
  BY <1>0, <1>4 DEF EventsAreFinite, VerdictMatchesTotal
<1>5. CASE BatchWrites
  <2>1. Origin = "checkout"
    BY <1>5 DEF BatchWrites, LedgerInv
  <2>2. status \in {"partially_paid", "paid", "overpaid", "underpaid"}
    BY <1>5 DEF BatchWrites, LedgerInv, TypeOK, StatusCoherent
  <2>3. UNCHANGED <<events, paidAmount, settlement>> /\ status' = "underpaid"
    BY <1>5 DEF BatchWrites
  <2>4. paidAmount < Amount \/ settlement = "settled"
    BY <1>0, <2>2 DEF VerdictMatchesTotal, Overwritten
  <2>. QED
    BY <1>0, <2>1, <2>3, <2>4
       DEF EventsAreFinite, VerdictMatchesTotal, Overwritten
<1>. QED
  BY <1>1, <1>2, <1>3, <1>4, <1>5, VerdictSteps

\* The status says what was received, through refused duplicates, replaced
\* outputs, late evidence and closures, save for what GC overwrites
\* (db/invoices.rs:363, 942 and record_invoice_payment).
THEOREM StatusSaysWhatWasReceived ==
    Spec => [](EventsAreFinite /\ VerdictMatchesTotal)
<1>1. Init => EventsAreFinite /\ VerdictMatchesTotal
  <2>. SUFFICES ASSUME Init PROVE EventsAreFinite /\ VerdictMatchesTotal
    OBVIOUS
  <2>1. events \in Bundle
    BY FS_EmptySet DEF Init, Bundle, FiniteSubsetsOf
  <2>. QED
    BY <2>1, AmountAssumption DEF Init, EventsAreFinite, VerdictMatchesTotal
<1>2. LedgerInv /\ EventsAreFinite /\ VerdictMatchesTotal /\ [Next]_vars
        => EventsAreFinite' /\ VerdictMatchesTotal'
  BY VerdictStep
<1>. QED
  BY <1>1, <1>2, Invariance, PTL DEF Spec

\* It does so in every reachable state.
THEOREM VerdictHolds == Spec => []VerdictMatchesTotal
BY StatusSaysWhatWasReceived, PTL

\* An invoice that is paid lacks one percent of its amount at most, or one
\* satoshi, whatever tolerances are configured (db/invoices.rs:363).
THEOREM PaidIsNearlyWhole ==
    Spec => [](status = "paid" => \/ 100 * (Amount - paidAmount) <= Amount
                                  \/ Amount - paidAmount <= 1)
<1>1. LedgerInv /\ EventsAreFinite /\ VerdictMatchesTotal
        => (status = "paid" => \/ 100 * (Amount - paidAmount) <= Amount
                               \/ Amount - paidAmount <= 1)
  <2>. SUFFICES ASSUME LedgerInv, EventsAreFinite, VerdictMatchesTotal,
                       status = "paid"
                PROVE  \/ 100 * (Amount - paidAmount) <= Amount
                       \/ Amount - paidAmount <= 1
    OBVIOUS
  <2>1. paidAmount \in Nat
    BY TotalType DEF LedgerInv, CachedTotal, EventsAreFinite
  <2>2. PICK rail \in Rails : paidAmount + Tolerance(rail) >= Amount
    BY DEF VerdictMatchesTotal
  <2>3. /\ Tolerance(rail) \in Nat
        /\ 100 * Tolerance(rail) <= Amount \/ Tolerance(rail) <= 1
    BY ToleranceBound
  <2>4. Amount - paidAmount <= Tolerance(rail)
    BY <2>1, <2>2, <2>3, AmountAssumption
  <2>. QED
    BY <2>1, <2>3, <2>4, AmountAssumption
<1>. QED
  BY <1>1, Invariance, StatusSaysWhatWasReceived, PTL

\* One payment of the whole amount settles the invoice for good, whatever comes
\* before and after it on other rails: it stays marked as settled, and is paid
\* or overpaid unless it is a checkout that GC has overwritten.
THEOREM WholePaymentSettles ==
    Spec => []((\E p \in events : Sats[p] >= Amount)
                 => /\ settlement = "settled"
                    /\ status \in {"paid", "overpaid"} \/ Overwritten)
<1>1. LedgerInv /\ EventsAreFinite /\ VerdictMatchesTotal
        => ((\E p \in events : Sats[p] >= Amount)
              => /\ settlement = "settled"
                 /\ status \in {"paid", "overpaid"} \/ Overwritten)
  <2>. SUFFICES ASSUME LedgerInv, EventsAreFinite, VerdictMatchesTotal,
                       NEW p \in events, Sats[p] >= Amount
                PROVE  /\ settlement = "settled"
                       /\ status \in {"paid", "overpaid"} \/ Overwritten
    OBVIOUS
  <2>1. events \in Bundle /\ {} \in Bundle /\ p \in Payments
    BY BundleParts DEF EventsAreFinite
  <2>2. /\ Total(events) = Sats[p] + Total(events \ {p})
        /\ Total(events \ {p}) \in Nat
    BY <2>1, TotalSplits, TotalType, BundleParts
  <2>3. paidAmount \in Nat /\ paidAmount >= Amount
    BY <2>1, <2>2, AmountAssumption, PaymentsAssumption
       DEF LedgerInv, CachedTotal
  <2>4. status # "partially_paid" /\ (status = "underpaid" => Overwritten)
    BY <2>3, AmountAssumption DEF VerdictMatchesTotal
  <2>5. status \notin {"unpaid", "in_progress", "expired", "cancelled"}
    BY DEF LedgerInv, StatusCoherent
  <2>6. status \in {"paid", "overpaid"} \/ Overwritten
    BY <2>4, <2>5 DEF LedgerInv, TypeOK
  <2>. QED
    BY <2>6 DEF VerdictMatchesTotal, Overwritten
<1>. QED
  BY <1>1, Invariance, StatusSaysWhatWasReceived, PTL

\* What ends an invoice gives way to evidence alone: a paid invoice falls back
\* only when new evidence leaves the sum below the amount, an underpaid one
\* only improves, a cancelled one is final; GC's batch is the one exception.
THEOREM ClosureEndsByEvidence == Spec => ClosureGivesWayToEvidence
<1>. DEFINE Closed ==
       /\ status = "cancelled" => status' = "cancelled"
       /\ status \notin {"unpaid", "cancelled"} =>
            status' \notin {"unpaid", "cancelled"}
       /\ status = "expired" =>
            status' \in {"expired", "underpaid", "paid", "overpaid"}
       /\ status = "underpaid" => status' \in {"underpaid", "paid", "overpaid"}
       /\ status \in {"paid", "overpaid"} =>
            \/ status' \in {"paid", "overpaid"}
            \/ /\ events' # events /\ paidAmount' < Amount
               /\ status' = IF expired THEN "underpaid" ELSE "partially_paid"
            \/ chosen /\ status' = "underpaid"
<1>1. LedgerInv /\ EventsAreFinite /\ [Next]_vars => [Closed]_vars
  <2>. SUFFICES ASSUME LedgerInv, EventsAreFinite, [Next]_vars PROVE Closed
    OBVIOUS
  <2>1. ASSUME NEW p \in Payments, Record(p) PROVE Closed
    <3>1. CASE UNCHANGED invoice
      BY <3>1 DEF LedgerInv, TypeOK
    <3>2. CASE /\ events' = (events \ Superseded(p)) \cup {p}
               /\ p \notin events \/ Superseded(p) # {}
               /\ paidAmount' = Total(events') /\ status # "cancelled"
               /\ status' = Verdict(paidAmount', RailOf(p))
      <4>1. paidAmount' \in Nat
        BY <2>1, <3>2, RecordKeepsFinite, TotalType DEF EventsAreFinite
      <4>2. status' \in {"partially_paid", "underpaid"} => paidAmount' < Amount
        BY <3>2, <4>1, VerdictIsTrue
      <4>3. events' # events
        BY <3>2 DEF Superseded
      <4>4. /\ status' \in {"overpaid", "paid", "underpaid", "partially_paid"}
            /\ status' = "underpaid" => status = "underpaid" \/ expired
            /\ status' = "partially_paid" => status # "underpaid" /\ ~expired
        BY <3>2 DEF Verdict
      <4>5. expired \in BOOLEAN /\ (status = "expired" => expired)
        BY DEF LedgerInv, TypeOK
      <4>. QED
        BY <3>2, <4>2, <4>3, <4>4, <4>5
    <3>. QED
      BY <2>1, <3>1, <3>2, RecordEvents
  <2>2. CASE MarkInProgress
    BY <2>2 DEF MarkInProgress, MarkSettlement
  <2>3. CASE \E s \in SettlementStatus : MarkSettlement(s)
    BY <2>3 DEF MarkSettlement
  <2>4. CASE Cancel \/ Expire \/ Terminalize
    BY <2>4 DEF Cancel, Expire, Terminalize, ShortCheckout
  <2>5. CASE BatchWrites
    BY <2>5 DEF BatchWrites, LedgerInv, StatusCoherent
  <2>. QED
    BY <2>1, <2>2, <2>3, <2>4, <2>5, InvoiceSteps
<1>. QED
  BY <1>1, Invariance, StatusSaysWhatWasReceived, PTL
     DEF Spec, ClosureGivesWayToEvidence

-----------------------------------------------------------------------------
\* What is recorded was not, and the total moves by its amount less that of
\* the outputs whose place it takes.
LEMMA RecordAddsUp ==
    ASSUME LedgerInv, EventsAreFinite, NEW p \in Payments, Record(p)
    PROVE  \/ UNCHANGED <<events, paidAmount>>
           \/ /\ p \notin events
              /\ events' = (events \ Superseded(p)) \cup {p}
              /\ paidAmount' + Total(Superseded(p)) = paidAmount + Sats[p]
<1>1. CASE UNCHANGED invoice
  BY <1>1
<1>2. CASE ~UNCHANGED invoice
  <2>1. /\ events' = (events \ Superseded(p)) \cup {p}
        /\ paidAmount' = Total(events')
        /\ p \notin events \/ Superseded(p) # {}
    BY <1>2 DEF Record
  <2>2. p \notin events
    BY <2>1 DEF Superseded, LedgerInv, CountedOnce
  <2>3. /\ events \in Bundle /\ Superseded(p) \subseteq events
        /\ events \ Superseded(p) \in Bundle
    BY BundleParts DEF EventsAreFinite, Superseded
  <2>4. Total(events') = Total(events \ Superseded(p)) + Sats[p]
    BY <2>1, <2>2, <2>3, TotalAdds
  <2>5. Total(events) = Total(events \ Superseded(p)) + Total(Superseded(p))
    BY <2>3, TotalWithout
  <2>6. /\ Total(events \ Superseded(p)) \in Nat
        /\ Total(Superseded(p)) \in Nat /\ Sats[p] \in Nat
    BY <2>3, TotalType, BundleParts, PaymentsAssumption
  <2>7. paidAmount = Total(events)
    BY DEF LedgerInv, CachedTotal
  <2>. QED
    BY <2>1, <2>2, <2>4, <2>5, <2>6, <2>7
<1>. QED
  BY <1>1, <1>2

\* The total never moves but with the evidence: by what is recorded, once,
\* less the outputs of its own claim that were counted in its place.
THEOREM EvidenceAddsUp ==
    Spec => [][\/ UNCHANGED <<events, paidAmount>>
               \/ \E p \in Payments \ events :
                    /\ events' = (events \ Superseded(p)) \cup {p}
                    /\ paidAmount' + Total(Superseded(p))
                         = paidAmount + Sats[p]]_vars
<1>1. LedgerInv /\ EventsAreFinite /\ [Next]_vars =>
        [\/ UNCHANGED <<events, paidAmount>>
         \/ \E p \in Payments \ events :
              /\ events' = (events \ Superseded(p)) \cup {p}
              /\ paidAmount' + Total(Superseded(p))
                   = paidAmount + Sats[p]]_vars
  BY VerdictSteps, RecordAddsUp DEF BatchWrites
<1>. QED
  BY <1>1, Invariance, StatusSaysWhatWasReceived, PTL DEF Spec
=============================================================================
