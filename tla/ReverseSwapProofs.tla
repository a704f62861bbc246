------------------------- MODULE ReverseSwapProofs -------------------------
(***************************************************************************)
(* Proofs about ReverseSwap, for any handlers, addresses, nonces, retry    *)
(* budget and number of faults.                                            *)
(*                                                                         *)
(* IInv is shown inductive: one lemma per group of actions (webhooks, the  *)
(* claim, the reconciler, the rest), one step per action, and the actions  *)
(* that disturb several conjuncts split by conjunct.  The safety           *)
(* properties follow from IInv, the action property and the refinement     *)
(* from IInv and a step.  The last part shows that the row lives as        *)
(* AddressBook assumes, for which it needs SeenInv besides.                *)
(***************************************************************************)
EXTENDS ReverseSwapProperties, TLAPS

USE SweepAssumption, AttemptsAssumption, FaultsAssumption, AddrAssumption,
    TxAssumption, LockAssumption, InvoicesAssumption

\* The vocabulary: tuples of variables, sets of values, statement helpers.
USE DEF row, invoice, tasks, recon, world, Workers
USE DEF SwapStatus, Terminal, Claimable, BoltzStatus, InvoiceStatus,
        SettlementStatus, Future, ReconcilerAction, Label, Claims, Dead
USE DEF Goto, Forget, ForgetMsg, ForgetTick, NoMsg, Funded, UpdateStatus,
        MarkSettlement, FlipInProgress, MarkCooperativeRefused, Nudge

-----------------------------------------------------------------------------
\* The row is created with nothing known and nothing held.
LEMMA InitInv == Init => IInv
<1>. SUFFICES ASSUME Init PROVE IInv
  OBVIOUS
<1>1. TypeOK
  <2>1. /\ pc \in [Workers -> Label] /\ msg \in [Handlers -> BoltzStatus]
        /\ hand \in [Workers -> Tx \cup {None}]
    BY DEF Init
  <2>2. coop \in [Workers -> BOOLEAN]
    BY DEF Init
  <2>3. /\ attempts \in 0..MaxAttempts /\ faults \in 0..MaxFaults
        /\ broadcast \in SUBSET Tx /\ processed \in SUBSET BoltzStatus
        /\ emitted \in SUBSET BoltzStatus
    BY DEF Init
  <2>4. /\ coopRefused \in BOOLEAN /\ credited \in BOOLEAN
        /\ revealed \in BOOLEAN
    BY DEF Init
  <2>. QED
    BY <2>1, <2>2, <2>3, <2>4 DEF Init, TypeOK
<1>2. WorldInv /\ KnowledgeInv /\ LockInv /\ HandInv
  BY DEF Init, WorldInv, KnowledgeInv, LockInv, HandInv
<1>3. RowInv /\ InvoiceInv
  BY DEF Init, RowInv, InvoiceInv
<1>. QED
  BY <1>1, <1>2, <1>3 DEF IInv

\* A webhook handler keeps the invariant: what it writes was true when Boltz
\* emitted the message it holds, and stays true.
LEMMA WebhookInv ==
    ASSUME IInv, NEW h \in Handlers, Deliver(h) \/ WebhookStep(h)
    PROVE  IInv'
<1> USE DEF IInv, TypeOK, WorldInv, KnowledgeInv, LockInv, HandInv, RowInv,
            InvoiceInv
<1>1. CASE Deliver(h)
  BY <1>1 DEF Deliver
<1>2. CASE Lookup(h)
  BY <1>2 DEF Lookup
<1>3. CASE ApplyLockup(h)
  BY <1>3 DEF ApplyLockup
<1>4. CASE WebhookFlip(h)
  BY <1>4 DEF WebhookFlip
<1>5. CASE ApplySwapExpired(h)
  BY <1>5 DEF ApplySwapExpired
<1>6. CASE ApplyDead(h)
  BY <1>6 DEF ApplyDead
<1>7. CASE ApplyRefunded(h)
  BY <1>7 DEF ApplyRefunded
<1>8. CASE WebhookMarkRefunded(h)
  BY <1>8 DEF WebhookMarkRefunded
<1>9. CASE ApplyIgnored(h)
  BY <1>9 DEF ApplyIgnored
<1>. QED
  BY <1>1, <1>2, <1>3, <1>4, <1>5, <1>6, <1>7, <1>8, <1>9 DEF WebhookStep

\* The two updates of the claim transaction.  The committing task holds the
\* lock, so the claim in its hand is the row's or the row has none, and it
\* pays the row's address.
LEMMA PersistInv ==
    ASSUME IInv, NEW w \in Workers, pc[w] = "commit", Persist(w),
           UNCHANGED <<invoice, world>>
    PROVE  /\ RowInv' /\ claimTx' \in Tx /\ claimTx' = hand[w]
           /\ claimTx # None => claimTx' = claimTx
<1>1. hand[w] \in Tx /\ hand[w].dest = address /\ Funded /\ address # None
  BY DEF IInv, TypeOK, HandInv, KnowledgeInv, RowInv, Tx
<1>2. claimTx' = hand[w] /\ claimTxid' = hand[w] /\ address' = address
  BY DEF IInv, HandInv, RowInv, Persist
<1>3. claimTx # None => claimTx' = claimTx
  BY DEF Persist
<1>4. \A t \in broadcast : t = hand[w]
  BY <1>1, <1>2, <1>3 DEF IInv, TypeOK, RowInv
<1>5. spender \in Tx => spender = hand[w]
  BY <1>2, <1>3 DEF IInv, RowInv
<1>6. status' = (IF status \in Terminal THEN status ELSE "claiming")
      /\ attempts' = attempts
  BY DEF Persist
<1>7. RowInv'
  BY <1>1, <1>2, <1>4, <1>5, <1>6 DEF IInv, TypeOK, RowInv
<1>. QED
  BY <1>1, <1>2, <1>3, <1>7

\* The claim keeps the invariant: the lock makes the claim in a task's hand
\* the row's own, the row's claim is the only one ever sent, and the row is
\* called claimed only after the lockup was seen spent by it.
LEMMA ClaimInv ==
    ASSUME IInv, NEW w \in Workers, ClaimStep(w)
    PROVE  IInv'
<1> USE DEF IInv, TypeOK, WorldInv, KnowledgeInv, LockInv, HandInv, RowInv,
            InvoiceInv
<1>1. CASE SkipClaim(w)
  BY <1>1 DEF SkipClaim
<1>2. CASE Begin(w)
  BY <1>2 DEF Begin
<1>3. CASE Resolve(w)
  BY <1>3 DEF Resolve
<1>4. CASE Construct(w)
  BY <1>4 DEF Construct, Tx
<1>5. CASE ConstructRefused(w)
  BY <1>5 DEF ConstructRefused
<1>6. CASE ConstructFails(w)
  BY <1>6 DEF ConstructFails
<1>7. CASE Commit(w)
  <2>1. pc[w] = "commit" /\ Persist(w) /\ UNCHANGED <<invoice, world>>
    BY <1>7 DEF Commit
  <2>2. RowInv' /\ claimTx' \in Tx /\ claimTx' = hand[w]
        /\ (claimTx # None => claimTx' = claimTx)
    BY <2>1, PersistInv
  <2>3. TypeOK' /\ WorldInv' /\ KnowledgeInv' /\ LockInv' /\ InvoiceInv'
    BY <1>7 DEF Commit, Persist
  <2>4. HandInv'
    BY <1>7, <2>2 DEF Commit, Persist
  <2>. QED
    BY <2>2, <2>3, <2>4
<1>8. CASE BroadcastOk(w)
  BY <1>8 DEF BroadcastOk, Send, Tx
<1>9. CASE BroadcastErrs(w)
  BY <1>9 DEF BroadcastErrs, Send
<1>10. CASE ProbeFinds(w)
  BY <1>10 DEF ProbeFinds
<1>11. CASE ProbeMisses(w)
  BY <1>11 DEF ProbeMisses
<1>12. CASE Won(w)
  BY <1>12 DEF Won
<1>13. CASE Settle(w)
  BY <1>13 DEF Settle
<1>14. CASE Clear(w)
  BY <1>14 DEF Clear
<1>15. CASE Credit(w)
  <2>1. CASE invStatus \in {"absent", "cancelled"} \/ credited
    BY <1>15, <2>1 DEF Credit
  <2>2. CASE ~(invStatus \in {"absent", "cancelled"} \/ credited)
    <3>1. credited' = TRUE /\ invStatus' = "paid" /\ settlement' = "settled"
      BY <1>15, <2>2 DEF Credit
    <3>. QED
      BY <1>15, <2>2, <3>1 DEF Credit
  <2>. QED
    BY <2>1, <2>2
<1>16. CASE Fail(w)
  BY <1>16 DEF Fail
<1>17. CASE MarkStuck(w)
  BY <1>17 DEF MarkStuck
<1>. QED
  BY <1>1, <1>2, <1>3, <1>4, <1>5, <1>6, <1>7, <1>8, <1>9, <1>10, <1>11,
     <1>12, <1>13, <1>14, <1>15, <1>16, <1>17 DEF ClaimStep

\* The reconciler keeps the invariant: the action it decided is still right
\* when it is applied, because a dead or refunded swap stays so.
LEMMA ReconInv == IInv /\ ReconStep => IInv'
<1>. SUFFICES ASSUME IInv, ReconStep PROVE IInv'
  OBVIOUS
<1> USE DEF IInv, TypeOK, WorldInv, KnowledgeInv, LockInv, HandInv, RowInv,
            InvoiceInv
<1>1. CASE ReconList
  BY <1>1 DEF ReconList
<1>2. CASE ReconDecide
  BY <1>2 DEF ReconDecide, DecideAction
<1>3. CASE ReconUpdate
  BY <1>3 DEF ReconUpdate
<1>4. CASE ReconSchedule
  <2>1. coopRefused' \in BOOLEAN
    <3>1. CASE raction = "ScheduleScriptPathRetry"
      BY <1>4, <3>1, Zenon DEF ReconSchedule
    <3>2. CASE raction # "ScheduleScriptPathRetry"
      BY <1>4, <3>2 DEF ReconSchedule
    <3>. QED
      BY <3>1, <3>2
  <2>. QED
    BY <1>4, <2>1 DEF ReconSchedule
<1>5. CASE ReconNudge
  BY <1>5 DEF ReconNudge
<1>6. CASE ReconFlip
  BY <1>6 DEF ReconFlip
<1>7. CASE ReconMarkRefunded
  BY <1>7 DEF ReconMarkRefunded
<1>. QED
  BY <1>1, <1>2, <1>3, <1>4, <1>5, <1>6, <1>7 DEF ReconStep

\* So do the sweep, the invoice's deadline and cancellation, and the clock.
LEMMA TimerInv ==
    IInv /\ (SweepList \/ CancelInvoice \/ ExpireInvoice \/ TimePasses) => IInv'
<1>. SUFFICES ASSUME IInv,
                     SweepList \/ CancelInvoice \/ ExpireInvoice \/ TimePasses
              PROVE  IInv'
  OBVIOUS
<1> USE DEF IInv, TypeOK, WorldInv, KnowledgeInv, LockInv, HandInv, RowInv,
            InvoiceInv
<1>1. CASE SweepList
  BY <1>1 DEF SweepList
<1>2. CASE CancelInvoice
  BY <1>2 DEF CancelInvoice
<1>3. CASE ExpireInvoice
  BY <1>3 DEF ExpireInvoice
<1>4. CASE TimePasses
  BY <1>4 DEF TimePasses
<1>. QED
  BY <1>1, <1>2, <1>3, <1>4

\* Boltz's next status, spelled out.
LEMMA BoltzNextFacts ==
    ASSUME NEW t \in BoltzNext(boltz)
    PROVE  /\ t \in BoltzStatus
           /\ boltz \notin Dead
           /\ t \in Dead \cup {"transaction.mempool"} => boltz = "swap.created"
           /\ t = "transaction.confirmed" => boltz = "transaction.mempool"
           /\ t # "swap.created"
BY DEF BoltzNext

\* Boltz's moves keep the invariant: death precedes funding, a refund takes
\* only an unspent lockup.
LEMMA BoltzInv == IInv /\ BoltzMoves => IInv'
<1>. SUFFICES ASSUME IInv, BoltzMoves PROVE IInv'
  OBVIOUS
<1>1. /\ boltz' \in BoltzStatus /\ boltz' # "swap.created"
      /\ boltz \notin Dead
      /\ boltz' \in Dead \cup {"transaction.mempool"} => boltz = "swap.created"
      /\ boltz' = "transaction.confirmed" => boltz = "transaction.mempool"
  BY BoltzNextFacts DEF BoltzMoves
<1>2. /\ emitted' = emitted \cup {boltz'}
      /\ spender' = (IF boltz' = "transaction.refunded" THEN Refund ELSE spender)
      /\ boltz' = "transaction.refunded" => Funded /\ spender = None
      /\ UNCHANGED <<row, invoice, processed, tasks, recon, broadcast,
                     revealed, faults>>
  BY DEF BoltzMoves
<1>3. emitted \cap Dead = {}
  BY <1>1 DEF IInv, WorldInv
<1>4. TypeOK'
  BY <1>1, <1>2 DEF IInv, TypeOK
<1>5. WorldInv'
  BY <1>1, <1>2, <1>3 DEF IInv, TypeOK, WorldInv
<1>6. KnowledgeInv'
  BY <1>2, <1>3 DEF IInv, KnowledgeInv
<1>7. LockInv'
  BY <1>2 DEF IInv, LockInv
<1>8. HandInv'
  BY <1>2 DEF IInv, HandInv
<1>9. RowInv'
  BY <1>2, <1>3 DEF IInv, RowInv
<1>10. InvoiceInv'
  BY <1>2 DEF IInv, InvoiceInv
<1>. QED
  BY <1>4, <1>5, <1>6, <1>7, <1>8, <1>9, <1>10 DEF IInv

\* Faults keep the invariant: a failed call or a crash forgets what a task
\* held and frees its lock, and a commit without an answer is a commit.
LEMMA FaultInv == IInv /\ Fault => IInv'
<1>. SUFFICES ASSUME IInv, Fault PROVE IInv'
  OBVIOUS
<1> USE DEF IInv, TypeOK, WorldInv, KnowledgeInv, LockInv, HandInv, RowInv,
            InvoiceInv
<1>1. ASSUME NEW w \in Workers, CallFails(w)
      PROVE  IInv'
  <2>1. TypeOK'
    BY <1>1 DEF CallFails, AfterError
  <2>2. WorldInv' /\ RowInv' /\ InvoiceInv'
    BY <1>1 DEF CallFails
  <2>3. KnowledgeInv'
    BY <1>1 DEF CallFails, AfterError
  <2>4. LockInv'
    BY <1>1 DEF CallFails, AfterError
  <2>5. HandInv'
    BY <1>1 DEF CallFails, AfterError
  <2>. QED
    BY <2>1, <2>2, <2>3, <2>4, <2>5
<1>2. ASSUME NEW w \in Workers, CommitUnacknowledged(w)
      PROVE  IInv'
  <2>1. pc[w] = "commit" /\ Persist(w) /\ UNCHANGED <<invoice, world>>
    BY <1>2 DEF CommitUnacknowledged
  <2>2. RowInv' /\ claimTx' \in Tx /\ claimTx' = hand[w]
        /\ (claimTx # None => claimTx' = claimTx)
    BY <2>1, PersistInv
  <2>3. TypeOK' /\ WorldInv' /\ KnowledgeInv' /\ LockInv' /\ InvoiceInv'
    BY <1>2 DEF CommitUnacknowledged, Persist
  <2>4. HandInv'
    BY <1>2, <2>2 DEF CommitUnacknowledged, Persist
  <2>. QED
    BY <2>2, <2>3, <2>4
<1>3. CASE ReconFails
  BY <1>3 DEF ReconFails
<1>4. CASE Crash
  BY <1>4 DEF Crash
<1>. QED
  BY <1>1, <1>2, <1>3, <1>4 DEF Fault

-----------------------------------------------------------------------------
\* IInv is an invariant of the specification.
THEOREM Invariance == Spec => []IInv
<1>1. IInv /\ [Next]_vars => IInv'
  <2>. SUFFICES ASSUME IInv, [Next]_vars PROVE IInv'
    OBVIOUS
  <2>1. CASE Next
    BY <2>1, WebhookInv, ClaimInv, ReconInv, TimerInv, BoltzInv, FaultInv
       DEF Next
  <2>2. CASE UNCHANGED vars
    BY <2>2 DEF vars, IInv, TypeOK, WorldInv, KnowledgeInv, LockInv, HandInv,
                RowInv, InvoiceInv
  <2>. QED
    BY <2>1, <2>2
<1>. QED
  BY InitInv, <1>1, PTL DEF Spec

\* Every variable keeps its type.
THEOREM TypeCorrect == Spec => []TypeOK
<1>1. IInv => TypeOK
  BY DEF IInv
<1>. QED
  BY Invariance, <1>1, PTL

\* One transaction is ever sent for a swap, the one its row holds.
THEOREM SendsOneClaim == Spec => []OneClaimTx
<1>1. IInv => OneClaimTx
  BY DEF IInv, RowInv, OneClaimTx
<1>. QED
  BY Invariance, <1>1, PTL

\* A lockup we take goes to the address of the row, the invoice's if any.
THEOREM ClaimsPayTheMerchant == Spec => []PaysTheMerchant
<1>1. IInv => PaysTheMerchant
  BY DEF IInv, RowInv, PaysTheMerchant
<1>. QED
  BY Invariance, <1>1, PTL

\* A claimed row names the transaction that took the lockup.
THEOREM ClaimedRowsAreTrue == Spec => []ClaimIsOnChain
<1>1. IInv => ClaimIsOnChain
  BY DEF IInv, RowInv, ClaimIsOnChain
<1>. QED
  BY Invariance, <1>1, PTL

\* No row is closed as expired over a funded lockup.
THEOREM NoLockupIsAbandoned == Spec => []NoAbandonedLockup
<1>1. IInv => NoAbandonedLockup
  BY DEF IInv, RowInv, WorldInv, NoAbandonedLockup
<1>. QED
  BY Invariance, <1>1, PTL

\* A row is stuck exactly when its budget of attempts is spent.
THEOREM StuckRowsSpentTheirBudget == Spec => []StuckMeansBudgetSpent
<1>1. IInv => StuckMeansBudgetSpent
  BY DEF IInv, RowInv, StuckMeansBudgetSpent
<1>. QED
  BY Invariance, <1>1, PTL

\* A credit stands for a lockup we took, and stays.
THEOREM CreditsAreBackedAndFinal == Spec => []CreditIsBackedAndFinal
<1>1. IInv => CreditIsBackedAndFinal
  BY DEF IInv, InvoiceInv, CreditIsBackedAndFinal
<1>. QED
  BY Invariance, <1>1, PTL

-----------------------------------------------------------------------------
\* A terminal row stays, its claim and address are written once, its
\* attempts never fall and its script-path flag never returns.
THEOREM RowsMoveForward == Spec => RowForwardOnly
<1> DEFINE Forward == /\ status \in Terminal => status' = status
                      /\ claimTx # None => claimTx' = claimTx
                      /\ address # None => address' = address
                      /\ attempts' \in {attempts, attempts + 1}
                      /\ coopRefused => coopRefused'
<1>0. ASSUME TypeOK, TypeOK'
      PROVE  coopRefused \in BOOLEAN /\ coopRefused' \in BOOLEAN
  BY <1>0 DEF TypeOK
<1>1. ASSUME TypeOK, TypeOK',
             NEW h \in Handlers, Deliver(h) \/ WebhookStep(h)
      PROVE  Forward
  BY <1>0, <1>1 DEF Deliver, WebhookStep, Lookup, ApplyLockup, WebhookFlip,
              ApplySwapExpired, ApplyDead, ApplyRefunded, WebhookMarkRefunded,
              ApplyIgnored
<1>2. ASSUME TypeOK, TypeOK', NEW w \in Workers, ClaimStep(w)
      PROVE  Forward
  <2>1. CASE Resolve(w)
    BY <2>1 DEF Resolve
  <2>2. CASE Commit(w)
    BY <2>2 DEF Commit, Persist
  <2>3. CASE Fail(w)
    BY <2>3 DEF Fail
  <2>4. CASE Won(w) \/ ConstructRefused(w) \/ Clear(w)
    BY <1>0, <1>2, <2>4 DEF Won, ConstructRefused, Clear
  <2>5. CASE UNCHANGED row
    BY <2>5
  <2>. QED
    BY <1>2, <2>1, <2>2, <2>3, <2>4, <2>5
       DEF ClaimStep, SkipClaim, Begin, Construct, ConstructFails, BroadcastOk,
           BroadcastErrs, ProbeFinds, ProbeMisses, Settle, Credit, MarkStuck
<1>3. ASSUME TypeOK, TypeOK', ReconStep
      PROVE  Forward
  BY <1>0, <1>3 DEF ReconStep, ReconList, ReconDecide, ReconUpdate, ReconSchedule,
              ReconNudge, ReconFlip, ReconMarkRefunded
<1>4. ASSUME TypeOK, TypeOK', Fault
      PROVE  Forward
  BY <1>0, <1>4 DEF Fault, CallFails, CommitUnacknowledged, Persist, ReconFails,
              Crash
<1>5. ASSUME TypeOK, TypeOK',
             SweepList \/ CancelInvoice \/ ExpireInvoice \/ TimePasses
             \/ BoltzMoves
      PROVE  Forward
  BY <1>0, <1>5 DEF SweepList, CancelInvoice, ExpireInvoice, TimePasses, BoltzMoves
<1>6. TypeOK /\ TypeOK' /\ [Next]_vars => [Forward]_vars
  BY <1>1, <1>2, <1>3, <1>4, <1>5 DEF Next
<1>. QED
  BY <1>6, TypeCorrect, PTL DEF Spec, RowForwardOnly

-----------------------------------------------------------------------------
(***************************************************************************)
(* ReverseSwap implements SwapPromise.  A step changes the abstract view   *)
(* only where the chain, the row's verdict or the credit changes; IInv     *)
(* says that the verdict and the credit then state a fact.                 *)
(***************************************************************************)

\* The view of a step that leaves what it is made of.
LEMMA SameView ==
    UNCHANGED <<spender, emitted, status, credited>> => UNCHANGED Promise!vars
BY DEF Promise!vars, CoinView, VerdictView

\* The row's verdict: nothing but the status moves.
LEMMA VerdictStep ==
    ASSUME IInv, IInv', UNCHANGED <<spender, emitted, credited>>,
           status' # status, status \notin Terminal
    PROVE  [Promise!Next]_Promise!vars
<1>1. CoinView' = CoinView /\ VerdictView = "open"
  BY DEF CoinView, VerdictView, IInv, TypeOK
<1>2. CASE status' = "claimed"
  BY <1>1, <1>2 DEF IInv, RowInv, CoinView, VerdictView, Promise!Next,
                    Promise!Decide
<1>3. CASE status' = "expired"
  BY <1>1, <1>3 DEF IInv, RowInv, WorldInv, CoinView, VerdictView,
                    Promise!Next, Promise!Decide
<1>4. CASE status' = "lockup_refunded"
  BY <1>1, <1>4 DEF IInv, RowInv, CoinView, VerdictView, Promise!Next,
                    Promise!Decide
<1>5. CASE status' = "claim_stuck"
  BY <1>1, <1>5 DEF CoinView, VerdictView, Promise!Next, Promise!Decide
<1>6. CASE status' \notin Terminal
  BY <1>1, <1>6 DEF CoinView, VerdictView, Promise!vars, IInv, TypeOK
<1>. QED
  BY <1>2, <1>3, <1>4, <1>5, <1>6

\* A task's or the reconciler's update of the row is a verdict or a stutter.
LEMMA RowStep ==
    ASSUME IInv, IInv', UNCHANGED <<spender, emitted, credited>>,
           status \in Terminal => status' = status
    PROVE  [Promise!Next]_Promise!vars
BY SameView, VerdictStep

\* A claim that takes the lockup.
LEMMA SendStep ==
    ASSUME IInv, NEW w \in Workers, BroadcastOk(w) \/ BroadcastErrs(w)
    PROVE  [Promise!Next]_Promise!vars
<1>1. UNCHANGED <<status, emitted, credited>> /\ Funded /\ hand[w] \in Tx
  BY DEF BroadcastOk, BroadcastErrs, IInv, TypeOK, KnowledgeInv, HandInv
<1>2. spender' = spender \/ (spender = None /\ spender' = hand[w])
  BY DEF BroadcastOk, BroadcastErrs, Send
<1>3. CASE spender' = spender
  BY <1>1, <1>3, SameView
<1>4. CASE spender = None /\ spender' = hand[w]
  <2>1. CoinView = "locked" /\ CoinView' = "ours"
    BY <1>1, <1>4 DEF CoinView
  <2>. QED
    BY <1>1, <2>1 DEF VerdictView, Promise!Next, Promise!Spend
<1>. QED
  BY <1>2, <1>3, <1>4

\* The payment event of a claimed lockup.
LEMMA CreditStep ==
    ASSUME IInv, NEW w \in Workers, Credit(w)
    PROVE  [Promise!Next]_Promise!vars
<1>1. UNCHANGED <<status, emitted, spender>> /\ spender \in Tx
  BY DEF Credit, IInv, HandInv
<1>2. CASE credited' = credited
  BY <1>1, <1>2, SameView
<1>3. CASE credited' # credited
  <2>1. credited = FALSE /\ credited' = TRUE
    BY <1>3 DEF Credit, IInv, TypeOK
  <2>2. CoinView = "ours" /\ CoinView' = CoinView /\ VerdictView' = VerdictView
    BY <1>1 DEF CoinView, VerdictView
  <2>. QED
    BY <2>1, <2>2 DEF Promise!Next, Promise!Pay
<1>. QED
  BY <1>2, <1>3

\* Boltz funds, refunds, or moves without touching the lockup.
LEMMA BoltzStep ==
    ASSUME IInv, BoltzMoves
    PROVE  [Promise!Next]_Promise!vars
<1>1. /\ UNCHANGED <<status, credited>> /\ emitted' = emitted \cup {boltz'}
      /\ spender' = (IF boltz' = "transaction.refunded" THEN Refund ELSE spender)
      /\ boltz' = "transaction.refunded" => Funded /\ spender = None
  BY DEF BoltzMoves
<1>2. /\ boltz \notin Dead
      /\ boltz' = "transaction.mempool" => boltz = "swap.created"
  BY BoltzNextFacts DEF BoltzMoves
<1>3. VerdictView' = VerdictView /\ VerdictView # "dead"
  BY <1>1, <1>2 DEF VerdictView, IInv, RowInv, WorldInv
<1>4. CASE boltz' = "transaction.refunded"
  <2>1. CoinView = "locked" /\ CoinView' = "refunded"
    BY <1>1, <1>4 DEF CoinView
  <2>. QED
    BY <1>1, <1>3, <2>1 DEF Promise!Next, Promise!Spend
<1>5. CASE boltz' = "transaction.mempool"
  <2>1. CoinView = "none" /\ CoinView' = "locked"
    BY <1>1, <1>2, <1>5 DEF CoinView, IInv, WorldInv
  <2>. QED
    BY <1>1, <1>3, <2>1 DEF Promise!Next, Promise!Lock
<1>6. CASE boltz' \notin {"transaction.refunded", "transaction.mempool"}
  <2>1. CoinView' = CoinView
    BY <1>1, <1>6 DEF CoinView
  <2>. QED
    BY <1>1, <1>3, <2>1 DEF Promise!vars
<1>. QED
  BY <1>4, <1>5, <1>6

\* Every step of the swap's tasks is a step of its promise, or none.
THEOREM ImplementsPromise == Spec => KeepsPromise
<1>1. Init => Promise!Init
  BY DEF Init, Promise!Init, CoinView, VerdictView
<1>2. IInv /\ IInv' /\ [Next]_vars => [Promise!Next]_Promise!vars
  <2>. SUFFICES ASSUME IInv, IInv', [Next]_vars
                PROVE  [Promise!Next]_Promise!vars
    OBVIOUS
  <2>1. ASSUME NEW h \in Handlers, Deliver(h) \/ WebhookStep(h)
        PROVE  [Promise!Next]_Promise!vars
    BY <2>1, RowStep
       DEF Deliver, WebhookStep, Lookup, ApplyLockup, WebhookFlip,
           ApplySwapExpired, ApplyDead, ApplyRefunded, WebhookMarkRefunded,
           ApplyIgnored
  <2>2. ASSUME NEW w \in Workers, ClaimStep(w)
        PROVE  [Promise!Next]_Promise!vars
    <3>1. CASE BroadcastOk(w) \/ BroadcastErrs(w)
      BY <3>1, SendStep
    <3>2. CASE Credit(w)
      BY <3>2, CreditStep
    <3>3. CASE /\ UNCHANGED <<spender, emitted, credited>>
               /\ status \in Terminal => status' = status
      BY <3>3, RowStep
    <3>. QED
      BY <2>2, <3>1, <3>2, <3>3
         DEF ClaimStep, SkipClaim, Begin, Resolve, Construct,
             ConstructRefused, ConstructFails, Commit, Persist, ProbeFinds,
             ProbeMisses, Won, Settle, Clear, Fail, MarkStuck
  <2>3. ASSUME ReconStep
        PROVE  [Promise!Next]_Promise!vars
    BY <2>3, RowStep
       DEF ReconStep, ReconList, ReconDecide, ReconUpdate, ReconSchedule,
           ReconNudge, ReconFlip, ReconMarkRefunded
  <2>4. ASSUME SweepList \/ CancelInvoice \/ ExpireInvoice \/ TimePasses
        PROVE  [Promise!Next]_Promise!vars
    BY <2>4, RowStep DEF SweepList, CancelInvoice, ExpireInvoice, TimePasses
  <2>5. ASSUME Fault
        PROVE  [Promise!Next]_Promise!vars
    BY <2>5, RowStep
       DEF Fault, CallFails, CommitUnacknowledged, Persist, ReconFails, Crash
  <2>6. CASE UNCHANGED vars
    BY <2>6, SameView DEF vars
  <2>. QED
    BY <2>1, <2>2, <2>3, <2>4, <2>5, <2>6, BoltzStep DEF Next
<1>. QED
  BY <1>1, <1>2, Invariance, PTL DEF Spec, KeepsPromise, Promise!Spec

-----------------------------------------------------------------------------
(***************************************************************************)
(* The row as AddressBook has it.                                          *)
(***************************************************************************)

\* No task claims for a row whose lockup is yet to be seen: handlers advance
\* the row first, the sweep lists advanced rows only.
LEMMA SeenStep ==
    ASSUME IInv, SeenInv, [Next]_vars
    PROVE  SeenInv'
<1> DEFINE Kept == /\ status # "pending" => status' # "pending"
                   /\ \A w \in Workers : pc'[w] \in Claims =>
                        pc[w] \in Claims \/ status' # "pending"
<1>0. status \in SwapStatus /\ pc \in [Workers -> Label]
  BY DEF IInv, TypeOK
<1>1. ASSUME NEW h \in Handlers, Deliver(h) \/ WebhookStep(h)
      PROVE  Kept
  BY <1>0, <1>1
     DEF Deliver, WebhookStep, Lookup, ApplyLockup, WebhookFlip,
         ApplySwapExpired, ApplyDead, ApplyRefunded, WebhookMarkRefunded,
         ApplyIgnored
<1>2. ASSUME SweepList PROVE Kept
  BY <1>0, <1>2 DEF SweepList
<1>3. ASSUME NEW w \in Workers, ClaimStep(w)
      PROVE  Kept
  BY <1>0, <1>3
     DEF ClaimStep, SkipClaim, Begin, Resolve, Construct, ConstructRefused,
         ConstructFails, Commit, Persist, BroadcastOk, BroadcastErrs,
         ProbeFinds, ProbeMisses, Won, Settle, Clear, Credit, Fail, MarkStuck
<1>4. ASSUME ReconStep PROVE Kept
  BY <1>0, <1>4
     DEF ReconStep, ReconList, ReconDecide, ReconUpdate, ReconSchedule,
         ReconNudge, ReconFlip, ReconMarkRefunded
<1>5. ASSUME CancelInvoice \/ ExpireInvoice \/ TimePasses \/ BoltzMoves PROVE Kept
  BY <1>5 DEF CancelInvoice, ExpireInvoice, TimePasses, BoltzMoves
<1>6. ASSUME Fault PROVE Kept
  BY <1>0, <1>6
     DEF Fault, CallFails, AfterError, CommitUnacknowledged, Persist,
         ReconFails, Crash
<1>7. ASSUME UNCHANGED vars PROVE Kept
  BY <1>7 DEF vars
<1>8. Kept
  BY <1>1, <1>2, <1>3, <1>4, <1>5, <1>6, <1>7 DEF Next
<1>. QED
  BY <1>8 DEF SeenInv

\* A claim under way is at a row that has seen its lockup.
THEOREM ClaimsFollowLockups == Spec => []SeenInv
<1>1. Init => SeenInv
  BY DEF Init, SeenInv
<1>2. IInv /\ SeenInv /\ [Next]_vars => SeenInv'
  BY SeenStep
<1>. QED
  BY <1>1, <1>2, Invariance, PTL DEF Spec

\* How a status may move, the address staying.
LEMMA StatusLives ==
    ASSUME IInv, UNCHANGED address,
           \/ status' = status
           \/ /\ status \notin Terminal
              /\ status' \in Claimable \cup {"claim_stuck", "lockup_refunded"}
           \/ status = "pending" /\ status' = "expired"
           \/ status \notin Terminal /\ status' = "claimed" /\ address # None
    PROVE  [Life!Next]_Life!vars
<1>1. CASE status' = status
  BY <1>1 DEF PhaseView, Life!vars
<1>2. CASE status = "pending" /\ status' # status
  BY <1>2 DEF PhaseView, Life!Next, Life!See, Life!Expire, Life!GiveUp
<1>3. CASE status \in Claimable /\ status' # status
  BY <1>3 DEF PhaseView, Life!vars, Life!Next, Life!Claim, Life!GiveUp
<1>. QED
  BY <1>1, <1>2, <1>3 DEF IInv, TypeOK

\* A row is closed as expired only if no lockup was ever seen.
LEMMA ExpiryLives ==
    ASSUME IInv, emitted \cap Dead # {}, UpdateStatus("expired"),
           UNCHANGED address
    PROVE  [Life!Next]_Life!vars
<1>1. status \notin Claimable
  BY DEF IInv, WorldInv, RowInv
<1>. QED
  BY <1>1, StatusLives DEF IInv, TypeOK

\* The address is chosen once, while the row has a claimable lockup, or
\* after it was given up.
LEMMA ResolveLives ==
    ASSUME IInv, SeenInv, NEW w \in Workers, Resolve(w)
    PROVE  [Life!Next]_Life!vars
<1>1. UNCHANGED status /\ (address # None => address' = address)
  BY DEF Resolve
<1>2. CASE address' = address
  BY <1>1, <1>2, StatusLives
<1>3. CASE address' # address
  <2>1. address = None /\ address' # None
    BY <1>1, <1>3
  <2>2. Funded /\ status # "pending"
    BY DEF Resolve, SeenInv, IInv, KnowledgeInv
  <2>3. status # "expired" /\ status # "claimed"
    BY <2>1, <2>2 DEF IInv, WorldInv, RowInv
  <2>4. PhaseView \in {"claimable", "dead"} /\ PhaseView' = PhaseView
    BY <1>1, <2>2, <2>3 DEF PhaseView, IInv, TypeOK
  <2>. QED
    BY <2>1, <2>4 DEF Life!Next, Life!Choose
<1>. QED
  BY <1>2, <1>3

\* A webhook, the reconciler and a claim move the row as it may live.
LEMMA WebhookLives ==
    ASSUME IInv, NEW h \in Handlers, Deliver(h) \/ WebhookStep(h)
    PROVE  [Life!Next]_Life!vars
<1>1. CASE ApplyDead(h)
  <2>1. emitted \cap Dead # {}
    BY <1>1 DEF ApplyDead, IInv, KnowledgeInv
  <2>. QED
    BY <1>1, <2>1, ExpiryLives DEF ApplyDead
<1>2. CASE ~ApplyDead(h)
  BY <1>2, StatusLives
     DEF Deliver, WebhookStep, Lookup, ApplyLockup, WebhookFlip,
         ApplySwapExpired, ApplyRefunded, WebhookMarkRefunded, ApplyIgnored
<1>. QED
  BY <1>1, <1>2

LEMMA ReconLives ==
    ASSUME IInv, ReconStep
    PROVE  [Life!Next]_Life!vars
<1>1. CASE ReconUpdate /\ raction = "MarkExpired"
  <2>1. emitted \cap Dead # {}
    BY <1>1 DEF IInv, KnowledgeInv
  <2>. QED
    BY <1>1, <2>1, ExpiryLives DEF ReconUpdate
<1>2. CASE ReconUpdate /\ raction # "MarkExpired"
  BY <1>2, StatusLives DEF ReconUpdate
<1>3. CASE ~ReconUpdate
  BY <1>3, StatusLives
     DEF ReconStep, ReconList, ReconDecide, ReconSchedule, ReconNudge,
         ReconFlip, ReconMarkRefunded
<1>. QED
  BY <1>1, <1>2, <1>3

LEMMA ClaimLives ==
    ASSUME IInv, SeenInv, NEW w \in Workers, ClaimStep(w)
    PROVE  [Life!Next]_Life!vars
<1>1. CASE Won(w)
  <2>1. address # None
    BY <1>1 DEF Won, IInv, TypeOK, HandInv, RowInv
  <2>. QED
    BY <1>1, <2>1, StatusLives DEF Won
<1>2. CASE Commit(w)
  BY <1>2, StatusLives DEF Commit, Persist
<1>3. CASE Fail(w)
  BY <1>3, StatusLives DEF Fail
<1>4. CASE UNCHANGED <<status, address>>
  BY <1>4, StatusLives
<1>5. Resolve(w) \/ Won(w) \/ Commit(w) \/ Fail(w)
        \/ UNCHANGED <<status, address>>
  BY DEF ClaimStep, SkipClaim, Begin, Construct, ConstructRefused,
         ConstructFails, BroadcastOk, BroadcastErrs, ProbeFinds, ProbeMisses,
         Settle, Clear, Credit, MarkStuck
<1>. QED
  BY <1>1, <1>2, <1>3, <1>4, <1>5, ResolveLives

\* The tasks of a swap move its row only as AddressBook lets it move: a row
\* that purge_user counts as closed stays closed and gets no address any
\* more, and resolve_claim_address chooses one once, for a lockup that was
\* seen.
THEOREM RowLivesAsAssumed == Spec => LivesAsAssumed
<1>1. Init => Life!Init
  BY DEF Init, Life!Init, PhaseView
<1>2. IInv /\ SeenInv /\ [Next]_vars => [Life!Next]_Life!vars
  <2>. SUFFICES ASSUME IInv, SeenInv, [Next]_vars
                PROVE  [Life!Next]_Life!vars
    OBVIOUS
  <2>1. CASE SweepList \/ CancelInvoice \/ ExpireInvoice \/ TimePasses
               \/ BoltzMoves
    BY <2>1, StatusLives
       DEF SweepList, CancelInvoice, ExpireInvoice, TimePasses, BoltzMoves
  <2>2. CASE Fault
    BY <2>2, StatusLives
       DEF Fault, CallFails, CommitUnacknowledged, Persist, ReconFails, Crash
  <2>3. CASE UNCHANGED vars
    BY <2>3, StatusLives DEF vars
  <2>. QED
    BY <2>1, <2>2, <2>3, WebhookLives, ReconLives, ClaimLives DEF Next
<1>. QED
  BY <1>1, <1>2, Invariance, ClaimsFollowLockups, PTL
     DEF Spec, LivesAsAssumed, Life!Spec

=============================================================================
