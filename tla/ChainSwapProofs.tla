-------------------------- MODULE ChainSwapProofs --------------------------
(***************************************************************************)
(* Proofs about ChainSwap, for any handlers, transactions, retry budget    *)
(* and number of faults.                                                   *)
(*                                                                         *)
(* The argument is that of a claim under an advisory lock: IInv says whose *)
(* claim a task holds at each label and what the world has shown by then.  *)
(* It is shown inductive group of actions by group; the safety properties  *)
(* follow from it, the action property and the refinement from it and a    *)
(* step.                                                                   *)
(***************************************************************************)
EXTENDS ChainSwapProperties, TLAPS

USE SweepAssumption, AttemptsAssumption, FaultsAssumption, ClaimsAssumption,
    LockAssumption

\* The vocabulary: tuples of variables, sets of values, statement helpers.
USE DEF row, invoice, tasks, world, Workers
USE DEF ChainSwapStatus, UserLocked, ServerLocked, Terminal, Claimable,
        BoltzStatus, InvoiceStatus, SettlementStatus, Future, Label, Claiming
USE DEF Goto, Forget, ForgetMsg, NoMsg, Funded, UpdateStatus, MarkSettlement,
        FlipInProgress

-----------------------------------------------------------------------------
\* The row is created with nothing known and nothing held.
LEMMA InitInv == Init => IInv
<1>. SUFFICES ASSUME Init PROVE IInv
  OBVIOUS
<1>1. TypeOK
  <2>1. /\ pc \in [Workers -> Label] /\ msg \in [Handlers -> BoltzStatus]
        /\ hand \in [Workers -> Claims \cup {None}]
    BY DEF Init
  <2>2. /\ attempts \in 0..MaxAttempts /\ faults \in 0..MaxFaults
        /\ broadcast \in SUBSET Claims /\ processed \in SUBSET BoltzStatus
        /\ emitted \in SUBSET BoltzStatus
    BY DEF Init
  <2>3. credited \in BOOLEAN /\ revealed \in BOOLEAN
    BY DEF Init
  <2>. QED
    BY <2>1, <2>2, <2>3 DEF Init, TypeOK
<1>2. WorldInv /\ KnowledgeInv /\ LockInv /\ HandInv
  BY DEF Init, WorldInv, KnowledgeInv, LockInv, HandInv
<1>3. RowInv /\ InvoiceInv
  BY DEF Init, RowInv, InvoiceInv
<1>. QED
  BY <1>1, <1>2, <1>3 DEF IInv

\* What the status written for a message says of the world.
LEMMA StatusFromBoltzFacts ==
    ASSUME NEW s \in BoltzStatus
    PROVE  /\ StatusFromBoltz(s) \in ChainSwapStatus
           /\ StatusFromBoltz(s) \notin {"claimed", "claiming", "claim_stuck"}
           /\ StatusFromBoltz(s) = "refunded" => s = "transaction.refunded"
           /\ StatusFromBoltz(s) = "server_lock_mempool"
                => s = "transaction.server.mempool"
           /\ StatusFromBoltz(s) = "server_lock_confirmed"
                => s = "transaction.server.confirmed"
BY DEF StatusFromBoltz

\* A webhook handler keeps the invariant: what it writes was true when Boltz
\* emitted the message it holds, and stays true.
LEMMA WebhookInv ==
    ASSUME IInv, NEW h \in Handlers, Deliver(h) \/ WebhookStep(h)
    PROVE  IInv'
<1> USE DEF IInv, TypeOK, WorldInv, KnowledgeInv, LockInv, HandInv, RowInv,
            InvoiceInv
<1>1. CASE Deliver(h)
  BY <1>1 DEF Deliver
<1>2. CASE Lookup(h)
  BY <1>2 DEF Lookup
<1>3. CASE ApplyClaimed(h)
  BY <1>3 DEF ApplyClaimed
<1>4. CASE ApplyStatus(h)
  <2> DEFINE next == StatusFromBoltz(msg[h])
  <2>1. /\ next \in ChainSwapStatus
        /\ next \notin {"claimed", "claiming", "claim_stuck"}
        /\ next \in ServerLocked => Funded
        /\ next = "refunded" => spender = Refund
    BY <1>4, StatusFromBoltzFacts DEF ApplyStatus
  <2>2. /\ status' = (IF status \in Terminal THEN status ELSE next)
        /\ pc' \in {[pc EXCEPT ![h] = "flip"], [pc EXCEPT ![h] = "idle"]}
        /\ msg' \in {msg, [msg EXCEPT ![h] = NoMsg]}
        /\ UNCHANGED <<claimTx, claimTxid, attempts, nextAt, invoice,
                       processed, hand, lock, world, faults>>
    BY <1>4 DEF ApplyStatus
  <2> HIDE DEF next
  <2>3. TypeOK' /\ WorldInv' /\ InvoiceInv' /\ RowInv'
    BY <2>1, <2>2
  <2>4. KnowledgeInv' /\ LockInv' /\ HandInv'
    BY <1>4, <2>2 DEF ApplyStatus
  <2>. QED
    BY <2>3, <2>4
<1>5. CASE WebhookFlip(h)
  BY <1>5 DEF WebhookFlip, AfterFlip
<1>. QED
  BY <1>1, <1>2, <1>3, <1>4, <1>5 DEF WebhookStep

\* The two updates of the claim transaction.  The committing task holds the
\* lock, so the claim in its hand is the row's or the row has none.
LEMMA PersistInv ==
    ASSUME IInv, NEW w \in Workers, pc[w] = "commit", Persist(w),
           UNCHANGED <<invoice, world>>
    PROVE  /\ RowInv' /\ claimTx' \in Claims /\ claimTx' = hand[w]
           /\ claimTx # None => claimTx' = claimTx
<1>1. hand[w] \in Claims /\ Funded
  BY DEF IInv, TypeOK, HandInv, KnowledgeInv, RowInv
<1>2. claimTx' = hand[w] /\ claimTxid' = hand[w]
  BY DEF IInv, HandInv, RowInv, Persist
<1>3. claimTx # None => claimTx' = claimTx
  BY DEF Persist
<1>4. \A t \in broadcast : t = hand[w]
  BY <1>1, <1>2, <1>3 DEF IInv, TypeOK, RowInv
<1>5. spender \in Claims => spender = hand[w]
  BY <1>2, <1>3 DEF IInv, RowInv
<1>6. status' = (IF status \in Terminal THEN status ELSE "claiming")
      /\ attempts' = attempts
  BY DEF Persist
<1>7. RowInv'
  BY <1>1, <1>2, <1>4, <1>5, <1>6 DEF IInv, TypeOK, RowInv
<1>. QED
  BY <1>1, <1>2, <1>3, <1>7

\* The claim keeps the invariant: the lock makes the claim in a task's hand
\* the row's own, the row's claim is the only one ever sent, and the row is
\* called claimed only after the server lock was seen spent by it.
LEMMA ClaimInv ==
    ASSUME IInv, NEW w \in Workers, ClaimStep(w)
    PROVE  IInv'
<1> USE DEF IInv, TypeOK, WorldInv, KnowledgeInv, LockInv, HandInv, RowInv,
            InvoiceInv
<1>1. CASE SkipClaim(w)
  BY <1>1 DEF SkipClaim
<1>2. CASE Begin(w)
  BY <1>2 DEF Begin
<1>3. CASE Construct(w)
  BY <1>3 DEF Construct
<1>4. CASE ConstructFails(w)
  <2>1. revealed' \in BOOLEAN
    BY <1>4, Zenon DEF ConstructFails
  <2>. QED
    BY <1>4, <2>1 DEF ConstructFails
<1>5. CASE Commit(w)
  <2>1. pc[w] = "commit" /\ Persist(w) /\ UNCHANGED <<invoice, world>>
    BY <1>5 DEF Commit
  <2>2. RowInv' /\ claimTx' \in Claims /\ claimTx' = hand[w]
        /\ (claimTx # None => claimTx' = claimTx)
    BY <2>1, PersistInv
  <2>3. TypeOK' /\ WorldInv' /\ KnowledgeInv' /\ LockInv' /\ InvoiceInv'
    BY <1>5 DEF Commit, Persist
  <2>4. HandInv'
    BY <1>5, <2>2 DEF Commit, Persist
  <2>. QED
    BY <2>2, <2>3, <2>4
<1>6. CASE BroadcastOk(w)
  BY <1>6 DEF BroadcastOk, Send
<1>7. CASE BroadcastErrs(w)
  BY <1>7 DEF BroadcastErrs, Send
<1>8. CASE ProbeFinds(w)
  BY <1>8 DEF ProbeFinds
<1>9. CASE ProbeMisses(w)
  BY <1>9 DEF ProbeMisses
<1>10. CASE Won(w)
  BY <1>10 DEF Won
<1>11. CASE Clear(w)
  BY <1>11 DEF Clear
<1>12. CASE Settle(w)
  BY <1>12 DEF Settle
<1>13. CASE Credit(w)
  <2>1. CASE invStatus = "cancelled" \/ credited
    BY <1>13, <2>1 DEF Credit
  <2>2. CASE ~(invStatus = "cancelled" \/ credited)
    <3>1. credited' = TRUE /\ invStatus' = "paid" /\ settlement' = "settled"
      BY <1>13, <2>2 DEF Credit
    <3>. QED
      BY <1>13, <2>2, <3>1 DEF Credit
  <2>. QED
    BY <2>1, <2>2
<1>14. CASE Fail(w)
  BY <1>14 DEF Fail
<1>15. CASE MarkStuck(w)
  BY <1>15 DEF MarkStuck
<1>. QED
  BY <1>1, <1>2, <1>3, <1>4, <1>5, <1>6, <1>7, <1>8, <1>9, <1>10, <1>11,
     <1>12, <1>13, <1>14, <1>15 DEF ClaimStep

\* So do the sweep, the invoice's deadline and cancellation, and the clock.
LEMMA TimerInv ==
    IInv /\ (SweepList \/ CancelInvoice \/ ExpireInvoice \/ TimePasses) => IInv'
<1>. SUFFICES ASSUME IInv,
                     SweepList \/ CancelInvoice \/ ExpireInvoice \/ TimePasses
              PROVE  IInv'
  OBVIOUS
<1> USE DEF IInv, TypeOK, WorldInv, KnowledgeInv, LockInv, HandInv, RowInv,
            InvoiceInv
<1>1. CASE SweepList
  BY <1>1 DEF SweepList
<1>2. CASE CancelInvoice
  BY <1>2 DEF CancelInvoice
<1>3. CASE ExpireInvoice
  BY <1>3 DEF ExpireInvoice
<1>4. CASE TimePasses
  BY <1>4 DEF TimePasses
<1>. QED
  BY <1>1, <1>2, <1>3, <1>4

\* Boltz's next status, spelled out.
LEMMA BoltzNextFacts ==
    ASSUME NEW t \in BoltzNext(boltz)
    PROVE  /\ t \in BoltzStatus
           /\ t = "transaction.server.confirmed"
                => boltz = "transaction.server.mempool"
BY DEF BoltzNext

\* Boltz's moves keep the invariant: a refund takes only an unspent server
\* lock, and nothing speaks of the lock before it exists.
LEMMA BoltzInv == IInv /\ BoltzMoves => IInv'
<1>. SUFFICES ASSUME IInv, BoltzMoves PROVE IInv'
  OBVIOUS
<1>1. /\ boltz' \in BoltzStatus
      /\ boltz' = "transaction.server.confirmed"
           => boltz = "transaction.server.mempool"
  BY BoltzNextFacts DEF BoltzMoves
<1>2. /\ emitted' = emitted \cup {boltz'}
      /\ spender' = (IF boltz' = "transaction.refunded" THEN Refund ELSE spender)
      /\ boltz' = "transaction.refunded" => Funded /\ spender = None
      /\ UNCHANGED <<row, invoice, processed, tasks, broadcast, revealed,
                     faults>>
  BY DEF BoltzMoves
<1>3. TypeOK'
  BY <1>1, <1>2 DEF IInv, TypeOK
<1>4. WorldInv'
  BY <1>1, <1>2 DEF IInv, TypeOK, WorldInv
<1>5. KnowledgeInv'
  BY <1>2 DEF IInv, KnowledgeInv
<1>6. LockInv'
  BY <1>2 DEF IInv, LockInv
<1>7. HandInv'
  BY <1>2 DEF IInv, HandInv
<1>8. RowInv'
  BY <1>2 DEF IInv, RowInv
<1>9. InvoiceInv'
  BY <1>2 DEF IInv, InvoiceInv
<1>. QED
  BY <1>3, <1>4, <1>5, <1>6, <1>7, <1>8, <1>9 DEF IInv

\* Faults keep the invariant: a failed call or a crash forgets what a task
\* held and frees its lock, and a commit without an answer is a commit.
LEMMA FaultInv == IInv /\ Fault => IInv'
<1>. SUFFICES ASSUME IInv, Fault PROVE IInv'
  OBVIOUS
<1> USE DEF IInv, TypeOK, WorldInv, KnowledgeInv, LockInv, HandInv, RowInv,
            InvoiceInv
<1>1. ASSUME NEW w \in Workers, CallFails(w)
      PROVE  IInv'
  <2>1. TypeOK'
    BY <1>1 DEF CallFails, AfterError, AfterFlip
  <2>2. WorldInv' /\ RowInv' /\ InvoiceInv'
    BY <1>1 DEF CallFails
  <2>3. KnowledgeInv'
    BY <1>1 DEF CallFails, AfterError, AfterFlip
  <2>4. LockInv'
    BY <1>1 DEF CallFails, AfterError, AfterFlip
  <2>5. HandInv'
    BY <1>1 DEF CallFails, AfterError, AfterFlip
  <2>. QED
    BY <2>1, <2>2, <2>3, <2>4, <2>5
<1>2. ASSUME NEW w \in Workers, CommitUnacknowledged(w)
      PROVE  IInv'
  <2>1. pc[w] = "commit" /\ Persist(w) /\ UNCHANGED <<invoice, world>>
    BY <1>2 DEF CommitUnacknowledged
  <2>2. RowInv' /\ claimTx' \in Claims /\ claimTx' = hand[w]
        /\ (claimTx # None => claimTx' = claimTx)
    BY <2>1, PersistInv
  <2>3. TypeOK' /\ WorldInv' /\ KnowledgeInv' /\ LockInv' /\ InvoiceInv'
    BY <1>2 DEF CommitUnacknowledged, Persist
  <2>4. HandInv'
    BY <1>2, <2>2 DEF CommitUnacknowledged, Persist
  <2>. QED
    BY <2>2, <2>3, <2>4
<1>3. CASE Crash
  BY <1>3 DEF Crash
<1>. QED
  BY <1>1, <1>2, <1>3 DEF Fault

-----------------------------------------------------------------------------
\* IInv is an invariant of the specification.
THEOREM Invariance == Spec => []IInv
<1>1. IInv /\ [Next]_vars => IInv'
  <2>. SUFFICES ASSUME IInv, [Next]_vars PROVE IInv'
    OBVIOUS
  <2>1. CASE Next
    BY <2>1, WebhookInv, ClaimInv, TimerInv, BoltzInv, FaultInv
       DEF Next
  <2>2. CASE UNCHANGED vars
    BY <2>2 DEF vars, IInv, TypeOK, WorldInv, KnowledgeInv, LockInv, HandInv,
                RowInv, InvoiceInv
  <2>. QED
    BY <2>1, <2>2
<1>. QED
  BY InitInv, <1>1, PTL DEF Spec

\* Every variable keeps its type.
THEOREM TypeCorrect == Spec => []TypeOK
<1>1. IInv => TypeOK
  BY DEF IInv
<1>. QED
  BY Invariance, <1>1, PTL

\* One transaction is ever sent for a swap, the one its row holds.
THEOREM SendsOneClaim == Spec => []OneClaimTx
<1>1. IInv => OneClaimTx
  BY DEF IInv, RowInv, OneClaimTx
<1>. QED
  BY Invariance, <1>1, PTL

\* A claimed row names the transaction that took the server lock.
THEOREM ClaimedRowsAreTrue == Spec => []ClaimIsOnChain
<1>1. IInv => ClaimIsOnChain
  BY DEF IInv, RowInv, ClaimIsOnChain
<1>. QED
  BY Invariance, <1>1, PTL

\* A row is stuck exactly when its budget of attempts is spent.
THEOREM StuckRowsSpentTheirBudget == Spec => []StuckMeansBudgetSpent
<1>1. IInv => StuckMeansBudgetSpent
  BY DEF IInv, RowInv, StuckMeansBudgetSpent
<1>. QED
  BY Invariance, <1>1, PTL

\* A credit stands for a server lock we took, and stays.
THEOREM CreditsAreBackedAndFinal == Spec => []CreditIsBackedAndFinal
<1>1. IInv => CreditIsBackedAndFinal
  BY DEF IInv, InvoiceInv, CreditIsBackedAndFinal
<1>. QED
  BY Invariance, <1>1, PTL

-----------------------------------------------------------------------------

-----------------------------------------------------------------------------
\* A terminal row stays, its claim is written once, its attempts never fall.
THEOREM RowsMoveForward == Spec => RowForwardOnly
<1> DEFINE Forward == /\ status \in Terminal => status' = status
                      /\ claimTx # None => claimTx' = claimTx
                      /\ attempts' \in {attempts, attempts + 1}
<1>1. ASSUME NEW h \in Handlers, Deliver(h) \/ WebhookStep(h)
      PROVE  Forward
  BY <1>1 DEF Deliver, WebhookStep, Lookup, ApplyClaimed, ApplyStatus,
              WebhookFlip
<1>2. ASSUME NEW w \in Workers, ClaimStep(w)
      PROVE  Forward
  <2>1. CASE Commit(w)
    BY <2>1 DEF Commit, Persist
  <2>2. CASE Won(w) \/ Clear(w) \/ Fail(w)
    BY <2>2 DEF Won, Clear, Fail
  <2>3. CASE UNCHANGED row
    BY <2>3
  <2>. QED
    BY <1>2, <2>1, <2>2, <2>3
       DEF ClaimStep, SkipClaim, Begin, Construct, ConstructFails, BroadcastOk,
           BroadcastErrs, ProbeFinds, ProbeMisses, Settle, Credit, MarkStuck
<1>3. ASSUME Fault
      PROVE  Forward
  BY <1>3 DEF Fault, CallFails, CommitUnacknowledged, Persist, Crash
<1>4. ASSUME SweepList \/ CancelInvoice \/ ExpireInvoice \/ TimePasses
             \/ BoltzMoves
      PROVE  Forward
  BY <1>4 DEF SweepList, CancelInvoice, ExpireInvoice, TimePasses, BoltzMoves
<1>5. [Next]_vars => [Forward]_vars
  BY <1>1, <1>2, <1>3, <1>4 DEF Next
<1>. QED
  BY <1>5, PTL DEF Spec, RowForwardOnly

-----------------------------------------------------------------------------
(***************************************************************************)
(* ChainSwap implements SwapPromise: a step changes the abstract view only *)
(* where the server lock, the row's verdict or the credit changes.         *)
(***************************************************************************)

\* The view of a step that leaves what it is made of.
LEMMA SameView ==
    UNCHANGED <<spender, emitted, status, credited>> => UNCHANGED Promise!vars
BY DEF Promise!vars, CoinView, VerdictView

\* The row's verdict: nothing but the status moves.
LEMMA VerdictStep ==
    ASSUME IInv, IInv', UNCHANGED <<spender, emitted, credited>>,
           status' # status, status \notin Terminal
    PROVE  [Promise!Next]_Promise!vars
<1>1. CoinView' = CoinView /\ VerdictView = "open"
  BY DEF CoinView, VerdictView, IInv, TypeOK
<1>2. CASE status' = "claimed"
  BY <1>1, <1>2 DEF IInv, RowInv, CoinView, VerdictView, Promise!Next,
                    Promise!Decide
<1>3. CASE status' = "refunded"
  BY <1>1, <1>3 DEF IInv, RowInv, CoinView, VerdictView, Promise!Next,
                    Promise!Decide
<1>4. CASE status' \in {"claim_stuck", "expired", "lockup_failed"}
  BY <1>1, <1>4 DEF CoinView, VerdictView, Promise!Next, Promise!Decide
<1>5. CASE status' \notin Terminal
  BY <1>1, <1>5 DEF CoinView, VerdictView, Promise!vars, IInv, TypeOK
<1>. QED
  BY <1>2, <1>3, <1>4, <1>5

\* A task's update of the row is a verdict or a stutter.
LEMMA RowStep ==
    ASSUME IInv, IInv', UNCHANGED <<spender, emitted, credited>>,
           status \in Terminal => status' = status
    PROVE  [Promise!Next]_Promise!vars
BY SameView, VerdictStep

\* A claim that takes the server lock.
LEMMA SendStep ==
    ASSUME IInv, NEW w \in Workers, BroadcastOk(w) \/ BroadcastErrs(w)
    PROVE  [Promise!Next]_Promise!vars
<1>1. UNCHANGED <<status, emitted, credited>> /\ Funded /\ hand[w] \in Claims
  BY DEF BroadcastOk, BroadcastErrs, IInv, TypeOK, KnowledgeInv, HandInv
<1>2. spender' = spender \/ (spender = None /\ spender' = hand[w])
  BY DEF BroadcastOk, BroadcastErrs, Send
<1>3. CASE spender' = spender
  BY <1>1, <1>3, SameView
<1>4. CASE spender = None /\ spender' = hand[w]
  <2>1. CoinView = "locked" /\ CoinView' = "ours"
    BY <1>1, <1>4 DEF CoinView
  <2>. QED
    BY <1>1, <2>1 DEF VerdictView, Promise!Next, Promise!Spend
<1>. QED
  BY <1>2, <1>3, <1>4

\* The payment event of a claimed server lock.
LEMMA CreditStep ==
    ASSUME IInv, NEW w \in Workers, Credit(w)
    PROVE  [Promise!Next]_Promise!vars
<1>1. UNCHANGED <<status, emitted, spender>> /\ spender \in Claims
  BY DEF Credit, IInv, HandInv
<1>2. CASE credited' = credited
  BY <1>1, <1>2, SameView
<1>3. CASE credited' # credited
  <2>1. credited = FALSE /\ credited' = TRUE
    BY <1>3 DEF Credit, IInv, TypeOK
  <2>2. CoinView = "ours" /\ CoinView' = CoinView /\ VerdictView' = VerdictView
    BY <1>1 DEF CoinView, VerdictView
  <2>. QED
    BY <2>1, <2>2 DEF Promise!Next, Promise!Pay
<1>. QED
  BY <1>2, <1>3

\* Boltz locks, refunds, or moves without touching the server lock.
LEMMA BoltzStep ==
    ASSUME IInv, BoltzMoves
    PROVE  [Promise!Next]_Promise!vars
<1>1. /\ UNCHANGED <<status, credited>> /\ emitted' = emitted \cup {boltz'}
      /\ spender' = (IF boltz' = "transaction.refunded" THEN Refund ELSE spender)
      /\ boltz' = "transaction.refunded" => Funded /\ spender = None
  BY DEF BoltzMoves
<1>2. VerdictView' = VerdictView /\ VerdictView # "dead"
  BY <1>1 DEF VerdictView
<1>3. CASE boltz' = "transaction.refunded"
  <2>1. CoinView = "locked" /\ CoinView' = "refunded"
    BY <1>1, <1>3 DEF CoinView
  <2>. QED
    BY <1>1, <1>2, <2>1 DEF Promise!Next, Promise!Spend
<1>4. CASE boltz' = "transaction.server.mempool" /\ ~Funded
  <2>1. CoinView = "none" /\ CoinView' = "locked"
    BY <1>1, <1>4 DEF CoinView, IInv, WorldInv
  <2>. QED
    BY <1>1, <1>2, <2>1 DEF Promise!Next, Promise!Lock
<1>5. CASE boltz' # "transaction.refunded"
           /\ (boltz' = "transaction.server.mempool" => Funded)
  <2>1. CoinView' = CoinView
    BY <1>1, <1>5 DEF CoinView
  <2>. QED
    BY <1>1, <1>2, <2>1 DEF Promise!vars
<1>. QED
  BY <1>3, <1>4, <1>5

\* Every step of a chain swap's tasks is a step of its promise, or none.
THEOREM ImplementsPromise == Spec => KeepsPromise
<1>1. Init => Promise!Init
  BY DEF Init, Promise!Init, CoinView, VerdictView
<1>2. IInv /\ IInv' /\ [Next]_vars => [Promise!Next]_Promise!vars
  <2>. SUFFICES ASSUME IInv, IInv', [Next]_vars
                PROVE  [Promise!Next]_Promise!vars
    OBVIOUS
  <2>1. ASSUME NEW h \in Handlers, Deliver(h) \/ WebhookStep(h)
        PROVE  [Promise!Next]_Promise!vars
    BY <2>1, RowStep
       DEF Deliver, WebhookStep, Lookup, ApplyClaimed, ApplyStatus,
           WebhookFlip
  <2>2. ASSUME NEW w \in Workers, ClaimStep(w)
        PROVE  [Promise!Next]_Promise!vars
    <3>1. CASE BroadcastOk(w) \/ BroadcastErrs(w)
      BY <3>1, SendStep
    <3>2. CASE Credit(w)
      BY <3>2, CreditStep
    <3>3. CASE /\ UNCHANGED <<spender, emitted, credited>>
               /\ status \in Terminal => status' = status
      BY <3>3, RowStep
    <3>. QED
      BY <2>2, <3>1, <3>2, <3>3
         DEF ClaimStep, SkipClaim, Begin, Construct, ConstructFails, Commit,
             Persist, ProbeFinds, ProbeMisses, Won, Settle, Clear, Fail,
             MarkStuck
  <2>3. CASE SweepList \/ CancelInvoice \/ ExpireInvoice \/ TimePasses
    BY <2>3, RowStep DEF SweepList, CancelInvoice, ExpireInvoice, TimePasses
  <2>4. CASE Fault
    BY <2>4, RowStep
       DEF Fault, CallFails, CommitUnacknowledged, Persist, Crash
  <2>5. CASE UNCHANGED vars
    BY <2>5, SameView DEF vars
  <2>. QED
    BY <2>1, <2>2, <2>3, <2>4, <2>5, BoltzStep DEF Next
<1>. QED
  BY <1>1, <1>2, Invariance, PTL DEF Spec, KeepsPromise, Promise!Spec
=============================================================================
