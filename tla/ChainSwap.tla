----------------------------- MODULE ChainSwap -----------------------------
(***************************************************************************)
(* One Bitcoin-to-Liquid chain swap of a checkout: its chain_swap_records  *)
(* row, its invoice, and the tasks that race on both.                      *)
(*                                                                         *)
(*   - webhook handlers (claimer.rs, handle_chain_swap_webhook);           *)
(*   - the background claimer's second list (spawn_background_claimer);    *)
(*   - invoice expiry and cancellation (db/invoices.rs);                   *)
(*   - Boltz, the Liquid chain and the clock, the environment.             *)
(*                                                                         *)
(* The payer locks bitcoin, Boltz then locks L-BTC (the server lock), and  *)
(* the claim of the server lock pays the invoice.  No reconciler looks at  *)
(* chain swaps, and there is no script path: what the webhooks write is    *)
(* all that the claimer knows.                                             *)
(*                                                                         *)
(* Steps and abstractions are those of ReverseSwap: a step is a statement, *)
(* a transaction or a call; a claim is a nonce, since its destination is   *)
(* the invoice's address always and the key path is the only one.          *)
(***************************************************************************)
EXTENDS Naturals

CONSTANTS
    Handlers,      \* concurrent webhook deliveries
    Sweep,         \* the background claimer task
    MaxAttempts,   \* config.claim.max_claim_attempts
    MaxFaults,     \* bound on crashes and failed calls
    BoltzMay,      \* bound on the statuses Boltz goes through
    Claims,        \* the transactions that construct_claim may build
    None,          \* SQL NULL, or an unspent server lock
    Refund         \* Boltz's transaction that takes the server lock back

Workers == Handlers \cup {Sweep}

ASSUME SweepAssumption == Sweep \notin Handlers
ASSUME AttemptsAssumption == MaxAttempts \in Nat \ {0}
ASSUME FaultsAssumption == MaxFaults \in Nat
ASSUME ClaimsAssumption == None \notin Claims /\ Refund \notin Claims /\ None # Refund
ASSUME LockAssumption == None \notin Workers

(***************************************************************************)
(* The values of the columns and of Boltz's statuses.                      *)
(***************************************************************************)
UserLocked == {"user_lock_mempool", "user_lock_confirmed"}

ServerLocked == {"server_lock_mempool", "server_lock_confirmed"}

Terminal == {"claimed", "claim_stuck", "expired", "lockup_failed", "refunded"}

\* No statement writes claim_failed, which the code lists here too.
Claimable == ServerLocked \cup {"claiming"}

ChainSwapStatus == {"pending"} \cup UserLocked \cup Claimable \cup Terminal

BoltzStatus == {"swap.created", "transaction.mempool",
                "transaction.confirmed", "transaction.zeroconf.rejected",
                "transaction.lockupFailed", "transaction.server.mempool",
                "transaction.server.confirmed", "transaction.claimed",
                "transaction.failed", "swap.expired", "transaction.refunded"}

InvoiceStatus == {"unpaid", "in_progress", "paid", "expired", "cancelled"}

SettlementStatus == {"none", "pending", "settled", "claim_stuck"}

Future == {"lease", "backoff"}

VARIABLES
    status, claimTx, claimTxid, attempts, nextAt,
                                    \* the chain_swap_records row
    invStatus, settlement, credited,
                                    \* the invoices row; credited: its
                                    \* bitcoin_boltz_chain event exists
    processed,                      \* webhook_events
    pc, msg, hand, lock,            \* the claiming tasks and their lock
    boltz, emitted,                 \* Boltz's status, and all it ever had
    spender, broadcast, revealed,   \* what spends the server lock, the claims
                                    \* sent, Boltz holds the preimage
    faults

row     == <<status, claimTx, claimTxid, attempts, nextAt>>
invoice == <<invStatus, settlement, credited>>
tasks   == <<pc, msg, hand, lock>>
world   == <<boltz, emitted, spender, broadcast, revealed>>
vars    == <<row, invoice, processed, tasks, world, faults>>

\* No message at hand: a status that no arm acts on.
NoMsg == "swap.created"

\* Boltz has published the server lock.
Funded == "transaction.server.mempool" \in emitted

\* record_chain_swap, for a checkout that is unpaid; the swap is of its whole
\* amount, and nothing else pays it (InvoiceLedger adds payments up).
Init ==
    /\ status = "pending" /\ claimTx = None /\ claimTxid = None
    /\ attempts = 0 /\ nextAt = "null"
    /\ invStatus = "unpaid" /\ settlement = "none" /\ credited = FALSE
    /\ processed = {}
    /\ pc = [w \in Workers |-> "idle"]
    /\ msg = [h \in Handlers |-> NoMsg]
    /\ hand = [w \in Workers |-> None]
    /\ lock = None
    /\ boltz = "swap.created" /\ emitted = {"swap.created"}
    /\ spender = None /\ broadcast = {} /\ revealed = FALSE
    /\ faults = 0

-----------------------------------------------------------------------------
(***************************************************************************)
(* The statements the tasks share.                                         *)
(***************************************************************************)

\* Bug: the status is written through a terminal one.
OverwriteStatus(s) == status' = s

\* update_chain_swap_status: a terminal row is kept, any other is
\* overwritten; callers ignore the number of rows.
UpdateStatus(s) == status' = IF status \in Terminal THEN status ELSE s

\* mark_invoice_settlement_status
MarkSettlement(s) ==
    settlement' = IF invStatus \in {"unpaid", "in_progress"}
                  THEN s ELSE settlement

\* Bug: the payer's lock counts as payment.
FlipPaid ==
    /\ invStatus' = "paid" /\ settlement' = "settled" /\ credited' = TRUE

\* flip_invoice_on_bitcoin_boltz_in_progress
FlipInProgress ==
    /\ invStatus' = IF invStatus = "unpaid" THEN "in_progress" ELSE invStatus
    /\ MarkSettlement("pending")
    /\ UNCHANGED credited

Goto(w, label) == pc' = [pc EXCEPT ![w] = label]

\* A task's claim and message die with its call.
Forget(w) == hand' = [hand EXCEPT ![w] = None]

ForgetMsg(h) == msg' = [msg EXCEPT ![h] = NoMsg]

-----------------------------------------------------------------------------
(***************************************************************************)
(* Webhook handlers.                                                       *)
(***************************************************************************)

\* try_record_webhook_event commits first and drops a repetition.
Deliver(h) ==
    /\ pc[h] = "idle"
    /\ \E s \in emitted \ ({"swap.created"} \cup processed) :
         /\ processed' = processed \cup {s}
         /\ msg' = [msg EXCEPT ![h] = s]
    /\ Goto(h, "received")
    /\ UNCHANGED <<row, invoice, hand, lock, world, faults>>

\* get_chain_swap_by_boltz_id, and the early return on a terminal row.
Lookup(h) ==
    /\ pc[h] = "received"
    /\ IF status \in Terminal
       THEN Goto(h, "idle") /\ ForgetMsg(h)
       ELSE Goto(h, "apply") /\ UNCHANGED msg
    /\ UNCHANGED <<row, invoice, processed, hand, lock, world, faults>>

\* chain_swap_status_from_boltz_status
StatusFromBoltz(s) ==
    CASE s = "transaction.mempool"          -> "user_lock_mempool"
      [] s = "transaction.confirmed"        -> "user_lock_confirmed"
      [] s = "transaction.server.mempool"   -> "server_lock_mempool"
      [] s = "transaction.server.confirmed" -> "server_lock_confirmed"
      [] s = "swap.expired"                 -> "expired"
      [] s = "transaction.refunded"         -> "refunded"
      [] OTHER                              -> "lockup_failed"

\* Bug: Boltz's word on its own claim closes the row.
ApplyClaimedFinal(h) ==
    /\ pc[h] = "apply"
    /\ msg[h] = "transaction.claimed"
    /\ UpdateStatus("claimed")
    /\ Goto(h, "idle")
    /\ ForgetMsg(h)
    /\ UNCHANGED <<claimTx, claimTxid, attempts, nextAt, invoice, processed,
                   hand, lock, world, faults>>

\* transaction.claimed writes nothing: it prompts another attempt, for the
\* claim remains the only source of the invoice's accounting.
ApplyClaimed(h) ==
    /\ pc[h] = "apply"
    /\ msg[h] = "transaction.claimed"
    /\ Goto(h, "called")
    /\ ForgetMsg(h)
    /\ UNCHANGED <<row, invoice, processed, hand, lock, world, faults>>

\* Every other status is written; the four locks go on to the invoice.
ApplyStatus(h) ==
    /\ pc[h] = "apply"
    /\ msg[h] # "transaction.claimed"
    /\ UpdateStatus(StatusFromBoltz(msg[h]))
    /\ IF StatusFromBoltz(msg[h]) \in UserLocked \cup ServerLocked
       THEN Goto(h, "flip") /\ UNCHANGED msg
       ELSE Goto(h, "idle") /\ ForgetMsg(h)
    /\ UNCHANGED <<claimTx, claimTxid, attempts, nextAt, invoice, processed,
                   hand, lock, world, faults>>

\* A server lock is claimed inline, a user lock is only shown.
AfterFlip(h) ==
    IF StatusFromBoltz(msg[h]) \in ServerLocked THEN "called" ELSE "idle"

WebhookFlip(h) ==
    /\ pc[h] = "flip"
    /\ FlipInProgress
    /\ Goto(h, AfterFlip(h))
    /\ ForgetMsg(h)
    /\ UNCHANGED <<row, processed, hand, lock, world, faults>>

WebhookStep(h) ==
    \/ Lookup(h) \/ ApplyClaimed(h) \/ ApplyStatus(h) \/ WebhookFlip(h)

-----------------------------------------------------------------------------
(***************************************************************************)
(* claim_chain_swap, run by a webhook handler or the background claimer.   *)
(***************************************************************************)

\* Bug: a claim under way is taken for another task's business.
SweepListUnclaimed ==
    /\ pc[Sweep] = "idle"
    /\ status \in ServerLocked
    /\ nextAt \in {"null", "due"}
    /\ Goto(Sweep, "called")
    /\ UNCHANGED <<row, invoice, processed, msg, hand, lock, world, faults>>

\* get_ready_to_claim_chain_swaps
SweepList ==
    /\ pc[Sweep] = "idle"
    /\ status \in Claimable
    /\ nextAt \in {"null", "due"}
    /\ Goto(Sweep, "called")
    /\ UNCHANGED <<row, invoice, processed, msg, hand, lock, world, faults>>

\* SkippedLockHeld, or AlreadyTerminal, which any status but a claimable one
\* is answered with: not an attempt.
SkipClaim(w) ==
    /\ pc[w] = "called"
    /\ lock # None \/ status \notin Claimable
    /\ Goto(w, "idle")
    /\ UNCHANGED <<row, invoice, processed, msg, hand, lock, world, faults>>

\* Bug: no lock is taken.
BeginUnlocked(w) ==
    /\ pc[w] = "called"
    /\ status \in Claimable
    /\ hand' = [hand EXCEPT ![w] = claimTx]
    /\ Goto(w, IF claimTx = None THEN "construct" ELSE "commit")
    /\ UNCHANGED <<row, invoice, processed, msg, lock, world, faults>>

\* pg_try_advisory_xact_lock on chain-claim:<id>; the row is read under it.
Begin(w) ==
    /\ pc[w] = "called"
    /\ lock = None
    /\ status \in Claimable
    /\ lock' = w
    /\ hand' = [hand EXCEPT ![w] = claimTx]
    /\ Goto(w, IF claimTx = None THEN "construct" ELSE "commit")
    /\ UNCHANGED <<row, invoice, processed, msg, world, faults>>

\* construct_chain_claim_tx: every call yields another transaction, and
\* hands Boltz the preimage.
Construct(w) ==
    /\ pc[w] = "construct"
    /\ \E t \in Claims : hand' = [hand EXCEPT ![w] = t]
    /\ revealed' = TRUE
    /\ Goto(w, "commit")
    /\ UNCHANGED <<row, invoice, processed, msg, lock, boltz, emitted,
                   spender, broadcast, faults>>

\* It fails: Boltz refuses or is unreachable.  Boltz may have the preimage.
ConstructFails(w) ==
    /\ pc[w] = "construct"
    /\ revealed' \in {revealed, TRUE}
    /\ lock' = None
    /\ Goto(w, "failed")
    /\ UNCHANGED <<row, invoice, processed, msg, hand, boltz, emitted,
                   spender, broadcast, faults>>

\* Bug: the claim is sent without being kept.
PersistNothing(w) ==
    /\ UpdateStatus("claiming")
    /\ nextAt' = IF status \in Terminal THEN nextAt ELSE "lease"
    /\ lock' = None
    /\ UNCHANGED <<claimTx, claimTxid, attempts>>

\* The two updates that the claim transaction commits.
Persist(w) ==
    /\ claimTx' = IF claimTx = None THEN hand[w] ELSE claimTx
    /\ claimTxid' = IF claimTx = None THEN hand[w] ELSE claimTxid
    /\ UpdateStatus("claiming")
    /\ nextAt' = IF status \in Terminal THEN nextAt ELSE "lease"
    /\ lock' = None
    /\ UNCHANGED attempts

Commit(w) ==
    /\ pc[w] = "commit"
    /\ Persist(w)
    /\ Goto(w, "broadcast")
    /\ UNCHANGED <<invoice, processed, msg, hand, world, faults>>

\* A claim reaches the network when the server lock is unspent.
Send(t) ==
    /\ broadcast' = broadcast \cup {t}
    /\ spender' = IF spender = None THEN t ELSE spender

BroadcastOk(w) ==
    /\ pc[w] = "broadcast"
    /\ spender \in {None, hand[w]}
    /\ Send(hand[w])
    /\ Goto(w, "won")
    /\ UNCHANGED <<row, invoice, processed, msg, hand, lock, boltz, emitted,
                   revealed, faults>>

\* An error, though the claim may have been accepted.
BroadcastErrs(w) ==
    /\ pc[w] = "broadcast"
    /\ \/ Send(hand[w])
       \/ broadcast' = broadcast \cup {hand[w]} /\ UNCHANGED spender
    /\ Goto(w, "probe")
    /\ UNCHANGED <<row, invoice, processed, msg, hand, lock, boltz, emitted,
                   revealed, faults>>

\* tx_exists, then recover_claim_from_lockup_spend.
ProbeFinds(w) ==
    /\ pc[w] = "probe"
    /\ spender \in Claims
    /\ hand' = [hand EXCEPT ![w] = spender]
    /\ Goto(w, "won")
    /\ UNCHANGED <<row, invoice, processed, msg, lock, world, faults>>

\* Bug: an error of the broadcast is taken for "already known".
ProbeAssumes(w) ==
    /\ pc[w] = "probe"
    /\ Goto(w, "won")
    /\ UNCHANGED <<row, invoice, processed, msg, hand, lock, world, faults>>

\* Nothing found, a foreign spender, or the probe itself failed.
ProbeMisses(w) ==
    /\ pc[w] = "probe"
    /\ Goto(w, "failed")
    /\ Forget(w)
    /\ UNCHANGED <<row, invoice, processed, msg, lock, world, faults>>

\* update_chain_swap_status(Claimed, txid); the row count is ignored.
Won(w) ==
    /\ pc[w] = "won"
    /\ UpdateStatus("claimed")
    /\ claimTxid' = IF status \in Terminal THEN claimTxid ELSE hand[w]
    /\ Goto(w, "clear")
    /\ Forget(w)
    /\ UNCHANGED <<claimTx, attempts, nextAt, invoice, processed, msg, lock,
                   world, faults>>

\* clear_chain_swap_claim_failure_state has no guard on the status.
Clear(w) ==
    /\ pc[w] = "clear"
    /\ nextAt' = "null"
    /\ Goto(w, "settle")
    /\ UNCHANGED <<status, claimTx, claimTxid, attempts, invoice, processed,
                   msg, hand, lock, world, faults>>

Settle(w) ==
    /\ pc[w] = "settle"
    /\ MarkSettlement("settled")
    /\ Goto(w, "credit")
    /\ UNCHANGED <<row, invStatus, credited, processed, msg, hand, lock,
                   world, faults>>

\* flip_invoice_on_bitcoin_boltz_settlement: record_invoice_payment inserts
\* the event once, also for an expired invoice, not for a cancelled one.
Credit(w) ==
    /\ pc[w] = "credit"
    /\ IF invStatus = "cancelled" \/ credited
       THEN UNCHANGED invoice
       ELSE credited' = TRUE /\ invStatus' = "paid" /\ settlement' = "settled"
    /\ Goto(w, "idle")
    /\ UNCHANGED <<row, processed, msg, hand, lock, world, faults>>

\* Bug: failures are counted on closed rows too.
FailClosed(w) ==
    /\ pc[w] = "failed"
    /\ attempts' = attempts + 1
    /\ nextAt' = "backoff"
    /\ IF attempts + 1 >= MaxAttempts
       THEN status' = "claim_stuck" /\ Goto(w, "stuck")
       ELSE status' = status /\ Goto(w, "idle")
    /\ UNCHANGED <<claimTx, claimTxid, invoice, processed, msg, hand, lock,
                   world, faults>>

\* record_chain_swap_claim_failure
Fail(w) ==
    /\ pc[w] = "failed"
    /\ IF status \in Terminal
       THEN UNCHANGED <<status, attempts, nextAt>> /\ Goto(w, "idle")
       ELSE /\ attempts' = attempts + 1
            /\ nextAt' = "backoff"
            /\ IF attempts + 1 >= MaxAttempts
               THEN status' = "claim_stuck" /\ Goto(w, "stuck")
               ELSE status' = status /\ Goto(w, "idle")
    /\ UNCHANGED <<claimTx, claimTxid, invoice, processed, msg, hand, lock,
                   world, faults>>

MarkStuck(w) ==
    /\ pc[w] = "stuck"
    /\ MarkSettlement("claim_stuck")
    /\ Goto(w, "idle")
    /\ UNCHANGED <<row, invStatus, credited, processed, msg, hand, lock,
                   world, faults>>

ClaimStep(w) ==
    \/ SkipClaim(w) \/ Begin(w)
    \/ Construct(w) \/ ConstructFails(w) \/ Commit(w)
    \/ BroadcastOk(w) \/ BroadcastErrs(w) \/ ProbeFinds(w) \/ ProbeMisses(w)
    \/ Won(w) \/ Clear(w) \/ Settle(w) \/ Credit(w)
    \/ Fail(w) \/ MarkStuck(w)

-----------------------------------------------------------------------------
(***************************************************************************)
(* The invoice's deadline and cancellation, the clock, Boltz, and faults.  *)
(***************************************************************************)

CancelInvoice ==
    /\ invStatus = "unpaid"
    /\ invStatus' = "cancelled"
    /\ UNCHANGED <<row, settlement, credited, processed, tasks, world, faults>>

ExpireInvoice ==
    /\ invStatus \in {"unpaid", "in_progress"}
    /\ invStatus' = "expired"
    /\ UNCHANGED <<row, settlement, credited, processed, tasks, world, faults>>

\* A lease or a backoff runs out.
TimePasses ==
    /\ nextAt \in Future
    /\ nextAt' = "due"
    /\ UNCHANGED <<status, claimTx, claimTxid, attempts, invoice, processed,
                   tasks, world, faults>>

\* The server lock follows the payer's; a payment that is not accepted
\* unconfirmed is awaited; past its timeout the server lock may be taken back.
BoltzNext(s) ==
    CASE s = "swap.created" -> {"transaction.mempool", "swap.expired"}
      [] s = "transaction.mempool" ->
           {"transaction.zeroconf.rejected", "transaction.confirmed",
            "transaction.lockupFailed", "transaction.server.mempool"}
      [] s = "transaction.zeroconf.rejected" ->
           {"transaction.confirmed", "swap.expired"}
      [] s = "transaction.confirmed" ->
           {"transaction.server.mempool", "transaction.lockupFailed",
            "transaction.failed", "swap.expired"}
      [] s = "transaction.server.mempool" ->
           {"transaction.server.confirmed", "transaction.claimed",
            "swap.expired"}
      [] s = "transaction.server.confirmed" ->
           {"transaction.claimed", "swap.expired"}
      [] s = "swap.expired" -> {"transaction.claimed", "transaction.refunded"}
      [] OTHER -> {}

BoltzMoves ==
    /\ boltz' \in BoltzNext(boltz) \cap BoltzMay
    /\ boltz' = "transaction.claimed" => revealed \/ spender \in Claims
    /\ boltz' = "transaction.refunded" => Funded /\ spender = None
    /\ emitted' = emitted \cup {boltz'}
    /\ spender' = IF boltz' = "transaction.refunded" THEN Refund ELSE spender
    /\ UNCHANGED <<row, invoice, processed, tasks, broadcast, revealed, faults>>

\* Where a task goes when the call it is about to make fails.
AfterError(w) ==
    CASE pc[w] \in {"received", "apply"} -> "idle"
      [] pc[w] = "flip" -> AfterFlip(w)
      [] pc[w] \in {"called", "construct", "commit", "won"} -> "failed"
      [] pc[w] = "clear" -> "settle"
      [] pc[w] = "settle" -> "credit"
      [] pc[w] \in {"credit", "failed", "stuck"} -> "idle"
      [] OTHER -> pc[w]

CallFails(w) ==
    /\ faults < MaxFaults
    /\ AfterError(w) # pc[w]
    /\ Goto(w, AfterError(w))
    /\ lock' = IF lock = w THEN None ELSE lock
    /\ Forget(w)
    /\ IF w \in Handlers THEN ForgetMsg(w) ELSE UNCHANGED msg
    /\ faults' = faults + 1
    /\ UNCHANGED <<row, invoice, processed, world>>

\* COMMIT took effect but its answer was lost.
CommitUnacknowledged(w) ==
    /\ faults < MaxFaults
    /\ pc[w] = "commit"
    /\ Persist(w)
    /\ Goto(w, "failed")
    /\ Forget(w)
    /\ faults' = faults + 1
    /\ UNCHANGED <<invoice, processed, msg, world>>

\* The process dies and restarts.
Crash ==
    /\ faults < MaxFaults
    /\ pc' = [w \in Workers |-> "idle"]
    /\ msg' = [h \in Handlers |-> NoMsg]
    /\ hand' = [w \in Workers |-> None]
    /\ lock' = None
    /\ faults' = faults + 1
    /\ UNCHANGED <<row, invoice, processed, world>>

Fault ==
    \/ \E w \in Workers : CallFails(w) \/ CommitUnacknowledged(w)
    \/ Crash

Next ==
    \/ \E h \in Handlers : Deliver(h) \/ WebhookStep(h)
    \/ SweepList
    \/ \E w \in Workers : ClaimStep(w)
    \/ CancelInvoice \/ ExpireInvoice
    \/ TimePasses
    \/ BoltzMoves
    \/ Fault

Spec == Init /\ [][Next]_vars

(***************************************************************************)
(* As for reverse swaps: started tasks run on, the sweep and the clock     *)
(* tick; nothing obliges Boltz to deliver or to move.                      *)
(***************************************************************************)
Fairness ==
    /\ \A h \in Handlers : WF_vars(WebhookStep(h))
    /\ \A w \in Workers : WF_vars(ClaimStep(w))
    /\ WF_vars(SweepList)
    /\ WF_vars(TimePasses)

FairSpec == Spec /\ Fairness
=============================================================================
