---------------------------- MODULE ReverseSwap ----------------------------
(***************************************************************************)
(* One Lightning-to-Liquid reverse swap: its swap_records row, the invoice *)
(* it may pay, and the tasks that race on both.                            *)
(*                                                                         *)
(*   - webhook handlers (claimer.rs, dispatch_webhook), one per delivery;  *)
(*   - the background claimer (claimer.rs, spawn_background_claimer);      *)
(*   - the reconciler (reconciler.rs, run_one_tick);                       *)
(*   - invoice expiry and cancellation (db/invoices.rs);                   *)
(*   - Boltz, the Liquid chain and the clock, the environment.             *)
(*                                                                         *)
(* A step is one database statement or transaction, or one call to Boltz   *)
(* or Electrum: between two of them every other task may run, and the      *)
(* process may crash.  A claim holds the advisory lock claim:<swap_id>     *)
(* from Begin to Commit, so these are separate steps too.                  *)
(*                                                                         *)
(* Abstractions.  A transaction is its destination, its spending path and  *)
(* a nonce (construct_claim blinds and signs afresh at every call); a      *)
(* transaction stands for its txid.  next_claim_attempt_at is reduced to   *)
(* what the queries compare: NULL, due, or in the future, where a future   *)
(* value remembers whether it is the in-flight lease or a backoff.         *)
(***************************************************************************)
EXTENDS Naturals

CONSTANTS
    Handlers,      \* concurrent webhook deliveries
    Sweep,         \* the background claimer task
    MaxAttempts,   \* config.claim.max_claim_attempts
    MaxFaults,     \* bound on crashes and failed database or Boltz calls
    Addrs,         \* Liquid addresses
    InvoiceAddr,   \* invoices.liquid_address
    BoltzMay,      \* bound on the statuses Boltz goes through
    Invoices,      \* how a swap starts: with no invoice, an unpaid one
    Nonces,        \* what makes two constructions of a claim differ
    None,          \* SQL NULL, or an unspent lockup
    Refund         \* Boltz's transaction that takes the lockup back

Workers == Handlers \cup {Sweep}

Tx == [dest : Addrs, path : {"cooperative", "script"}, nonce : Nonces]

ASSUME SweepAssumption == Sweep \notin Handlers
ASSUME InvoicesAssumption == Invoices \subseteq {"absent", "unpaid"}
ASSUME AttemptsAssumption == MaxAttempts \in Nat \ {0}
ASSUME FaultsAssumption == MaxFaults \in Nat
ASSUME AddrAssumption == InvoiceAddr \in Addrs /\ None \notin Addrs
ASSUME TxAssumption == None \notin Tx /\ Refund \notin Tx /\ None # Refund
ASSUME LockAssumption == None \notin Workers

(***************************************************************************)
(* The values of the columns and of Boltz's statuses.                      *)
(***************************************************************************)
SwapStatus == {"pending", "lockup_mempool", "lockup_confirmed", "claiming",
               "claimed", "expired", "claim_stuck", "lockup_refunded"}

Terminal == {"claimed", "expired", "claim_stuck", "lockup_refunded"}

Claimable == {"lockup_mempool", "lockup_confirmed", "claiming"}

BoltzStatus == {"swap.created", "transaction.mempool",
                "transaction.confirmed", "invoice.settled", "swap.expired",
                "invoice.expired", "transaction.failed",
                "transaction.refunded"}

InvoiceStatus == {"absent", "unpaid", "in_progress", "paid", "expired",
                  "cancelled"}

SettlementStatus == {"none", "pending", "settled", "claim_stuck", "refunded"}

Future == {"lease", "backoff"}

ReconcilerAction == {"Noop", "AdvanceToLockupMempool",
                     "AdvanceToLockupConfirmed", "ScheduleImmediateClaim",
                     "ScheduleScriptPathRetry", "MarkExpired",
                     "MarkLockupRefunded"}

VARIABLES
    status, claimTx, claimTxid, attempts, nextAt, coopRefused, address,
                                    \* the swap_records row
    invStatus, settlement, credited,
                                    \* the invoices row; credited: its
                                    \* lightning_boltz_reverse event exists
    processed,                      \* webhook_events
    pc, msg, hand, coop, lock,      \* the claiming tasks and their lock
    rpc, rstatus, raction,          \* the reconciler tick
    boltz, emitted,                 \* Boltz's status, and all it ever had
    spender, broadcast, revealed,   \* what spends the lockup, the claims
                                    \* sent, Boltz holds the preimage
    faults

row     == <<status, claimTx, claimTxid, attempts, nextAt, coopRefused,
             address>>
invoice == <<invStatus, settlement, credited>>
tasks   == <<pc, msg, hand, coop, lock>>
recon   == <<rpc, rstatus, raction>>
world   == <<boltz, emitted, spender, broadcast, revealed>>
vars    == <<row, invoice, processed, tasks, recon, world, faults>>

\* No message at hand: a status no handler acts on.
NoMsg == "swap.created"

\* Boltz has published the lockup transaction.
Funded == "transaction.mempool" \in emitted

(***************************************************************************)
(* record_swap inserts the row as pending with no claim state; an invoice  *)
(* offer links it to an unpaid invoice, an LNURL payment to none.          *)
(***************************************************************************)
Init ==
    /\ status = "pending" /\ claimTx = None /\ claimTxid = None
    /\ attempts = 0 /\ nextAt = "null" /\ coopRefused = FALSE
    /\ address = None
    /\ invStatus \in Invoices
    /\ settlement = "none" /\ credited = FALSE
    /\ processed = {}
    /\ pc = [w \in Workers |-> "idle"]
    /\ msg = [h \in Handlers |-> NoMsg]
    /\ hand = [w \in Workers |-> None]
    /\ coop = [w \in Workers |-> FALSE]
    /\ lock = None
    /\ rpc = "idle" /\ rstatus = "pending" /\ raction = "Noop"
    /\ boltz = "swap.created" /\ emitted = {"swap.created"}
    /\ spender = None /\ broadcast = {} /\ revealed = FALSE
    /\ faults = 0

-----------------------------------------------------------------------------
(***************************************************************************)
(* The statements the tasks share.  Each gives the new values of the       *)
(* columns it writes.                                                      *)
(***************************************************************************)

\* Bug: the status is written through a terminal one.
OverwriteStatus(s) == status' = s

\* update_swap_status: forward-only, a row in a terminal status is kept.
\* Callers ignore the number of rows, so 0 rows and 1 row look alike.
UpdateStatus(s) == status' = IF status \in Terminal THEN status ELSE s

\* Bug: the settlement mark ignores the invoice's status.
MarkAnySettlement(s) == settlement' = s

\* The WHERE clause of mark_invoice_settlement_status and its _for_swap
\* variant; with no invoice they do nothing.
MarkSettlement(s) ==
    settlement' = IF invStatus \in {"unpaid", "in_progress"}
                  THEN s ELSE settlement

\* Bug: the sight of a lockup counts as payment.
FlipPaid ==
    /\ invStatus' = "paid" /\ settlement' = "settled" /\ credited' = TRUE

\* flip_invoice_on_lightning_in_progress: an unpaid invoice moves to
\* in_progress; for any other, the settlement status alone is set.
FlipInProgress ==
    /\ invStatus' = IF invStatus = "unpaid" THEN "in_progress" ELSE invStatus
    /\ MarkSettlement("pending")
    /\ UNCHANGED credited

\* schedule_immediate_claim and schedule_script_path_retry: a future lease
\* of a claiming row is kept (a longer backoff is clamped to it).
Nudge ==
    nextAt' = IF status \in Terminal THEN nextAt
              ELSE IF status = "claiming" /\ nextAt \in Future THEN "lease"
              ELSE "due"

\* The one-way flag of mark_cooperative_refused.
MarkCooperativeRefused ==
    coopRefused' = (coopRefused \/ status \notin Terminal)

Goto(w, label) == pc' = [pc EXCEPT ![w] = label]

\* A task's locals die with the call they belong to.
Forget(w) ==
    /\ hand' = [hand EXCEPT ![w] = None]
    /\ coop' = [coop EXCEPT ![w] = FALSE]

ForgetMsg(h) == msg' = [msg EXCEPT ![h] = NoMsg]

-----------------------------------------------------------------------------
(***************************************************************************)
(* Webhook handlers.                                                       *)
(***************************************************************************)

\* Boltz posts a status it has had.  Deliveries may be late, lost or out of
\* order; the webhook_events insert, committed first, drops a repetition.
Deliver(h) ==
    /\ pc[h] = "idle"
    /\ \E s \in emitted \ ({"swap.created"} \cup processed) :
         /\ processed' = processed \cup {s}
         /\ msg' = [msg EXCEPT ![h] = s]
    /\ Goto(h, "received")
    /\ UNCHANGED <<row, invoice, hand, coop, lock, recon, world, faults>>

\* get_swap_by_boltz_id, and the early return on a terminal row.
Lookup(h) ==
    /\ pc[h] = "received"
    /\ IF status \in Terminal
       THEN Goto(h, "idle") /\ ForgetMsg(h)
       ELSE Goto(h, "apply") /\ UNCHANGED msg
    /\ UNCHANGED <<row, invoice, processed, hand, coop, lock, recon,
                   world, faults>>

\* transaction.mempool and transaction.confirmed: the lockup was seen.
ApplyLockup(h) ==
    /\ pc[h] = "apply"
    /\ \/ msg[h] = "transaction.mempool" /\ UpdateStatus("lockup_mempool")
       \/ msg[h] = "transaction.confirmed" /\ UpdateStatus("lockup_confirmed")
    /\ Goto(h, "flip")
    /\ ForgetMsg(h)
    /\ UNCHANGED <<claimTx, claimTxid, attempts, nextAt, coopRefused, address,
                   invoice, processed, hand, coop, lock, recon, world,
                   faults>>

\* The invoice shows the payment; then the handler claims inline.
WebhookFlip(h) ==
    /\ pc[h] = "flip"
    /\ FlipInProgress
    /\ Goto(h, "called")
    /\ UNCHANGED <<row, processed, msg, hand, coop, lock, recon, world,
                   faults>>

\* Bug: swap.expired closes the row.
ApplySwapExpiredFinal(h) ==
    /\ pc[h] = "apply"
    /\ msg[h] = "swap.expired"
    /\ UpdateStatus("expired")
    /\ Goto(h, "idle")
    /\ ForgetMsg(h)
    /\ UNCHANGED <<claimTx, claimTxid, attempts, nextAt, coopRefused, address,
                   invoice, processed, hand, coop, lock, recon, world,
                   faults>>

\* swap.expired: only the cooperative path is lost, the row stays open.
ApplySwapExpired(h) ==
    /\ pc[h] = "apply"
    /\ msg[h] = "swap.expired"
    /\ MarkCooperativeRefused
    /\ Goto(h, "idle")
    /\ ForgetMsg(h)
    /\ UNCHANGED <<status, claimTx, claimTxid, attempts, nextAt, address,
                   invoice, processed, hand, coop, lock, recon, world,
                   faults>>

\* transaction.failed and invoice.expired: there is nothing to claim.
ApplyDead(h) ==
    /\ pc[h] = "apply"
    /\ msg[h] \in {"transaction.failed", "invoice.expired"}
    /\ UpdateStatus("expired")
    /\ Goto(h, "idle")
    /\ ForgetMsg(h)
    /\ UNCHANGED <<claimTx, claimTxid, attempts, nextAt, coopRefused, address,
                   invoice, processed, hand, coop, lock, recon, world,
                   faults>>

\* transaction.refunded: Boltz took the lockup back.
ApplyRefunded(h) ==
    /\ pc[h] = "apply"
    /\ msg[h] = "transaction.refunded"
    /\ UpdateStatus("lockup_refunded")
    /\ Goto(h, "refund")
    /\ ForgetMsg(h)
    /\ UNCHANGED <<claimTx, claimTxid, attempts, nextAt, coopRefused, address,
                   invoice, processed, hand, coop, lock, recon, world,
                   faults>>

WebhookMarkRefunded(h) ==
    /\ pc[h] = "refund"
    /\ MarkSettlement("refunded")
    /\ Goto(h, "idle")
    /\ UNCHANGED <<row, invStatus, credited, processed, msg, hand, coop, lock,
                   recon, world, faults>>

\* invoice.settled is logged only.
ApplyIgnored(h) ==
    /\ pc[h] = "apply"
    /\ msg[h] = "invoice.settled"
    /\ Goto(h, "idle")
    /\ ForgetMsg(h)
    /\ UNCHANGED <<row, invoice, processed, hand, coop, lock, recon,
                   world, faults>>

WebhookStep(h) ==
    \/ Lookup(h) \/ ApplyLockup(h) \/ WebhookFlip(h) \/ ApplySwapExpired(h)
    \/ ApplyDead(h) \/ ApplyRefunded(h) \/ WebhookMarkRefunded(h)
    \/ ApplyIgnored(h)

-----------------------------------------------------------------------------
(***************************************************************************)
(* claim_swap, run by a webhook handler or by the background claimer.      *)
(***************************************************************************)

\* Bug: only rows without a claim are swept ("Do not filter on claim_txid").
SweepListUntried ==
    /\ pc[Sweep] = "idle"
    /\ status \in Claimable
    /\ claimTxid = None
    /\ nextAt \in {"null", "due"}
    /\ Goto(Sweep, "called")
    /\ UNCHANGED <<row, invoice, processed, msg, hand, coop, lock, recon,
                   world, faults>>

\* get_ready_to_claim_swaps: the row is claimable and its retry is due.
\* The claim itself starts later, from the id alone.
SweepList ==
    /\ pc[Sweep] = "idle"
    /\ status \in Claimable
    /\ nextAt \in {"null", "due"}
    /\ Goto(Sweep, "called")
    /\ UNCHANGED <<row, invoice, processed, msg, hand, coop, lock, recon,
                   world, faults>>

\* SkippedLockHeld and AlreadyTerminal: not an attempt.
SkipClaim(w) ==
    /\ pc[w] = "called"
    /\ lock # None \/ status \in Terminal
    /\ Goto(w, "idle")
    /\ UNCHANGED <<row, invoice, processed, msg, hand, coop, lock, recon,
                   world, faults>>

\* Bug: no lock is taken.
BeginUnlocked(w) ==
    /\ pc[w] = "called"
    /\ status \notin Terminal
    /\ hand' = [hand EXCEPT ![w] = claimTx]
    /\ coop' = [coop EXCEPT ![w] = claimTx = None /\ ~coopRefused]
    /\ Goto(w, "resolve")
    /\ UNCHANGED <<row, invoice, processed, msg, lock, recon, world, faults>>

\* pg_try_advisory_xact_lock, then the row is read under the lock.
Begin(w) ==
    /\ pc[w] = "called"
    /\ lock = None
    /\ status \notin Terminal
    /\ lock' = w
    /\ hand' = [hand EXCEPT ![w] = claimTx]
    /\ coop' = [coop EXCEPT ![w] = claimTx = None /\ ~coopRefused]
    /\ Goto(w, "resolve")
    /\ UNCHANGED <<row, invoice, processed, msg, recon, world, faults>>

\* Bug: every attempt allocates an address.
ResolveAgain(w) ==
    /\ pc[w] = "resolve"
    /\ address' \in Addrs
    /\ Goto(w, IF hand[w] = None THEN "construct" ELSE "commit")
    /\ UNCHANGED <<status, claimTx, claimTxid, attempts, nextAt, coopRefused,
                   invoice, processed, msg, hand, coop, lock, recon, world,
                   faults>>

\* resolve_claim_address: the cached address, the invoice's, or a fresh one
\* of the user's descriptor; written in a transaction of its own.
Resolve(w) ==
    /\ pc[w] = "resolve"
    /\ address' \in IF address # None THEN {address}
                    ELSE IF invStatus # "absent" THEN {InvoiceAddr}
                    ELSE Addrs
    /\ Goto(w, IF hand[w] = None THEN "construct" ELSE "commit")
    /\ UNCHANGED <<status, claimTx, claimTxid, attempts, nextAt, coopRefused,
                   invoice, processed, msg, hand, coop, lock, recon, world,
                   faults>>

\* construct_claim_tx: every call yields another transaction.  The
\* cooperative path hands Boltz the preimage.
Construct(w) ==
    /\ pc[w] = "construct"
    /\ \E n \in Nonces :
         hand' = [hand EXCEPT ![w] =
                    [dest |-> address, nonce |-> n,
                     path |-> IF coop[w] THEN "cooperative" ELSE "script"]]
    /\ revealed' = (revealed \/ coop[w])
    /\ coop' = [coop EXCEPT ![w] = FALSE]
    /\ Goto(w, "commit")
    /\ UNCHANGED <<row, invoice, processed, msg, lock, recon, boltz,
                   emitted, spender, broadcast, faults>>

\* Boltz refuses to sign (is_cooperative_refusal): the flag is set from
\* another connection and the attempt fails, which drops the lock.
ConstructRefused(w) ==
    /\ pc[w] = "construct"
    /\ coop[w]
    /\ MarkCooperativeRefused
    /\ lock' = None
    /\ Goto(w, "failed")
    /\ Forget(w)
    /\ UNCHANGED <<status, claimTx, claimTxid, attempts, nextAt, address,
                   invoice, processed, msg, recon, world, faults>>

\* Any other failure: Boltz or Electrum unreachable, no such output.  Boltz
\* may have received the preimage all the same.
ConstructFails(w) ==
    /\ pc[w] = "construct"
    /\ revealed' \in {revealed, revealed \/ coop[w]}
    /\ lock' = None
    /\ Goto(w, "failed")
    /\ Forget(w)
    /\ UNCHANGED <<row, invoice, processed, msg, recon, boltz,
                   emitted, spender, broadcast, faults>>

\* Bug: the claim is sent without being kept.
PersistNothing(w) ==
    /\ UpdateStatus("claiming")
    /\ nextAt' = IF status \in Terminal THEN nextAt ELSE "lease"
    /\ lock' = None
    /\ UNCHANGED <<claimTx, claimTxid, attempts, coopRefused, address>>

\* The two updates that the claim transaction commits: the claim is kept
\* before it is ever sent, and an open row becomes claiming under a lease.
Persist(w) ==
    /\ claimTx' = IF claimTx = None THEN hand[w] ELSE claimTx
    /\ claimTxid' = IF claimTx = None THEN hand[w] ELSE claimTxid
    /\ UpdateStatus("claiming")
    /\ nextAt' = IF status \in Terminal THEN nextAt ELSE "lease"
    /\ lock' = None
    /\ UNCHANGED <<attempts, coopRefused, address>>

Commit(w) ==
    /\ pc[w] = "commit"
    /\ Persist(w)
    /\ Goto(w, "broadcast")
    /\ UNCHANGED <<invoice, processed, msg, hand, coop, recon, world, faults>>

\* A claim reaches the network when the lockup is unspent.
Send(t) ==
    /\ broadcast' = broadcast \cup {t}
    /\ spender' = IF spender = None THEN t ELSE spender

\* try_broadcast_tx returns Ok: the claim is on the network, now or before.
BroadcastOk(w) ==
    /\ pc[w] = "broadcast"
    /\ spender \in {None, hand[w]}
    /\ Send(hand[w])
    /\ Goto(w, "won")
    /\ UNCHANGED <<row, invoice, processed, msg, hand, coop, lock, recon,
                   boltz, emitted, revealed, faults>>

\* It returns an error, though the claim may have been accepted.
BroadcastErrs(w) ==
    /\ pc[w] = "broadcast"
    /\ \/ Send(hand[w])
       \/ broadcast' = broadcast \cup {hand[w]} /\ UNCHANGED spender
    /\ Goto(w, "probe")
    /\ UNCHANGED <<row, invoice, processed, msg, hand, coop, lock, recon,
                   boltz, emitted, revealed, faults>>

\* tx_exists, then recover_claim_from_lockup_spend: the lockup is spent by
\* our claim or by one that pays the same destination.
ProbeFinds(w) ==
    /\ pc[w] = "probe"
    /\ spender \in Tx
    /\ spender = hand[w] \/ spender.dest = hand[w].dest
    /\ hand' = [hand EXCEPT ![w] = spender]
    /\ Goto(w, "won")
    /\ UNCHANGED <<row, invoice, processed, msg, coop, lock, recon, world,
                   faults>>

\* Bug: an error of the broadcast is taken for "already known".
ProbeAssumes(w) ==
    /\ pc[w] = "probe"
    /\ Goto(w, "won")
    /\ UNCHANGED <<row, invoice, processed, msg, hand, coop, lock, recon,
                   world, faults>>

\* Nothing found, a foreign spender, or the probe itself failed.
ProbeMisses(w) ==
    /\ pc[w] = "probe"
    /\ Goto(w, "failed")
    /\ Forget(w)
    /\ UNCHANGED <<row, invoice, processed, msg, lock, recon,
                   world, faults>>

\* update_swap_status(Claimed, txid); the row count is ignored.
Won(w) ==
    /\ pc[w] = "won"
    /\ UpdateStatus("claimed")
    /\ claimTxid' = IF status \in Terminal THEN claimTxid ELSE hand[w]
    /\ Goto(w, "settle")
    /\ Forget(w)
    /\ UNCHANGED <<claimTx, attempts, nextAt, coopRefused, address, invoice,
                   processed, msg, lock, recon, world, faults>>

Settle(w) ==
    /\ pc[w] = "settle"
    /\ MarkSettlement("settled")
    /\ Goto(w, "clear")
    /\ UNCHANGED <<row, invStatus, credited, processed, msg, hand, coop, lock,
                   recon, world, faults>>

\* clear_claim_failure_state has no guard on the status.
Clear(w) ==
    /\ pc[w] = "clear"
    /\ nextAt' = "null"
    /\ Goto(w, "credit")
    /\ UNCHANGED <<status, claimTx, claimTxid, attempts, coopRefused, address,
                   invoice, processed, msg, hand, coop, lock, recon, world,
                   faults>>

\* flip_invoice_on_lightning_settlement: record_invoice_payment inserts the
\* event once; a cancelled invoice takes none, an expired one does.
Credit(w) ==
    /\ pc[w] = "credit"
    /\ IF invStatus \in {"absent", "cancelled"} \/ credited
       THEN UNCHANGED invoice
       ELSE credited' = TRUE /\ invStatus' = "paid" /\ settlement' = "settled"
    /\ Goto(w, "idle")
    /\ UNCHANGED <<row, processed, msg, hand, coop, lock, recon, world,
                   faults>>

\* Bug: failures are counted on closed rows too.
FailClosed(w) ==
    /\ pc[w] = "failed"
    /\ attempts' = attempts + 1
    /\ nextAt' = "backoff"
    /\ IF attempts + 1 >= MaxAttempts
       THEN status' = "claim_stuck" /\ Goto(w, "stuck")
       ELSE status' = status /\ Goto(w, "idle")
    /\ UNCHANGED <<claimTx, claimTxid, coopRefused, address, invoice,
                   processed, msg, hand, coop, lock, recon, world, faults>>

\* record_claim_failure: counts and delays, or gives up; no-op when closed.
Fail(w) ==
    /\ pc[w] = "failed"
    /\ IF status \in Terminal
       THEN UNCHANGED <<status, attempts, nextAt>> /\ Goto(w, "idle")
       ELSE /\ attempts' = attempts + 1
            /\ nextAt' = "backoff"
            /\ IF attempts + 1 >= MaxAttempts
               THEN status' = "claim_stuck" /\ Goto(w, "stuck")
               ELSE status' = status /\ Goto(w, "idle")
    /\ UNCHANGED <<claimTx, claimTxid, coopRefused, address, invoice,
                   processed, msg, hand, coop, lock, recon, world, faults>>

MarkStuck(w) ==
    /\ pc[w] = "stuck"
    /\ MarkSettlement("claim_stuck")
    /\ Goto(w, "idle")
    /\ UNCHANGED <<row, invStatus, credited, processed, msg, hand, coop, lock,
                   recon, world, faults>>

ClaimStep(w) ==
    \/ SkipClaim(w) \/ Begin(w) \/ Resolve(w)
    \/ Construct(w) \/ ConstructRefused(w) \/ ConstructFails(w)
    \/ Commit(w) \/ BroadcastOk(w) \/ BroadcastErrs(w)
    \/ ProbeFinds(w) \/ ProbeMisses(w)
    \/ Won(w) \/ Settle(w) \/ Clear(w) \/ Credit(w)
    \/ Fail(w) \/ MarkStuck(w)

-----------------------------------------------------------------------------
(***************************************************************************)
(* The reconciler: list, ask Boltz, decide, apply.                         *)
(***************************************************************************)

\* Bug: a pending row is nudged but never advanced.
DecideWithoutAdvance(ours, theirs) ==
    CASE ours \in Terminal \/ theirs = "swap.created" -> "Noop"
      [] theirs = "swap.expired" -> "ScheduleScriptPathRetry"
      [] theirs \in {"invoice.expired", "transaction.failed"} -> "MarkExpired"
      [] theirs = "transaction.refunded" -> "MarkLockupRefunded"
      [] OTHER -> "ScheduleImmediateClaim"

\* decide_action, on the row as listed and Boltz's status as fetched later.
DecideAction(ours, theirs) ==
    CASE ours \in Terminal -> "Noop"
      [] ours = "pending" /\ theirs = "transaction.mempool"
           -> "AdvanceToLockupMempool"
      [] ours \in {"pending", "lockup_mempool"}
             /\ theirs = "transaction.confirmed"
           -> "AdvanceToLockupConfirmed"
      [] theirs = "swap.expired" -> "ScheduleScriptPathRetry"
      [] theirs \in {"invoice.expired", "transaction.failed"}
           -> "MarkExpired"
      [] theirs = "transaction.refunded" -> "MarkLockupRefunded"
      [] theirs = "swap.created" -> "Noop"
      [] OTHER -> "ScheduleImmediateClaim"

\* The tick is done with this row.
ForgetTick == rstatus' = "pending" /\ raction' = "Noop"

\* list_non_terminal_swaps_oldest_first
ReconList ==
    /\ rpc = "idle"
    /\ status \notin Terminal
    /\ rpc' = "listed" /\ rstatus' = status
    /\ UNCHANGED <<row, invoice, processed, tasks, raction, world, faults>>

ReconDecide ==
    /\ rpc = "listed"
    /\ raction' = DecideAction(rstatus, boltz)
    /\ rpc' = IF raction' = "Noop" THEN "idle" ELSE "apply"
    /\ rstatus' = "pending"
    /\ UNCHANGED <<row, invoice, processed, tasks, world, faults>>

\* The update_swap_status arms of apply_action.
ReconUpdate ==
    /\ rpc = "apply"
    /\ \/ /\ raction = "AdvanceToLockupMempool"
          /\ UpdateStatus("lockup_mempool")
          /\ rpc' = "nudge"
       \/ /\ raction = "AdvanceToLockupConfirmed"
          /\ UpdateStatus("lockup_confirmed")
          /\ rpc' = "nudge"
       \/ raction = "MarkExpired" /\ UpdateStatus("expired") /\ rpc' = "idle"
       \/ /\ raction = "MarkLockupRefunded"
          /\ UpdateStatus("lockup_refunded")
          /\ rpc' = "refund"
    /\ ForgetTick
    /\ UNCHANGED <<claimTx, claimTxid, attempts, nextAt, coopRefused, address,
                   invoice, processed, tasks, world,
                   faults>>

\* The scheduling arms: the row's status is not touched.
ReconSchedule ==
    /\ rpc = "apply"
    /\ raction \in {"ScheduleImmediateClaim", "ScheduleScriptPathRetry"}
    /\ Nudge
    /\ IF raction = "ScheduleScriptPathRetry"
       THEN MarkCooperativeRefused ELSE UNCHANGED coopRefused
    /\ rpc' = "idle"
    /\ ForgetTick
    /\ UNCHANGED <<status, claimTx, claimTxid, attempts, address, invoice,
                   processed, tasks, world, faults>>

\* An advanced row is scheduled, then its invoice is flipped.
ReconNudge ==
    /\ rpc = "nudge"
    /\ Nudge
    /\ rpc' = "flip"
    /\ UNCHANGED <<status, claimTx, claimTxid, attempts, coopRefused, address,
                   invoice, processed, tasks, rstatus, raction, world,
                   faults>>

ReconFlip ==
    /\ rpc = "flip"
    /\ FlipInProgress
    /\ rpc' = "idle"
    /\ UNCHANGED <<row, processed, tasks, rstatus, raction, world, faults>>

ReconMarkRefunded ==
    /\ rpc = "refund"
    /\ MarkSettlement("refunded")
    /\ rpc' = "idle"
    /\ UNCHANGED <<row, invStatus, credited, processed, tasks, rstatus,
                   raction, world, faults>>

ReconStep ==
    \/ ReconList \/ ReconDecide \/ ReconUpdate \/ ReconSchedule
    \/ ReconNudge \/ ReconFlip \/ ReconMarkRefunded

-----------------------------------------------------------------------------
(***************************************************************************)
(* Invoice deadlines and cancellation, the clock, Boltz, and faults.       *)
(***************************************************************************)

\* cancel_invoice
CancelInvoice ==
    /\ invStatus = "unpaid"
    /\ invStatus' = "cancelled"
    /\ UNCHANGED <<row, settlement, credited, processed, tasks, recon, world,
                   faults>>

\* expire_invoices_past_deadline
ExpireInvoice ==
    /\ invStatus \in {"unpaid", "in_progress"}
    /\ invStatus' = "expired"
    /\ UNCHANGED <<row, settlement, credited, processed, tasks, recon, world,
                   faults>>

\* A lease or a backoff runs out.
TimePasses ==
    /\ nextAt \in Future
    /\ nextAt' = "due"
    /\ UNCHANGED <<status, claimTx, claimTxid, attempts, coopRefused, address,
                   invoice, processed, tasks, recon, world, faults>>

\* Boltz settles the Lightning invoice once it holds the preimage, from the
\* cooperative exchange or from a claim on the chain.
BoltzNext(s) ==
    CASE s = "swap.created" -> {"transaction.mempool", "invoice.expired",
                                "transaction.failed", "swap.expired"}
      [] s = "transaction.mempool" -> {"transaction.confirmed",
                                       "invoice.settled", "swap.expired"}
      [] s = "transaction.confirmed" -> {"invoice.settled", "swap.expired"}
      [] s = "swap.expired" -> {"invoice.settled", "transaction.refunded"}
      [] OTHER -> {}

\* Boltz moves; past the lockup's timeout it may take an unspent one back.
BoltzMoves ==
    /\ boltz' \in BoltzNext(boltz) \cap BoltzMay
    /\ boltz' = "invoice.settled" => revealed \/ spender \in Tx
    /\ boltz' = "transaction.refunded" => Funded /\ spender = None
    /\ emitted' = emitted \cup {boltz'}
    /\ spender' = IF boltz' = "transaction.refunded" THEN Refund ELSE spender
    /\ UNCHANGED <<row, invoice, processed, tasks, recon, broadcast, revealed,
                   faults>>

\* Where a task goes when the call it is about to make fails.  Webhook
\* statements propagate (Boltz is told to retry); those of claim_swap_inner
\* up to the Claimed update count as a failed claim; the bookkeeping after
\* it, and the invoice flips, are logged and skipped.
AfterError(label) ==
    CASE label \in {"received", "apply", "refund"} -> "idle"
      [] label = "flip" -> "called"
      [] label \in {"called", "resolve", "construct", "commit", "won"}
           -> "failed"
      [] label = "settle" -> "clear"
      [] label = "clear" -> "credit"
      [] label \in {"credit", "failed", "stuck"} -> "idle"
      [] OTHER -> label

CallFails(w) ==
    /\ faults < MaxFaults
    /\ AfterError(pc[w]) # pc[w]
    /\ Goto(w, AfterError(pc[w]))
    /\ lock' = IF lock = w THEN None ELSE lock
    /\ Forget(w)
    /\ IF w \in Handlers THEN ForgetMsg(w) ELSE UNCHANGED msg
    /\ faults' = faults + 1
    /\ UNCHANGED <<row, invoice, processed, recon, world>>

\* COMMIT took effect but its answer was lost.
CommitUnacknowledged(w) ==
    /\ faults < MaxFaults
    /\ pc[w] = "commit"
    /\ Persist(w)
    /\ Goto(w, "failed")
    /\ Forget(w)
    /\ faults' = faults + 1
    /\ UNCHANGED <<invoice, processed, msg, recon, world>>

\* A statement or get_swap fails: the tick moves on; a failed flip is logged.
ReconFails ==
    /\ faults < MaxFaults
    /\ rpc # "idle"
    /\ rpc' = "idle"
    /\ ForgetTick
    /\ faults' = faults + 1
    /\ UNCHANGED <<row, invoice, processed, tasks, world>>

\* The process dies and restarts: tasks, locks and open transactions go.
Crash ==
    /\ faults < MaxFaults
    /\ pc' = [w \in Workers |-> "idle"]
    /\ msg' = [h \in Handlers |-> NoMsg]
    /\ hand' = [w \in Workers |-> None]
    /\ coop' = [w \in Workers |-> FALSE]
    /\ lock' = None
    /\ rpc' = "idle" /\ ForgetTick
    /\ faults' = faults + 1
    /\ UNCHANGED <<row, invoice, processed, world>>

Fault ==
    \/ \E w \in Workers : CallFails(w) \/ CommitUnacknowledged(w)
    \/ ReconFails
    \/ Crash

Next ==
    \/ \E h \in Handlers : Deliver(h) \/ WebhookStep(h)
    \/ SweepList
    \/ \E w \in Workers : ClaimStep(w)
    \/ ReconStep
    \/ CancelInvoice \/ ExpireInvoice
    \/ TimePasses
    \/ BoltzMoves
    \/ Fault

Spec == Init /\ [][Next]_vars

(***************************************************************************)
(* tokio runs every started task on; the claimer and the reconciler loop   *)
(* on timers; the clock advances.  Nothing obliges Boltz to deliver, to    *)
(* move, or the chain to take a claim.                                     *)
(***************************************************************************)
Fairness ==
    /\ \A h \in Handlers : WF_vars(WebhookStep(h))
    /\ \A w \in Workers : WF_vars(ClaimStep(w))
    /\ WF_vars(SweepList)
    /\ WF_vars(ReconStep)
    /\ WF_vars(TimePasses)

FairSpec == Spec /\ Fairness
=============================================================================
