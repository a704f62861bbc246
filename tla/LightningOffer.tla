--------------------------- MODULE LightningOffer ---------------------------
(***************************************************************************)
(* The Lightning offers of one invoice: its creation as a checkout or a    *)
(* wallet invoice with an eager offer and, for a checkout, a Bitcoin one;  *)
(* the polls of its status; and the requests that replace an offer that    *)
(* has expired or no longer fits (invoice.rs).                             *)
(*                                                                         *)
(* A replacement is single-flight by a session-level advisory lock, which  *)
(* the request takes on a pooled connection it keeps, while everything it  *)
(* does under the lock but the second look at the offers needs another     *)
(* connection of the same pool.  So the pool is part of the model: a lock  *)
(* belongs to a session, not to a request; a request whose client has left *)
(* gives its session back with the lock still held.                        *)
(*                                                                         *)
(* A step is one database statement or one call to Boltz; the deletion of  *)
(* an invoice whose creation failed is two, its snapshot and its effect.   *)
(***************************************************************************)
EXTENDS Naturals, Sequences

CONSTANTS
    Requests,   \* POST .../lightning and status polls, one each
    Sessions,   \* the connections of the pool
    Total,      \* invoices.amount_sat
    Deadline,   \* invoices.expires_at
    Lives,      \* how long the BOLT11 of a new swap may be valid: Boltz decides
    Margin,     \* BOLT11_REFRESH_MARGIN_SECS
    MaxTime,    \* bound on the clock
    None        \* no session

ASSUME NumbersAssumption ==
    /\ Total \in Nat \ {0} /\ Deadline \in Nat /\ Lives \subseteq Nat
    /\ Margin \in Nat /\ MaxTime \in Nat
ASSUME NoneAssumption == None \notin Sessions

\* Where a request may be; past "acquire" it has a session of its own.
Holding == {"recheck", "key", "boltz", "record", "unlock"}
RequestPc == {"idle", "poll", "read", "acquire", "lock", "abandoned", "done"}
               \cup Holding
CreatePc == {"idle", "inserted", "record", "chain", "cleanup", "deleting",
             "returned", "failed"}

\* A row of swap_records; now: when a replacement was asked for.
Offer == [amount : Nat, expires : Nat, by : {"eager", "refresh"}, now : Nat]

VARIABLES
    time,      \* the clock
    invoice,   \* the row: exists, open (unpaid or partially_paid), paid
    offers,    \* its swap_records, by created_at; detached if it is deleted
    chain,     \* it has a chain_swap_records row
    create,    \* the request that creates it
    requests,  \* those that want an offer; answer: 0, or the place in offers
    lock       \* invoice-lightning:<id>: its session, and how often taken

vars == <<time, invoice, offers, chain, create, requests, lock>>

NoLock == [holder |-> None, depth |-> 0]
NewRequest == [pc |-> "idle", amount |-> 0, now |-> 0, conn |-> None,
               expires |-> 0, answer |-> 0]

Init ==
    /\ time = 0
    /\ invoice = [exists |-> FALSE, open |-> FALSE, paid |-> 0]
    /\ offers = <<>> /\ chain = FALSE
    /\ create = [pc |-> "idle", kind |-> "checkout", expires |-> 0]
    /\ requests = [r \in Requests |-> NewRequest]
    /\ lock = NoLock

\* The connections that no request keeps.
Free == {s \in Sessions : \A r \in Requests : requests[r].conn # s}
PoolHasOne == Free # {}

\* bolt11_is_reusable_at, and the amount must be what remains.
Fits(offer, amount, now) ==
    offer.amount = amount /\ now + Margin <= offer.expires

\* Offers are found by their invoice_id.
LatestFits(amount, now) ==
    invoice.exists /\ offers # <<>> /\ Fits(offers[Len(offers)], amount, now)

\* The request goes on at p, with a session or none, and an answer or none.
Goes(r, p, session, k) ==
    requests' = [requests EXCEPT ![r] =
                   [pc |-> p, amount |-> requests[r].amount,
                    now |-> requests[r].now, conn |-> session,
                    expires |-> requests[r].expires, answer |-> k]]

GoesTo(r, p) == Goes(r, p, requests[r].conn, 0)
Ends(r, k) ==
    requests' = [requests EXCEPT ![r] =
                   [pc |-> "done", amount |-> 0, now |-> 0, conn |-> None,
                    expires |-> 0, answer |-> k]]
GoesToUnlock(r, k) ==
    requests' = [requests EXCEPT ![r] =
                   [pc |-> "unlock", amount |-> 0, now |-> 0,
                    conn |-> requests[r].conn, expires |-> 0, answer |-> k]]

RecordOffer(offer) == offers' = Append(offers, offer)

-----------------------------------------------------------------------------
(***************************************************************************)
(* create_checkout_invoice_inner and create_invoice_inner, past the rate   *)
(* gates, the validation and the allocation of the address (AddressBook).  *)
(***************************************************************************)

\* insert_invoice
CreateInvoice(kind) ==
    /\ create.pc = "idle" /\ time < Deadline
    /\ create' = [pc |-> "inserted", kind |-> kind, expires |-> 0]
    /\ invoice' = [exists |-> TRUE, open |-> TRUE, paid |-> 0]
    /\ UNCHANGED <<time, offers, chain, requests, lock>>

CreationGoesTo(p) == create' = [pc |-> p, kind |-> create.kind, expires |-> 0]

\* A checkout without its offer is cleaned up, a wallet invoice is returned.
EagerFailed ==
    CreationGoesTo(IF create.kind = "checkout" THEN "cleanup" ELSE "returned")

\* next_swap_key_index and create_reverse_swap
EagerSwap ==
    /\ create.pc = "inserted"
    /\ \/ \E life \in Lives :
            create' = [pc |-> "record", kind |-> create.kind,
                       expires |-> time + life]
       \/ EagerFailed
    /\ UNCHANGED <<time, invoice, offers, chain, requests, lock>>

EagerOffer == [amount |-> Total, expires |-> create.expires, by |-> "eager",
               now |-> 0]

\* record_swap: done, or not, or done and yet an error to the caller.
EagerRecord ==
    /\ create.pc = "record"
    /\ \/ /\ invoice.exists
          /\ RecordOffer(EagerOffer)
          /\ \/ CreationGoesTo(IF create.kind = "checkout" THEN "chain"
                                ELSE "returned")
             \/ EagerFailed
       \/ UNCHANGED offers /\ EagerFailed
    /\ UNCHANGED <<time, invoice, chain, requests, lock>>

\* create_bitcoin_chain_offer, whose failure is only logged.
ChainOffer ==
    /\ create.pc = "chain"
    /\ chain' \in {chain, invoice.exists}
    /\ CreationGoesTo("returned")
    /\ UNCHANGED <<time, invoice, offers, requests, lock>>

\* Bug: the deletion does not ask for swaps.
CleanupSelectAnyway ==
    /\ create.pc = "cleanup"
    /\ \/ invoice.open /\ invoice.paid = 0 /\ CreationGoesTo("deleting")
       \/ CreationGoesTo("failed")
    /\ UNCHANGED <<time, invoice, offers, chain, requests, lock>>

\* delete_unpaid_invoice_without_swaps, whose failure is only logged.  Its
\* snapshot has the row and no swap of it, ...
CleanupSelect ==
    /\ create.pc = "cleanup"
    /\ \/ /\ invoice.open /\ invoice.paid = 0 /\ offers = <<>>
          /\ CreationGoesTo("deleting")
       \/ CreationGoesTo("failed")
    /\ UNCHANGED <<time, invoice, offers, chain, requests, lock>>

\* ... and then it waits for whoever has locked the row, for the foreign key of
\* a swap too.  It looks again at the row and not at the swaps: what has been
\* recorded since then is detached, by ON DELETE SET NULL.
CleanupDelete ==
    /\ create.pc = "deleting"
    /\ invoice' = IF invoice.open /\ invoice.paid = 0
                  THEN [exists |-> FALSE, open |-> FALSE, paid |-> 0]
                  ELSE invoice
    /\ CreationGoesTo("failed")
    /\ UNCHANGED <<time, offers, chain, requests, lock>>

\* The client leaves, or the process stops: the invoice stays as it is.
CreationDropped ==
    /\ create.pc \in {"inserted", "record", "chain", "cleanup", "deleting"}
    /\ CreationGoesTo("failed")
    /\ UNCHANGED <<time, invoice, offers, chain, requests, lock>>

CreateStep ==
    EagerSwap \/ EagerRecord \/ ChainOffer \/ CleanupSelect \/ CleanupDelete

-----------------------------------------------------------------------------
(***************************************************************************)
(* GET .../status: latest_reusable_lightning_offer, which creates nothing. *)
(***************************************************************************)

\* The amount that remains, and the time.
Reads(r, p) ==
    requests' = [requests EXCEPT ![r] =
                   [pc |-> p, amount |-> Total - invoice.paid, now |-> time,
                    conn |-> None, expires |-> 0, answer |-> 0]]

\* get_invoice_by_id; the owner's list shows an invoice as soon as it is
\* inserted.
Poll(r) ==
    /\ requests[r].pc = "idle" /\ invoice.exists /\ invoice.open /\ PoolHasOne
    /\ IF time < Deadline THEN Reads(r, "poll") ELSE Ends(r, 0)
    /\ UNCHANGED <<time, invoice, offers, chain, create, lock>>

PollLatest(r) ==
    /\ requests[r].pc = "poll" /\ PoolHasOne
    /\ Ends(r, IF LatestFits(requests[r].amount, time) THEN Len(offers) ELSE 0)
    /\ UNCHANGED <<time, invoice, offers, chain, create, lock>>

-----------------------------------------------------------------------------
(***************************************************************************)
(* POST .../lightning: fetch_lightning_offer and                           *)
(* ensure_reusable_lightning_offer.  The amount and the time are those of  *)
(* its first read, to the end.                                             *)
(***************************************************************************)

Fetch(r) ==
    /\ requests[r].pc = "idle" /\ invoice.exists /\ invoice.open /\ PoolHasOne
    /\ Reads(r, "read")
    /\ UNCHANGED <<time, invoice, offers, chain, create, lock>>

\* The latest offer still fits, or it is too late for another.
ReadLatest(r) ==
    /\ requests[r].pc = "read" /\ PoolHasOne
    /\ IF LatestFits(requests[r].amount, requests[r].now)
       THEN Ends(r, Len(offers))
       ELSE IF Deadline <= requests[r].now THEN Ends(r, 0)
       ELSE GoesTo(r, "acquire")
    /\ UNCHANGED <<time, invoice, offers, chain, create, lock>>

\* state.db.acquire
Acquire(r) ==
    /\ requests[r].pc = "acquire"
    /\ \E s \in Free : Goes(r, "lock", s, 0)
    /\ UNCHANGED <<time, invoice, offers, chain, create, lock>>

Taken(s) == lock' = [holder |-> s, depth |-> lock.depth + 1]

\* Bug: nobody waits.
LockShared(r) ==
    /\ requests[r].pc = "lock"
    /\ Taken(requests[r].conn)
    /\ GoesTo(r, "recheck")
    /\ UNCHANGED <<time, invoice, offers, chain, create>>

\* pg_advisory_lock: free, or the session has it already.
Lock(r) ==
    /\ requests[r].pc = "lock"
    /\ lock.holder \in {None, requests[r].conn}
    /\ Taken(requests[r].conn)
    /\ GoesTo(r, "recheck")
    /\ UNCHANGED <<time, invoice, offers, chain, create>>

\* Bug: no second look.
RecheckNothing(r) ==
    /\ requests[r].pc = "recheck"
    /\ GoesTo(r, "key")
    /\ UNCHANGED <<time, invoice, offers, chain, create, lock>>

\* The second look, on the session that holds the lock.
Recheck(r) ==
    /\ requests[r].pc = "recheck"
    /\ IF LatestFits(requests[r].amount, requests[r].now)
       THEN GoesToUnlock(r, Len(offers)) ELSE GoesTo(r, "key")
    /\ UNCHANGED <<time, invoice, offers, chain, create, lock>>

\* next_swap_key_index
NextKey(r) ==
    /\ requests[r].pc = "key" /\ PoolHasOne
    /\ GoesTo(r, "boltz")
    /\ UNCHANGED <<time, invoice, offers, chain, create, lock>>

\* create_reverse_swap, or Boltz says no.
CreateSwap(r) ==
    /\ requests[r].pc = "boltz"
    /\ \/ \E life \in Lives :
            requests' = [requests EXCEPT ![r] =
                           [pc |-> "record", amount |-> requests[r].amount,
                            now |-> requests[r].now, conn |-> requests[r].conn,
                            expires |-> time + life, answer |-> 0]]
       \/ GoesToUnlock(r, 0)
    /\ UNCHANGED <<time, invoice, offers, chain, create, lock>>

RefreshOffer(r) ==
    [amount |-> requests[r].amount, expires |-> requests[r].expires,
     by |-> "refresh", now |-> requests[r].now]

\* Bug: the BOLT11 is returned whether or not its swap was recorded.
RecordSwapHopefully(r) ==
    /\ requests[r].pc = "record" /\ PoolHasOne
    /\ (invoice.exists /\ RecordOffer(RefreshOffer(r))) \/ UNCHANGED offers
    /\ GoesToUnlock(r, Len(offers) + 1)
    /\ UNCHANGED <<time, invoice, chain, create, lock>>

\* record_swap; the foreign key refuses an invoice that was deleted.
RecordSwap(r) ==
    /\ requests[r].pc = "record" /\ PoolHasOne
    /\ \/ /\ invoice.exists
          /\ RecordOffer(RefreshOffer(r))
          /\ \E k \in {0, Len(offers) + 1} : GoesToUnlock(r, k)
       \/ UNCHANGED offers /\ GoesToUnlock(r, 0)
    /\ UNCHANGED <<time, invoice, chain, create, lock>>

\* pg_advisory_unlock, once; the session goes back to the pool.
Unlock(r) ==
    /\ requests[r].pc = "unlock"
    /\ lock' = IF lock.depth = 1 THEN NoLock
               ELSE [holder |-> lock.holder, depth |-> lock.depth - 1]
    /\ Ends(r, requests[r].answer)
    /\ UNCHANGED <<time, invoice, offers, chain, create>>

\* Bug: a request without a session waits for ever.
AcquireTimeoutNever(r) == FALSE /\ UNCHANGED vars

\* sqlx gives up on an empty pool: an error, through the unlock if the lock is
\* held.
AcquireTimeout(r) ==
    /\ ~PoolHasOne
    /\ \/ requests[r].pc \in {"poll", "read", "acquire"} /\ Ends(r, 0)
       \/ requests[r].pc \in {"key", "record"} /\ GoesToUnlock(r, 0)
    /\ UNCHANGED <<time, invoice, offers, chain, create, lock>>

RequestStep(r) ==
    \/ PollLatest(r) \/ ReadLatest(r) \/ Acquire(r) \/ Lock(r) \/ Recheck(r)
    \/ NextKey(r) \/ CreateSwap(r) \/ RecordSwap(r) \/ Unlock(r)
    \/ AcquireTimeout(r)

-----------------------------------------------------------------------------
(***************************************************************************)
(* The client leaves and the handler is dropped where it stands.  A session*)
(* goes back to the pool with the lock it holds; one that waits for the    *)
(* lock goes on waiting in Postgres.                                       *)
(***************************************************************************)

Drop(r) ==
    /\ requests[r].pc \notin {"idle", "abandoned", "done"}
    /\ IF requests[r].pc = "lock" THEN GoesTo(r, "abandoned") ELSE Ends(r, 0)
    /\ \/ UNCHANGED offers
       \/ /\ requests[r].pc = "record" /\ invoice.exists
          /\ RecordOffer(RefreshOffer(r))
    /\ UNCHANGED <<time, invoice, chain, create, lock>>

\* The lock is granted to a session that nobody waits for any more.
GrantAbandoned(r) ==
    /\ requests[r].pc = "abandoned"
    /\ lock.holder \in {None, requests[r].conn}
    /\ Taken(requests[r].conn)
    /\ Ends(r, 0)
    /\ UNCHANGED <<time, invoice, offers, chain, create>>

\* The pool closes a session that is idle or too old, and its lock ends.
Recycle(s) ==
    /\ s \in Free /\ lock.holder = s
    /\ lock' = NoLock
    /\ UNCHANGED <<time, invoice, offers, chain, create, requests>>

-----------------------------------------------------------------------------
\* A payment is counted (InvoiceLedger): the last one closes the invoice, one
\* before it may open an invoice that was in progress.
Pay ==
    /\ invoice.exists /\ invoice.paid < Total
    /\ \E open \in IF invoice.paid + 1 = Total THEN {FALSE}
                   ELSE {invoice.open, TRUE} :
         invoice' = [exists |-> TRUE, open |-> open, paid |-> invoice.paid + 1]
    /\ UNCHANGED <<time, offers, chain, create, requests, lock>>

\* In progress, cancelled or expired.
Close ==
    /\ invoice.open
    /\ invoice' = [exists |-> TRUE, open |-> FALSE, paid |-> invoice.paid]
    /\ UNCHANGED <<time, offers, chain, create, requests, lock>>

Tick ==
    /\ time < MaxTime
    /\ time' = time + 1
    /\ UNCHANGED <<invoice, offers, chain, create, requests, lock>>

Next ==
    \/ \E kind \in {"checkout", "wallet"} : CreateInvoice(kind)
    \/ CreateStep \/ CreationDropped
    \/ \E r \in Requests : \/ Poll(r) \/ Fetch(r) \/ RequestStep(r)
                           \/ Drop(r) \/ GrantAbandoned(r)
    \/ \E s \in Sessions : Recycle(s)
    \/ Pay \/ Close \/ Tick

Spec == Init /\ [][Next]_vars

(***************************************************************************)
(* A request that has begun is run, and each of its calls times out; a lock*)
(* is granted when it is free; the pool closes an idle session in the end. *)
(* Nothing is assumed of the creation: nobody waits for it.                *)
(***************************************************************************)
Fairness ==
    /\ \A r \in Requests : WF_vars(RequestStep(r) \/ GrantAbandoned(r))
    /\ WF_vars(\E s \in Sessions : Recycle(s))

FairSpec == Spec /\ Fairness
=============================================================================
