---------------------------- MODULE AddressBook ----------------------------
(***************************************************************************)
(* Nyms, the descriptor cursor of each, and everyone who takes a Liquid    *)
(* address from it:                                                        *)
(*                                                                         *)
(*   - owners register, rotate the descriptor, deactivate and purge        *)
(*     (registration.rs, db/users.rs);                                     *)
(*   - payers ask the LNURL callback for a Liquid address, held per        *)
(*     outpoint, or for a Lightning invoice (lnurl.rs, db/reservations.rs);*)
(*   - the claimer allocates the destination of a Lightning Address swap   *)
(*     (claimer.rs, resolve_claim_address);                                *)
(*   - a checkout of a page without a descriptor of its own allocates the  *)
(*     address of its invoice (db/invoices.rs);                            *)
(*   - the chain watcher moves the cursor past paid addresses              *)
(*     (chain_watcher.rs, poll_nyms, db/watcher.rs), and GC recycles       *)
(*     reservations (gc.rs).                                               *)
(*                                                                         *)
(* A step is one database statement or transaction; a transaction is split *)
(* where READ COMMITTED lets another one commit between its statements.    *)
(* Postgres is present by what its locks exclude: the advisory lock of a   *)
(* checkout, and the row lock of a purge, which keeps out every update of  *)
(* the users row and every insert that refers to it.  An address is the    *)
(* pair it is derived from, a descriptor and an index.                     *)
(***************************************************************************)
EXTENDS Naturals, FiniteSets

CONSTANTS
    Nyms, Npubs,   \* names and the keys of their owners
    Descs,         \* confidential descriptors of the wallets
    Outpoints,     \* what LUD-22 payers prove
    Calls,         \* concurrent LNURL callbacks
    Swaps,         \* reverse swaps of the Lightning Address
    Invoices,      \* invoices that a checkout may create
    Quota,         \* limits.max_lifetime_nyms_per_npub
    Lookahead,     \* chain_watcher.lookahead
    MaxIdx,        \* bound on the indices in use
    WalletIdx,     \* bound on the indices that wallets use on their own
    PaidIdx,       \* bound on the indices that are paid
    NoDesc,        \* the empty descriptor of a purged row
    None           \* SQL NULL

Address == [desc : Descs, idx : Nat]

(***************************************************************************)
(* swap_records.status, as far as a purge tells them apart: "claimable" is *)
(* the two lockup statuses and claiming, "done" is claimed or expired, and *)
(* "dead" is claim_stuck or lockup_refunded.  ReverseSwap has the detail,  *)
(* SwapLife what both have in common.                                      *)
(***************************************************************************)
SwapStatus == {"absent", "pending", "claimable", "done", "dead"}

\* The statuses that do not hold up a purge.
Closed == {"absent", "done"}

Reservation == [idx : Nat, fulfilled : BOOLEAN]

\* A row as the watcher read it.
Snapshot == [nym : Nyms, desc : Descs, next : Nat]

ASSUME QuotaAssumption == Quota \in Nat /\ IsFiniteSet(Nyms)
ASSUME BoundAssumption ==
    /\ MaxIdx \in Nat /\ Lookahead \in Nat
    /\ WalletIdx \subseteq 0 .. MaxIdx - 1 /\ PaidIdx \subseteq 0 .. MaxIdx - 1
ASSUME NoneAssumption ==
    /\ None \notin Npubs /\ None \notin Nyms /\ None \notin Outpoints
    /\ None \notin Address /\ None \notin Reservation /\ None \notin Snapshot
    /\ NoDesc \notin Descs /\ None \notin Descs /\ None # NoDesc

VARIABLES
    owner, active, desc, next, born,  \* the users rows; owner None: no row,
                                      \* born: the order of created_at
    held,                             \* outpoint_addresses
    swaps,                            \* swap_records
    invoices,                         \* invoice_payment_addresses, liquid
    requests,                         \* an owner's update or deletion
    calls,                            \* the callbacks under way
    claims,                           \* resolve_claim_address under way: the
                                      \* descriptor it has read
    checkouts,                        \* the checkouts under way
    watch,                            \* poll_nyms
    history                           \* addresses with history on the chain

users == <<owner, active, desc, next, born>>
rows  == <<users, held, swaps, invoices>>
tasks == <<requests, calls, claims, checkouts, watch>>
vars  == <<rows, tasks, history>>

NoRequest  == [pc |-> "idle", nym |-> None, desc |-> NoDesc]
NoCall     == [pc |-> "idle", nym |-> None, outpoint |-> None, idx |-> 0]
NoCheckout == [pc |-> "idle", nym |-> None, desc |-> NoDesc, idx |-> 0]
NoSwap     == [status |-> "absent", nym |-> None, address |-> None]

Init ==
    /\ owner = [n \in Nyms |-> None] /\ active = [n \in Nyms |-> FALSE]
    /\ desc = [n \in Nyms |-> NoDesc]
    /\ next = [n \in Nyms |-> 0] /\ born = [n \in Nyms |-> 0]
    /\ held = [k \in Nyms \X Outpoints |-> None]
    /\ swaps = [s \in Swaps |-> NoSwap]
    /\ invoices = [i \in Invoices |-> None]
    /\ requests = [p \in Npubs |-> NoRequest]
    /\ calls = [c \in Calls |-> NoCall]
    /\ claims = [s \in Swaps |-> None]
    /\ checkouts = [i \in Invoices |-> NoCheckout]
    /\ watch = [pc |-> "idle", todo |-> {}, at |-> None, offset |-> 0]
    /\ history = {}

\* derive_address: injective, and an error on the empty descriptor.
Derive(d, k) == [desc |-> d, idx |-> k]

\* Bug: the row is read without FOR UPDATE.
PurgingUnlocked(n) == FALSE

\* A purge holds the users row FOR UPDATE: updates of the row and inserts
\* that reference it wait.
Purging(n) == \E p \in Npubs : requests[p].pc = "counted" /\ requests[p].nym = n

\* The nyms of a key, and its active one.
NymsOf(p) == {n \in Nyms : owner[n] = p}
ActiveNym(p, n) == owner[n] = p /\ active[n]
HasActive(p) == \E n \in Nyms : ActiveNym(p, n)

\* The inactive row of a key with the latest created_at.
Latest(p, n) ==
    /\ owner[n] = p /\ ~active[n]
    /\ \A m \in NymsOf(p) : ~active[m] => born[m] <= born[n]

DropReservations(n) ==
    held' = [k \in Nyms \X Outpoints |-> IF k[1] = n THEN None ELSE held[k]]

-----------------------------------------------------------------------------
(***************************************************************************)
(* register_user_atomic, under the advisory lock of the npub: only it can  *)
(* activate a row of that key.                                             *)
(***************************************************************************)

\* Bug: the cursor starts over.
ReactivateRewound(p, n, d) ==
    /\ ~HasActive(p) /\ Latest(p, n)
    /\ active' = [active EXCEPT ![n] = TRUE]
    /\ desc' = [desc EXCEPT ![n] = d]
    /\ next' = [next EXCEPT ![n] = 0]
    /\ DropReservations(n)
    /\ UNCHANGED <<owner, born, swaps, invoices, tasks, history>>

\* The latest inactive nym comes back, with its cursor where it was.
Reactivate(p, n, d) ==
    /\ ~HasActive(p) /\ Latest(p, n)
    /\ active' = [active EXCEPT ![n] = TRUE]
    /\ desc' = [desc EXCEPT ![n] = d]
    /\ DropReservations(n)
    /\ UNCHANGED <<owner, next, born, swaps, invoices, tasks, history>>

\* A new row, while the quota lasts; a name that has a row is taken.
Create(p, n, d) ==
    /\ ~HasActive(p) /\ Cardinality(NymsOf(p)) < Quota /\ owner[n] = None
    /\ owner' = [owner EXCEPT ![n] = p]
    /\ active' = [active EXCEPT ![n] = TRUE]
    /\ desc' = [desc EXCEPT ![n] = d]
    /\ born' = [born EXCEPT ![n] = Cardinality(NymsOf(p)) + 1]
    /\ UNCHANGED <<next, held, swaps, invoices, tasks, history>>

\* POST /register past its gates: the outcomes that write.
Register(p, n, d) == Reactivate(p, n, d) \/ Create(p, n, d)

(***************************************************************************)
(* PUT and DELETE /register check that the signed nym is the active one,   *)
(* then act on whatever row of the key is active.                          *)
(***************************************************************************)

\* The pre-flight read of update_registration and delete_registration.
Preflight(p, n, what, d) ==
    /\ requests[p].pc = "idle"
    /\ ActiveNym(p, n)
    /\ what # "update" => d = NoDesc
    /\ what = "update" => d \in Descs
    /\ requests' = [requests EXCEPT ![p] = [pc |-> what, nym |-> n, desc |-> d]]
    /\ UNCHANGED <<rows, calls, claims, checkouts, watch, history>>

\* update_user_descriptor
Update(p) ==
    /\ requests[p].pc = "update"
    /\ IF HasActive(p)
       THEN \E n \in Nyms :
              /\ ActiveNym(p, n)
              /\ desc' = [desc EXCEPT ![n] = requests[p].desc]
              /\ DropReservations(n)
       ELSE UNCHANGED <<desc, held>>
    /\ requests' = [requests EXCEPT ![p] = NoRequest]
    /\ UNCHANGED <<owner, active, next, born, swaps, invoices, calls, claims,
                   checkouts, watch, history>>

\* deactivate_user
Deactivate(p) ==
    /\ requests[p].pc = "delete"
    /\ IF HasActive(p)
       THEN \E n \in Nyms :
              /\ ActiveNym(p, n)
              /\ active' = [active EXCEPT ![n] = FALSE]
       ELSE UNCHANGED active
    /\ requests' = [requests EXCEPT ![p] = NoRequest]
    /\ UNCHANGED <<owner, desc, next, born, held, swaps, invoices, calls,
                   claims, checkouts, watch, history>>

\* purge_user locks the active row, then counts the swaps in flight.
PurgeCount(p) ==
    /\ requests[p].pc = "purge"
    /\ \/ \E n \in Nyms :
            /\ ActiveNym(p, n)
            /\ \A s \in Swaps :
                 swaps[s].nym = n => swaps[s].status \in Closed
            /\ requests' = [requests EXCEPT ![p] =
                              [pc |-> "counted", nym |-> n, desc |-> NoDesc]]
       \/ /\ \A n \in Nyms : ActiveNym(p, n) =>
               \E s \in Swaps :
                 swaps[s].nym = n /\ swaps[s].status \notin Closed
          /\ requests' = [requests EXCEPT ![p] = NoRequest]
    /\ UNCHANGED <<rows, calls, claims, checkouts, watch, history>>

\* Its deletions, the scrubbing of the row and the commit.
PurgeDelete(p) ==
    /\ requests[p].pc = "counted"
    /\ LET n == requests[p].nym IN
       /\ swaps' = [s \in Swaps |-> IF swaps[s].nym = n THEN NoSwap
                                                        ELSE swaps[s]]
       /\ DropReservations(n)
       /\ active' = [active EXCEPT ![n] = FALSE]
       /\ desc' = [desc EXCEPT ![n] = NoDesc]
    /\ requests' = [requests EXCEPT ![p] = NoRequest]
    /\ UNCHANGED <<owner, next, born, invoices, calls, claims, checkouts, watch,
                   history>>

OwnerStep(p) == Update(p) \/ Deactivate(p) \/ PurgeCount(p) \/ PurgeDelete(p)

-----------------------------------------------------------------------------
(***************************************************************************)
(* The LNURL callback reads the user once, and answers in the end with an  *)
(* address derived from that row: what it writes is the reservation of an  *)
(* outpoint, or a swap.                                                    *)
(***************************************************************************)

CallRead(c, n, o) ==
    /\ calls[c].pc = "idle"
    /\ active[n]
    /\ calls' = [calls EXCEPT ![c] =
                   [pc |-> "read", nym |-> n, outpoint |-> o, idx |-> 0]]
    /\ UNCHANGED <<rows, requests, claims, checkouts, watch, history>>

HeldBy(c) == held[<<calls[c].nym, calls[c].outpoint>>]

\* serve_liquid past its gates: allocate_outpoint_address reads the cursor of
\* a nym that is still active.
AllocateRead(c) ==
    /\ calls[c].pc = "read" /\ HeldBy(c) = None
    /\ active[calls[c].nym] /\ next[calls[c].nym] < MaxIdx
    /\ calls' = [calls EXCEPT ![c] =
                   [pc |-> "cursor", nym |-> calls[c].nym,
                    outpoint |-> calls[c].outpoint,
                    idx |-> next[calls[c].nym]]]
    /\ UNCHANGED <<rows, requests, claims, checkouts, watch, history>>

\* The insert; the cursor is left to the watcher.
AllocateInsert(c) ==
    /\ calls[c].pc = "cursor" /\ HeldBy(c) = None /\ ~Purging(calls[c].nym)
    /\ held' = [held EXCEPT ![<<calls[c].nym, calls[c].outpoint>>] =
                  [idx |-> calls[c].idx, fulfilled |-> FALSE]]
    /\ calls' = [calls EXCEPT ![c] = NoCall]
    /\ UNCHANGED <<users, swaps, invoices, requests, claims, checkouts, watch,
                   history>>

\* serve_lightning, by default or when a gate of the Liquid path says no:
\* record_swap inserts a row for the nym as it was read.
ServeLightning(c) ==
    /\ calls[c].pc = "read" /\ ~Purging(calls[c].nym)
    /\ \E s \in Swaps :
         /\ swaps[s].status = "absent"
         /\ swaps' = [swaps EXCEPT ![s] = [status |-> "pending",
                        nym |-> calls[c].nym, address |-> None]]
    /\ calls' = [calls EXCEPT ![c] = NoCall]
    /\ UNCHANGED <<users, held, invoices, requests, claims, checkouts, watch,
                   history>>

\* The request ends and writes nothing: an outpoint that was known, or held
\* by another request meanwhile (the insert is refused), a whitelisted
\* caller, a gate or a proof that says no.
Respond(c) ==
    /\ calls[c].pc # "idle"
    /\ calls' = [calls EXCEPT ![c] = NoCall]
    /\ UNCHANGED <<rows, requests, claims, checkouts, watch, history>>

CallStep(c) ==
    \/ AllocateRead(c) \/ AllocateInsert(c) \/ ServeLightning(c) \/ Respond(c)

-----------------------------------------------------------------------------
(***************************************************************************)
(* resolve_claim_address, branch (C), inside a transaction that holds the  *)
(* swap row: its status does not move and no other resolver is at it.      *)
(***************************************************************************)

\* get_user_by_nym, on a connection of its own; the nym need not be active.
\* The status was looked at before (claim_swap_inner), and not again: a row
\* that has been given up since gets its address all the same.
ClaimRead(s) ==
    /\ claims[s] = None
    /\ swaps[s].status \in {"claimable", "dead"} /\ swaps[s].address = None
    /\ claims' = [claims EXCEPT ![s] = desc[swaps[s].nym]]
    /\ UNCHANGED <<rows, requests, calls, checkouts, watch, history>>

\* The cursor moves by one and the destination is written, or the empty
\* descriptor rolls everything back.
ClaimAllocate(s) ==
    /\ claims[s] # None
    /\ LET n == swaps[s].nym IN
       /\ ~Purging(n)
       /\ \/ /\ claims[s] # NoDesc /\ next[n] < MaxIdx
             /\ next' = [next EXCEPT ![n] = next[n] + 1]
             /\ swaps' = [swaps EXCEPT ![s] =
                            [status |-> swaps[s].status, nym |-> n,
                             address |-> Derive(claims[s], next[n])]]
          \/ claims[s] = NoDesc /\ UNCHANGED <<next, swaps>>
    /\ claims' = [claims EXCEPT ![s] = None]
    /\ UNCHANGED <<owner, active, desc, born, held, invoices, requests, calls,
                   checkouts, watch, history>>

ClaimStep(s) == ClaimRead(s) \/ ClaimAllocate(s)

\* The rest of the life of a swap; a claimed one has its address.
SwapNext == {<<"pending", "claimable">>, <<"pending", "done">>,
             <<"pending", "dead">>, <<"claimable", "done">>,
             <<"claimable", "dead">>}

SwapMoves(s) ==
    /\ claims[s] = None
    /\ \E v \in SwapStatus :
         /\ <<swaps[s].status, v>> \in SwapNext
         /\ swaps[s].status = "claimable" /\ v = "done"
              => swaps[s].address # None
         /\ swaps' = [swaps EXCEPT ![s] = [status |-> v, nym |-> swaps[s].nym,
                                          address |-> swaps[s].address]]
    /\ UNCHANGED <<users, held, invoices, tasks, history>>

-----------------------------------------------------------------------------
(***************************************************************************)
(* allocate_next_liquid_for_active_nym under its advisory lock, then the   *)
(* insertion of the invoice, which is outside of it.                       *)
(***************************************************************************)

\* Bug: no advisory lock.
CheckoutReadUnlocked(i, n) ==
    /\ checkouts[i].pc = "idle" /\ invoices[i] = None
    /\ active[n]
    /\ checkouts' = [checkouts EXCEPT ![i] =
                       [pc |-> "locked", nym |-> n, desc |-> desc[n],
                        idx |-> next[n]]]
    /\ UNCHANGED <<rows, requests, calls, claims, watch, history>>

\* The lock donation:<nym> is taken and the cursor read, without a row lock.
CheckoutRead(i, n) ==
    /\ checkouts[i].pc = "idle" /\ invoices[i] = None
    /\ \A j \in Invoices : ~(checkouts[j].pc = "locked" /\ checkouts[j].nym = n)
    /\ active[n]
    /\ checkouts' = [checkouts EXCEPT ![i] =
                       [pc |-> "locked", nym |-> n, desc |-> desc[n],
                        idx |-> next[n]]]
    /\ UNCHANGED <<rows, requests, calls, claims, watch, history>>

InUse(a) == \E i \in Invoices : invoices[i] = a

\* The first index from there on whose address no invoice has; the cursor is
\* set behind it, whatever it has become since, and the lock goes.
CheckoutAllocate(i) ==
    LET c == checkouts[i]
        Free(k) == ~InUse(Derive(c.desc, k))
    IN /\ c.pc = "locked" /\ ~Purging(c.nym)
       /\ \E k \in c.idx .. MaxIdx - 1 :
            /\ Free(k) /\ \A l \in c.idx .. k - 1 : ~Free(l)
            /\ next' = [next EXCEPT ![c.nym] = k + 1]
            /\ checkouts' = [checkouts EXCEPT ![i] =
                               [pc |-> "allocated", nym |-> c.nym,
                                desc |-> c.desc, idx |-> k]]
       /\ UNCHANGED <<owner, active, desc, born, held, swaps, invoices,
                      requests, calls, claims, watch, history>>

\* insert_invoice; the unique index refuses an address that is taken.
CheckoutInsert(i) ==
    LET c == checkouts[i]
        a == Derive(c.desc, c.idx)
    IN /\ c.pc = "allocated"
       /\ checkouts' = [checkouts EXCEPT ![i] =
                          [pc |-> IF InUse(a) THEN "failed" ELSE "inserted",
                           nym |-> c.nym, desc |-> c.desc, idx |-> c.idx]]
       /\ invoices' = IF InUse(a) THEN invoices
                                  ELSE [invoices EXCEPT ![i] = a]
       /\ UNCHANGED <<users, held, swaps, requests, calls, claims, watch,
                      history>>

CheckoutStep(i) == CheckoutAllocate(i) \/ CheckoutInsert(i)

\* An invoice whose address the wallet derived by itself, from a descriptor
\* that the server may know too.
WalletInvoice(i, a) ==
    /\ checkouts[i].pc = "idle" /\ invoices[i] = None
    /\ ~InUse(a)
    /\ invoices' = [invoices EXCEPT ![i] = a]
    /\ UNCHANGED <<users, held, swaps, tasks, history>>

-----------------------------------------------------------------------------
(***************************************************************************)
(* poll_nyms works through a list of rows read at the start of the tick.   *)
(***************************************************************************)

Idle(left) == [pc |-> "idle", todo |-> left, at |-> None, offset |-> 0]
Scanning(pc, k) == [pc |-> pc, todo |-> watch.todo, at |-> watch.at,
                    offset |-> k]

Listed(ns) == {[nym |-> n, desc |-> desc[n], next |-> next[n]] : n \in ns}

\* list_active_nyms_for_watcher, at an idle tick
WatchList ==
    /\ watch.pc = "idle" /\ watch.todo = {}
    /\ watch' = Idle(Listed({n \in Nyms : active[n]}))
    /\ UNCHANGED <<rows, requests, calls, claims, checkouts, history>>

\* list_recently_active_nyms_for_watcher: those a callback has touched.
WatchListRecent ==
    /\ watch.pc = "idle" /\ watch.todo = {}
    /\ \E recent \in SUBSET {n \in Nyms : active[n]} :
         watch' = Idle(Listed(recent))
    /\ UNCHANGED <<rows, requests, calls, claims, checkouts, history>>

WatchTake ==
    /\ watch.pc = "idle"
    /\ \E u \in watch.todo :
         watch' = [pc |-> "scan", todo |-> watch.todo \ {u}, at |-> u,
                   offset |-> 0]
    /\ UNCHANGED <<rows, requests, calls, claims, checkouts, history>>

Watched == Derive(watch.at.desc, watch.at.next + watch.offset)

\* has_history says no: the next index, up to the lookahead.
WatchMiss ==
    /\ watch.pc = "scan" /\ Watched \notin history
    /\ watch' = IF watch.offset < Lookahead
                THEN Scanning("scan", watch.offset + 1) ELSE Idle(watch.todo)
    /\ UNCHANGED <<rows, requests, calls, claims, checkouts, history>>

\* Bug: the guard of the update is strict.
WatchAdvanceStrict ==
    /\ watch.pc = "scan" /\ Watched \in history
    /\ LET n == watch.at.nym
           k == Watched.idx
       IN /\ ~Purging(n)
          /\ next' = IF active[n] /\ next[n] < k
                     THEN [next EXCEPT ![n] = k + 1] ELSE next
    /\ watch' = Scanning("mark", watch.offset)
    /\ UNCHANGED <<owner, active, desc, born, held, swaps, invoices, requests,
                   calls, claims, checkouts, history>>

\* has_history says yes: advance_next_addr_idx, which never moves back.
WatchAdvance ==
    /\ watch.pc = "scan" /\ Watched \in history
    /\ LET n == watch.at.nym
           k == Watched.idx
       IN /\ ~Purging(n)
          /\ next' = IF active[n] /\ next[n] <= k
                     THEN [next EXCEPT ![n] = k + 1] ELSE next
    /\ watch' = Scanning("mark", watch.offset)
    /\ UNCHANGED <<owner, active, desc, born, held, swaps, invoices, requests,
                   calls, claims, checkouts, history>>

\* mark_reservations_fulfilled_at_idx; then the next nym.
WatchMark ==
    /\ watch.pc = "mark"
    /\ held' = [k \in Nyms \X Outpoints |->
                  IF held[k] # None /\ k[1] = watch.at.nym
                       /\ held[k].idx = Watched.idx
                  THEN [idx |-> held[k].idx, fulfilled |-> TRUE] ELSE held[k]]
    /\ watch' = Idle(watch.todo)
    /\ UNCHANGED <<users, swaps, invoices, requests, calls, claims, checkouts,
                   history>>

WatchStep == WatchTake \/ WatchMiss \/ WatchAdvance \/ WatchMark

\* The bucket is empty or Electrum fails: the next nym.  A failed update, or
\* a restart, ends the tick.
WatchFails ==
    /\ watch.pc # "idle"
    /\ \E left \in {watch.todo, {}} : watch' = Idle(left)
    /\ UNCHANGED <<rows, requests, calls, claims, checkouts, history>>

\* prune_outpoint_addresses
Prune(n, o) ==
    /\ held[<<n, o>>] # None /\ ~held[<<n, o>>].fulfilled
    /\ held' = [held EXCEPT ![<<n, o>>] = None]
    /\ UNCHANGED <<users, swaps, invoices, tasks, history>>

-----------------------------------------------------------------------------
\* An address of a wallet is paid, by a payer or by a claim.
Pay(a) ==
    /\ a \notin history
    /\ history' = history \cup {a}
    /\ UNCHANGED <<rows, tasks>>

Next ==
    \/ \E p \in Npubs : OwnerStep(p)
    \/ \E p \in Npubs, n \in Nyms, d \in Descs : Register(p, n, d)
    \/ \E p \in Npubs, n \in Nyms, what \in {"update", "delete", "purge"},
          d \in Descs \cup {NoDesc} : Preflight(p, n, what, d)
    \/ \E c \in Calls, n \in Nyms, o \in Outpoints : CallRead(c, n, o)
    \/ \E c \in Calls : CallStep(c)
    \/ \E s \in Swaps : ClaimStep(s) \/ SwapMoves(s)
    \/ \E i \in Invoices, n \in Nyms : CheckoutRead(i, n)
    \/ \E i \in Invoices : CheckoutStep(i)
    \/ \E i \in Invoices, d \in Descs, k \in WalletIdx :
         WalletInvoice(i, Derive(d, k))
    \/ WatchList \/ WatchListRecent \/ WatchStep \/ WatchFails
    \/ \E n \in Nyms, o \in Outpoints : Prune(n, o)
    \/ \E d \in Descs, k \in PaidIdx : Pay(Derive(d, k))

Spec == Init /\ [][Next]_vars

(***************************************************************************)
(* tokio runs a handler that has begun to its end, the claimer sweeps and  *)
(* the watcher ticks on timers; its bucket is not empty at every scan.     *)
(***************************************************************************)
Fairness ==
    /\ \A p \in Npubs : WF_vars(OwnerStep(p))
    /\ \A i \in Invoices : WF_vars(CheckoutStep(i))
    /\ \A s \in Swaps : WF_vars(ClaimStep(s))
    /\ WF_vars(WatchList) /\ WF_vars(WatchStep) /\ SF_vars(WatchAdvance)

FairSpec == Spec /\ Fairness
=============================================================================
