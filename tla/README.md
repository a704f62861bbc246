# A TLA+ model of bullnym

bullnym is a Rust server (`src/src`, about 17,000 lines) that gives a merchant
a name, a Lightning address, donation pages, a point of sale and invoices,
without ever holding the merchant's keys. Payers pay by Lightning, by Bitcoin
or by Liquid; everything ends as L-BTC at an address derived from the
merchant's descriptor. Lightning and Bitcoin arrive through swaps at Boltz, and
bullnym has to *claim* them in time: the keys of a pending claim are in its
database, and nobody else will do it.

This directory models the parts in which money can be lost, counted twice or
sent to the wrong wallet: the life of a swap, reverse or chain; the ledger of an
invoice; the offers of an invoice; the addresses of a name; and the pages and
registers of a merchant. Each has a detailed module with one action per
statement or call of the code, TLC instances, and proofs that TLAPS checks for
every value of the constants.

## 1. Inventory

Parts of the system, the state each keeps, and what makes it correct. The
status column is that of `PROJECT.json`.

| Part | Source | State | Operations | Correct when | Status |
|---|---|---|---|---|---|
| Webhook intake | `claimer.rs` 177-535, `db/rate_limits.rs` | `webhook_events` | deduplicate, look up, one arm per Boltz status | a late, repeated or lost webhook does no harm | partly (no check of the URL secret) |
| Reverse-swap claimer | `claimer.rs` 592-1085, 1359-1745 | `swap_records`, advisory lock `claim:<id>`, its own locals | lock, resolve the destination, construct, persist, broadcast, probe, account; sweep every 10 s | one claim, to one destination; nothing claimable is abandoned; a claim is credited | modelled |
| Reconciler | `reconciler.rs` | the rows it listed | list, ask Boltz, decide, apply; every 90 s | finds what webhooks missed and never undoes what they did | modelled |
| Swap rows | `db/swaps.rs` | `swap_records` | guarded updates | a terminal status is final | modelled |
| Payment ledger | `db/invoices.rs`, `invoice.rs` | `invoices`, `invoice_payment_events`, `invoice_payment_observations` | record a payment, mark settlement, cancel, expire, terminalize | every payment counts once, totals and verdicts follow the events | partly (lists are left out) |
| Liquid watcher | `chain_watcher.rs` | scan position | list, fetch history, record outputs; move the cursor of a name | every output is counted, a paid index is passed | partly (no rate buckets) |
| Bitcoin watcher | `bitcoin_watcher.rs` | tip, outputs at hand | list, fetch tip, fetch address, observe or count | counted only when deep enough | partly (no budget) |
| Garbage collection | `gc.rs` | none | expire, terminalize, prune | closes what is over, spares what is in flight | partly (no rate-limit events) |
| Chain swaps | `claimer.rs` 368-509, 1087-1342, `db/chain_swaps.rs` | `chain_swap_records` | webhooks, sweep, claim | as for reverse swaps, without a reconciler | modelled |
| Offers and checkout | `invoice.rs` 464-632, 948-1477 | swap row and invoice, session lock `invoice-lightning:<id>`, the pool | create, clean up, poll, refresh | one swap per need; what is shown is recorded; every request ends | partly (no validation, no limits) |
| Names and users | `registration.rs`, `db/users.rs` | `users` | register, update, deactivate, purge, reactivate | one active name per key; nothing in flight is purged | partly (no limits) |
| Address allocation | `lnurl.rs`, `db/reservations.rs`, `db/watcher.rs`, `db/invoices.rs` 989-1053 | `users.next_addr_idx`, `outpoint_addresses` | four writers of one index | an address of an invoice is given to one payer | partly (no derivation) |
| POS terminals | `pos.rs`, `db/pos_terminals.rs` | `pos_terminals`, `donation_pages.pos_*` | pair, claim, revoke, expire, purge, invoice | one device per code, one wallet per register | partly (no lists) |
| Donation pages | `donation_page.rs`, `db/donation_pages.rs`, `image_pipeline.rs`, `donation_render.rs` | one row per name, with its own cursor | save, archive, allocate, render | payers and terminals pay different wallets | partly (no images, no rendering) |
| Rate limits | `rate_limit.rs`, `db/rate_limits.rs`, `ip_whitelist.rs` | windows in memory and in `rate_limit_events`, token buckets | look up, record, prune | the limit holds under concurrency | partly (failed claims) |
| Start-up, configuration, errors, QR | `main.rs`, `config.rs`, ... | the connection pool | wiring | nobody waits for ever for a connection | partly (the pool) |
| Pricer | `pricer.rs` | a cache with a time to live | fetch, fall back to the stale rate | a rate is data here | not modelled |
| Proofs of funds, signatures | `utxo.rs`, `certification.rs`, `auth.rs` | none | verify | cryptography | not modelled |
| Boltz, Electrum, Esplora clients | `boltz.rs` and the backends | none | calls | external; they appear as steps of the environment | not modelled |
| Readiness, version | `readiness.rs`, `version.rs` | none | probes | read only | not modelled |
| Web application, schema, tests, plans | `pwa`, `migrations`, `tests`, ... | none | views; constraints appear as guards | read as evidence of intent | not modelled |

**How the parts meet.** There are no queues or actors: tasks share a PostgreSQL
database and meet on rows. A webhook handler, the claimer's sweep and the
reconciler all update the same swap row, through statements that are guarded by
`status NOT IN (terminal)` but whose row counts the callers ignore. A claim
pays the address of the invoice, which the Liquid watcher scans too, so the
claimer and the watcher report one transaction under two keys. Checkouts, the
LNURL callback, the claimer and the watcher move one cursor of a name, some by
a statement, some by reading it first; saves, archives and claims of pairing
codes write the row from which checkouts take an address. GC closes
invoices that any of them may still be about to credit. The process may die
anywhere; what is left is what was committed.

**What is hard.** Interleavings of these tasks between any two statements;
webhooks that are late, reordered or lost; a broadcast or a commit whose answer
is lost; crashes between the statements of one logical operation; verdicts that
depend on the order in which payments are found; retries that must neither stop
early nor build a second transaction; locks that belong to a database session
and outlive the request that took them; rows that are read, left unlocked, and
written back. `PROJECT.json` lists each such place as a
hazard with its line and the properties that watch over it.

## 2. Modules

| Module | What it is |
|---|---|
| `ReverseSwap` | One reverse swap: row, invoice, webhook handlers, sweep, reconciler, Boltz, chain, clock, faults |
| `SwapPromise` | What a swap of either kind promises: the coin, one final verdict, the credit |
| `ReverseSwapProperties` | Types, invariants, action properties, liveness, the refinements `Promise` and `Life`, the inductive invariant `IInv` |
| `MCReverseSwap` | Its instances for TLC |
| `ReverseSwapProofs` | Its theorems |
| `SwapLife` | What `AddressBook` assumes of a swap row, and `ReverseSwap` keeps: its phase and its address |
| `ChainSwap` | One chain swap: row, invoice, webhook handlers, sweep, Boltz, chain, clock, faults |
| `ChainSwapProperties` | Its properties, its refinement of `SwapPromise` and its `IInv` |
| `MCChainSwap` | Its instances for TLC |
| `ChainSwapProofs` | Its theorems |
| `InvoiceLedger` | One invoice and its events, fed by two watchers, the claimer and GC |
| `InvoiceLedgerProperties` | Its properties and the inductive invariant `LedgerInv` |
| `MCInvoiceLedger` | Its instances for TLC |
| `LedgerSums` | The sum of any finite set of events: lemmas about `Total` |
| `InvoiceLedgerProofs` | Its theorems |
| `AddressBook` | Names, their cursors and reservations: owners, the LNURL callback, claims, checkouts, the watcher, GC |
| `AddressBookProperties`, `MCAddressBook`, `AddressBookProofs` | Its properties and `IInv`, instances, theorems |
| `LightningOffer` | The offers of one invoice: creation, polls, refreshes under a session lock, the pool, lost clients |
| `LightningOfferProperties`, `MCLightningOffer`, `LightningOfferProofs` | Its properties and `IInv`, instances, theorems |
| `Storefront` | The page of a name, its terminals, claims of pairing codes, and checkouts on either surface |
| `StorefrontProperties`, `MCStorefront`, `StorefrontProofs` | Its properties and `IInv`, instances, theorems |

### ReverseSwap and the code

*State.* `status` ... `address` are columns of `swap_records`; `invStatus`,
`settlement` and `credited` are the invoice's status, settlement status and
payment event; `processed` is `webhook_events`. `pc`, `msg`, `hand` and `coop`
are the program counter and locals of the tasks that claim, `lock` the advisory
lock; `rpc`, `rstatus` and `raction` those of a reconciler tick. `boltz`,
`emitted`, `spender`, `broadcast` and `revealed` are the world.

*Steps.* A step is one statement (or one transaction) or one call to a backend.
`Deliver` is the insert that deduplicates a webhook; `Lookup` and the `Apply*`
actions are `dispatch_webhook`, arm by arm; `Begin` ... `Credit` are
`claim_swap_inner` in its order: take the lock and read the row, resolve the
destination, construct (or be refused by Boltz), commit the claim bytes with the
lease, broadcast outside the lock, probe after an error, mark claimed, mark the
invoice, clear the failure state, record the payment. `Fail` is
`record_claim_failure`. `ReconList` ... `ReconMarkRefunded` are `run_one_tick`.
`DecideAction` is `decide_action`. `AfterError` says where each caller goes
when a statement fails: some errors propagate, some count as failed attempts,
some are logged and skipped.

*What the data is.* A transaction is its destination, its path and a nonce: two
constructions of one claim differ, because blinding and signing are randomised
and the fee may change. `next_claim_attempt_at` is what queries compare: null,
due, or in the future, either as lease or as backoff.

*Left out.* Reorganisations and eviction of a claim from the mempool (the
spender of the lockup never changes); the reconciler's minimum age (rows are
listed as soon as they are not terminal, which only adds behaviours); the
administrator's rescue of a stuck row; the detachment of a swap from an invoice
that is deleted (`LightningOffer`), after which it is claimed like one of a
Lightning Address; `claim_failed`, which no statement
writes; `NeedsManualAttention`, which changes nothing; pruning of webhook ids. The
swap pays the whole invoice: parts and mixed rails are `InvoiceLedger`'s matter.

### ChainSwap and the code

The payer locks bitcoin at Boltz, Boltz locks L-BTC (the *server lock*), and the
claim of the server lock pays the invoice. State and steps are those of
`ReverseSwap`, on `chain_swap_records`, with these differences, which are the
code's: the destination is always the invoice's address, so there is nothing to
resolve; the cooperative path is the only one; no reconciler reads these rows;
one function, `StatusFromBoltz`, maps webhooks to statuses, and *every* status
that is not terminal is overwritten by the mapped one, in whatever order
webhooks come (`ApplyStatus`). `transaction.claimed` writes nothing and prompts
an attempt (`ApplyClaimed`). In `claim_chain_swap_inner` the failure state is
cleared before the invoice is marked, in `claim_swap_inner` after it.

Its abstract view differs in one point: `expired` and `lockup_failed` count as
giving up, not as a statement about the coin, because the code writes them
whether or not a server lock exists. `VerdictView` would not refine
`SwapPromise` with the reverse swap's reading of `expired`.

*Left out.* As for `ReverseSwap`; and `claim_failed`, which no statement writes.

### InvoiceLedger and the code

*State.* The row, its events and its observations; what the chains show; how
far the claimer is with each swap; what each watcher holds in its hands between
two calls. A payment is a piece of evidence with the identity of its
`event_key`; constants give its source, amount and transaction, and a Liquid
output may have the transaction of a swap: it is the swap's claim.

*Steps.* `Record` is `record_invoice_payment`, in one step since it holds the
row (`FOR UPDATE`) from its first read on, with its refusal of cancelled
invoices, of duplicates and of outputs that a swap accounts for, its deletion of
the output that a swap replaces, and the verdict. `LiquidList`, `LiquidHistory`
and `LiquidRecord` are a scan; `BtcList`, `BtcTip`, `BtcFetch`, `BtcRecord`,
`BtcCounted`, `BtcObserve`, `BtcMissing` and `BtcMark` a check of an address,
whose tip and outputs are read by separate calls, and whose event and
observation are written by separate statements. `SwapStep` is the claimer's
side, `Cancel`, `Expire` and terminalization the ends of an invoice. A status
request terminalizes one row by one guarded update, which Postgres evaluates
again when it had to wait for the row (`Terminalize`). GC does it for a batch: a
CTE chooses the ids by the statement's snapshot and the update joins them by id
alone, so it is two steps, `BatchChooses` and `BatchWrites`, with whatever
commits between them, and `chosen` is what the first leaves to the second. The
grace period is not modelled: the latest payment may be old enough at any time.

*Left out.* Reorganisations; conversion of fiat; the rate buckets between
invoices; a second invoice (no statement but the batches reads two, and each of
their rows is on its own).

### AddressBook and the code

*State.* `owner`, `active`, `desc`, `next` and `born` are the `users` rows,
`held` the rows of `outpoint_addresses`, `swaps` and `invoices` what a purge and
an allocation look at in the swap rows and in `invoice_payment_addresses`. The
other variables are the tasks under way with what they have read. `history` is
what the chain shows.

*Steps.* `Register` is `register_user_atomic`; `Preflight` and `Update`,
`Deactivate`, `PurgeCount` and `PurgeDelete` the two halves of the owner's
requests. `CallRead`, `AllocateRead`, `AllocateInsert`, `ServeLightning` and
`Respond` are the LNURL callback; `ClaimRead` and `ClaimAllocate`
`resolve_claim_address`; `CheckoutRead`, `CheckoutAllocate` and
`CheckoutInsert` the allocation of a checkout, split where another transaction
may commit in between; `WatchList` ... `WatchMark` `poll_nyms`, which works
through a snapshot; `Prune` is GC. Postgres is present by what its locks
exclude: the advisory lock of an allocation, and the row lock of a purge, for
which inserts that refer to the row wait as well.

*Left out.* The limits before each request; the failure of an allocation after
100 indices that are taken, which moves the cursor past them and answers with an
error; the address of a wallet invoice is any address of the wallet.

### LightningOffer and the code

*State.* The invoice, its offers in the order of their rows, the request that
creates it, those that poll or refresh it, and the session lock, which belongs
to a connection and counts how often it was taken.

*Steps.* `CreateInvoice`, `EagerSwap`, `EagerRecord` and `ChainOffer` are the
creation of a checkout or of a wallet invoice. `CleanupSelect` and
`CleanupDelete` are the one statement that deletes a checkout whose offer
failed: `DELETE ... AND NOT EXISTS (SELECT 1 FROM swap_records ...)` looks for
swaps in its snapshot, may then have to wait for the row, which an insertion of
a swap locks for its foreign key, and looks again at most at the row; what was
recorded since is detached by `ON DELETE SET NULL` (migration 019). Offers are
found by their invoice, so a detached one is never shown again. `Poll` and
`PollLatest` the status endpoint; `Fetch` ... `Unlock` a refresh: read the
invoice, then the offer, acquire a connection, take the lock, look again, take a
key, ask Boltz, record, unlock. `Drop` is a client that leaves, which returns
the session with its lock to the pool; `GrantAbandoned` and `Recycle` say what
happens to such sessions. `AcquireTimeout` is that of the pool: everything a
refresh does under the lock but its second look needs another connection than
the one it keeps.

*Left out.* A lock holder whose connection breaks (the lock is gone then). A
statement whose caller has gone, or has been told of an error, has taken effect
by then or never does; in Postgres it may still be running for a moment.

### Storefront and the code

*State.* `active`, `page`, `desc` and `next` are the name, its page row and the
descriptor and cursor of each *surface*: the name, the page, the register.
`terminals` are the rows of `pos_terminals`, `claims`, `saves` and `checkouts`
the requests under way, `failures` the window of failed claims of a source.
`paired` records which descriptor a terminal was claimed with; no column does.

*Steps.* `SaveCheck`, `Upsert`, `Archive` are the owner's; `PairingCheck` and
`PairingInsert` `create_pairing`; `ClaimStart`, `ClaimPage`, `ClaimBegin`,
`ClaimLock`, `ClaimLockPage`, `ClaimCommit`, `ClaimRejected` and `ClaimFails`
`claim_pairing` and its transaction, whose row locks are the task at that
point; `PurgeCodes` is GC, `Revoke` the owner. `CheckoutStart` ... `Answer` are
`create_checkout_invoice_inner`, with `AllocateRead` and `AllocateWrite` split
as the row is read without a lock, and `FallBack` to the wallet of the name.
`Reactivate`, `Rotate`, `Deactivate` and `Purge` are what `AddressBook` has in
detail. Reads that follow each other with nothing in between that a property
could tell are one step: limit and owner of a claim, name and page of a
pairing, terminal and page of a checkout.

*Left out.* Labels, `last_seen`, lists and polls; the other limits; images.

## 3. Runs

All runs set `CHECK_DEADLOCK FALSE`: a settled swap, a closed invoice, an
answered request are at rest, and the model then stops.

| Run | Question | Instance |
|---|---|---|
| `ReverseSwap_safety` | Do the races and faults of a swap keep every safety property and the abstract promise? | one webhook handler (any number of deliveries), the sweep, the reconciler; 2 attempts, 1 fault, 2 nonces, 2 addresses, with and without invoice; Boltz up to a refund; 3.8 million states |
| `ReverseSwap_webhooks` | Do two webhooks and the sweep at once still keep the promise? (One claim is proved, for any number.) | two handlers, 2 attempts, 2 nonces, an invoice, no fault; Boltz up to `invoice.settled` |
| `ReverseSwap_liveness` | Does a claimable row settle, is a lost webhook made up for? | 2 attempts, 1 fault, up to `swap.expired` |
| `ReverseSwap_creditlost` | Is a claimed swap credited? No: one failure loses the credit | 1 attempt, 1 fault |
| `ReverseSwap_scriptpath` | Is the script path taken when it is scheduled? Not for a row still pending | no fault |
| `ChainSwap_safety` | Do races, faults and webhooks in any order keep a chain swap's safety properties and promise, and is a server lock dealt with once the news of the payer's lock is spent? | one handler, the sweep; 2 attempts, 1 fault, 2 transactions; refusal, server lock, claim, expiry and refund; 0.5 million states, safety and liveness at once |
| `ChainSwap_drained` | Is a claimable chain swap always dealt with? Not if news of the payer's lock comes last | two handlers, no fault |
| `InvoiceLedger_safety` | Do concurrent evidence, closure and faults keep the ledger right, is every payment counted and every invoice closed? | a checkout; a swap of 600 sat, its claim of 590, a Bitcoin output of 400 and Liquid dust of 5, so that the invoice is whole, short within one rail's tolerance and beyond another's, and paid turns partial; 1 fault; 0.6 million states, safety and liveness at once |
| `AddressBook_safety` | Are addresses of checkouts exclusive, are live swaps spared by a purge, is a paid index passed? | one name and key, one LUD-22 payer, one swap, two checkouts, a wallet invoice at index 1, which may be paid; 2 indices; 0.8 million states, safety and liveness at once |
| `AddressBook_exclusive` | Is the address of a checkout nobody else's? No: it may be held for a LUD-22 payer | the same |
| `LightningOffer_safety` | One replacement per need, nothing shown that is not recorded, no invoice taken from what its creation promised, and does every request end? | the creation and two requests on a pool of two connections, so that a refresh and one that waits for it use it up; amount 2, a clock up to the deadline, swaps that live 0 or 1; 1.1 million states |
| `Storefront_safety` | Does the register keep one wallet, are addresses exclusive, is a pairing final? | two terminals, two claims with two register descriptors, two checkouts, one owner's request; a limit of one failure; an index taken by a wallet invoice; 3.7 million states |

**Bounds.** `MaxAttempts = 2` has a first, a middle and a last failure;
`MaxFaults` bounds crashes and failed calls, at most one per behaviour, placed
anywhere: a retry after a fault is an ordinary attempt, so a second fault finds
the system in a state that a late webhook reaches too. Two nonces tell two
constructions apart, two addresses two allocations. `BoltzMay` limits Boltz to
the statuses that the question is about. The amounts keep the proportions of
the default tolerances around an amount of 1000 sat. Two checkouts, claims or
requests are what a race needs; the third party to each is the owner, GC or the
watcher. `MaxIdx = 2` has an index that is taken, one that is free and a cursor
past both; of a second descriptor, name or key, which would not fit the time of
a run, the proofs speak. Every safety theorem holds for every value of these
constants.

**Fairness.** Weak fairness on each task's steps once it is started (tokio
runs it), on the sweep and the reconciler (timers of 10 s and 90 s), on the
clock, on the watcher's and GC's loops, and on the acquire timeout of the pool,
which the database driver keeps; strong fairness only on `WatchAdvance`, as the
bucket is not empty at every scan. None on Boltz, on deliveries, on success of a
broadcast, on faults, on owners or on payers. Two limits: fairness of a watcher
assumes that
its rate bucket lets this invoice or name be reached; and fairness of the sweep
says that a listed row is tried, not that the attempt succeeds. `Storefront`
states none: its requests end or fail by themselves, and what must eventually
happen there (a code lapses) is the clock's.

## 4. What the code does not keep

Four statements of the repository's own documents fail, each shown by a run of
its own and described in `PROJECT.json`:

1. *Restart-safe* (background-workers.md): a claimed row leaves every list
   before its payment is recorded (`ReverseSwap_creditlost`); the Liquid watcher
   may still count the claim's output where the invoice accepts Liquid.
2. *Schedule an immediate retry so the sweep takes the script path*
   (reconciler.rs): the sweep does not list pending rows (`ReverseSwap_scriptpath`).
3. *The claimer drains claimable Boltz swaps* (background-workers.md): a late
   `transaction.mempool` or `transaction.confirmed` takes a chain swap from
   `server_lock_*` or `claiming` back to `user_lock_*`, which the sweep does not
   list (`ChainSwap_drained`). `ClaimableSettles` shows that this is the only
   way: once that news is spent, the sweep does its work.
4. *Avoid address reuse* (architecture.md): an address that is held for a
   LUD-22 payer is given to the next checkout too (`AddressBook_exclusive`).

The models have these behaviours too; they are for a reviewer of the code to
judge, and no run is spent on them.

*Ledger.* GC's batch overwrites a payment: a checkout that it has chosen as a
stale partial and that a payment then makes paid or overpaid, committed before
the batch gets to the row, is written underpaid, as the update joins by id and
does not look again (`db/invoices.rs` 942; payment-architecture.md 220:
"expired after receiving some value below the target"). `VerdictMatchesTotal`
names this case, `Overwritten`, and allows no other; without the exception TLC
finds it at once, as it does `status = "underpaid" => paidAmount < Amount`. The
row keeps its sum and its settlement mark, and the next payment corrects it. A
paid invoice is not final either: `ClosureGivesWayToEvidence` says by what it
falls back. A late in-progress flip overwrites the mark of a stuck claim, as the
row count of the guarded update is ignored (`invoice.rs` 102,
payment-architecture.md 283). The tolerance of the latest rail judges the whole
sum, so dust on another rail turns a paid invoice into a partial one, which the
run reaches (`db/invoices.rs` 729, payment-architecture.md 260). A partial
payment resets `settlement_status`, so a checkout may be declared underpaid while
a lockup is on its way (`db/invoices.rs` 743, ITEM-002).

*Claims.* The lease of `claimer.rs` 941 binds the sweep only, which `OneClaimTx`
shows to be harmless; `lockup_refunded` is written by the webhook handler too,
although `db/swaps.rs` 29 says otherwise. A chain swap is closed on
`swap.expired` although its server lock may still be claimable.

*Names.* Update and deletion check the name, then act on whatever row of the key
is active then; only the latest inactive name can be reactivated; a purge is
refused for ever by `lockup_refunded` and `claim_stuck`, although its comment
says "non-terminal"; a swap can still be recorded for a name purged meanwhile
(payment-architecture.md 53: "not payable"). A payer may get an address of a
descriptor that was rotated during the call (`lnurl.rs` 307), the watcher may
mark reservations of the new descriptor for payments to the old, and
reservations behind the cursor are never scanned again.

*Offers.* An offer that a refresh records while the deletion after a failed
creation waits for the row is detached from its invoice, although the deletion
asks for swaps (`db/invoices.rs` 216): its BOLT11 may have been shown, its swap
is claimed for the name, and there is no invoice to credit.
`OffersKeepTheirInvoice` says that no other offer is. `OneOfferPerNeed` compares
a replacement with the one right before it; the eager offer is recorded without
the lock, and of replacements with the eager offer between them nothing is said.
The time of a refresh is read before the lock, so a replacement may be created
after the deadline, and its amount may be stale (`invoice.rs` 1124, 1140); an
invoice closed meanwhile still gets an offer. Requests that wait for the lock
hold the connections its holder needs, so refreshes of one invoice can exhaust
the pool until the acquire timeout of 30 s; a lock that a lost client leaves is
freed only when its session is reused or closed.

*Storefront.* A claim looks at the page before its transaction, so it may commit
after an archive or a purge ("Archived pages block POS everywhere, including
claims for pairings created just before the archive", `pos.rs` 143). A page that
is archived between the check of a checkout and its allocation sends that payer
to the wallet of the name, even if the page has its own. Address and blinding
key of a checkout come "from the donation-page CT descriptor when present,
otherwise from the nym CT descriptor" (payment-architecture.md 351), but for an
address of the name the key is taken from a descriptor read earlier
(`invoice.rs` 506, 554): after a rotation in between it does not open the
address, the watcher skips the output as unreadable (`chain_watcher.rs` 286),
and nothing fails. TLC finds both at once if `Storefront` is asked for "no claim
on an archived page" and "the key is that of the address", the latter with two
descriptors of the name.
A save that was checked before a purge takes the page out of the archive after
it. The limit of failed claims can be exceeded by the claims that run at once,
less one. Nothing in the code forces the three descriptors to be of different
wallets; `Wallet` assumes it, as the "Fund Separation" table of
`docs/features/pos-terminals.md` does.

## 5. Proofs

`ReverseSwapProofs`, `ChainSwapProofs`, `InvoiceLedgerProofs`,
`AddressBookProofs`, `LightningOfferProofs` and `StorefrontProofs` prove, with
the lemmas of `LedgerSums`, for any number of tasks, addresses, nonces, attempts, faults, names, keys,
connections and terminals, and for any set of payments, every safety property
and action property that the runs check. The
assumptions are the named `ASSUME`s of the modules; `TxAssumption`,
`NoneAssumption` and their like only say that model values differ,
`ClaimAssumption` that only an output of the claim itself shares the transaction
of a swap, `WalletAssumption` that the wallets of the three surfaces are
distinct.

*Why an inductive invariant.* `OneClaimTx` is not inductive: a step from a state
in which a task holds a transaction that the row does not know would break it.
`IInv` adds what each task holds at each label (`HandInv`), who has the lock
(`LockInv`), that what a task learnt is still true when it acts
(`KnowledgeInv`), what the world can have shown (`WorldInv`) and how the row
relates to it (`RowInv`). The heart is a chain: under the lock the row is read
and, if it has no claim, one is built for its address; the commit writes it
only if the row still has none; so after `Commit` the hand equals the row, and
all that is ever broadcast is the row's claim. The other part is about the
coin: a row is claimable only when the lockup exists, `MarkExpired` is decided
only from a status that no lockup precedes, so no row that is closed as expired
had a lockup to claim. `ImplementsPromise` maps every step to one of
`SwapPromise` or to a stutter.

`ChainSwapProofs` carries the first half of this argument over: lock, hand and
row. The second half has no counterpart, as its rows may be closed over a
lockup; what it needs of the world is only that Boltz speaks of a server lock
after it exists.

`LedgerInv` adds three facts to the properties themselves: what the Bitcoin
watcher holds as deep is deep, an expired invoice is past its deadline, and what
GC's batch has chosen is a checkout with payments.

`VerdictMatchesTotal` speaks of a sum over a set of events, a fold that takes
the set apart in an order of its own choice. `LedgerSums` shows that the order
does not matter (`TotalSplits`, `TotalAdds`, `TotalWithout`): if it did there
would be a smallest set for which it does, since strict inclusion of finite sets
is well-founded, and taking one payment out of that one leads to a
contradiction. With it `StatusSaysWhatWasReceived` follows: the events stay
finitely many although the payments need not be, a recording recomputes the
verdict from the new sum, an invoice that is closed without a verdict is one
that has received nothing (`StatusCoherent`), and what GC's batch writes over a
verdict is the `Overwritten` of section 4. Three consequences are stated for
themselves: a paid invoice lacks one per cent or one satoshi at most, whatever
the tolerances configured (`PaidIsNearlyWhole`); a counted payment of the whole
amount leaves it settled, and paid or overpaid unless it is such a checkout,
whatever else comes (`WholePaymentSettles`); and the sum moves by what is
recorded, once, less what that replaces (`EvidenceAddsUp`).
`ClosureEndsByEvidence` proves what may still move a closed invoice.

`AddressBookProofs` rests on two pieces of exclusion. Checkouts of a name
exclude each other from the read of the cursor to its absolute write, and what
else moves the cursor only moves it up, so the index that is written is past
every index given out before (`CursorInv`). A purge that has counted the swaps
holds the row until it deletes, so no swap is recorded in between (`PurgeInv`).

*How the two models of a swap fit.* `AddressBook` moves its swaps by itself, in
the five phases that a purge tells apart; `ReverseSwap` has the tasks that do
it. `SwapLife` is what the one assumes of the other. `SwapsLiveAsAssumed` shows
that each swap of `AddressBook` is one, `RowLivesAsAssumed` that the row of
`ReverseSwap` is: what a purge counts as closed is never opened again nor given
an address, although a claim that started before looks at the status only once
and `resolve_claim_address` not at all. The reason is that a closed row is
either claimed, hence has its address, or expired, hence never had a lockup,
and that no task claims before one was seen (`SeenInv`). A row that was given
up, `claim_stuck` or `lockup_refunded`, may still get an address from an attempt
under way; `ClaimRead` allows for it.

`LightningOfferProofs` shows that the lock is held by whoever is past it, though
it belongs to a session that leaks and is reused (`LockInv`), and hence that
what a request saw under the lock is still so when it records
(`CreatorIsUpToDate`). `CreationInv` says where the creation stands: the deletion
begins without offers and only refreshes add some while it runs, which is what
`OffersKept` rests on.

`StorefrontProofs` shows that a claim which has read the page holds it until it
commits, so that it overwrites what it has read (`ClaimInv`): the first
descriptor of the register is the last, and a terminal that is paired and an
invoice of it always go with the stored one. `CursorInv` is the argument of
`AddressBookProofs`, per surface. `FailuresBounded` counts the claims under way
as failures that may still come.

*Only model-checked.* Liveness and fairness, which need ENABLED:
`ClaimableSettles`, `LostWebhookRecovered`, `LiquidIsCounted`, `BitcoinIsCounted`,
`ExpiredIsClosed`, `PaidIndexIsPassed`, `EveryRequestEnds`; and the four
counterexamples of section 4.

## 6. Not modelled, and what is left

*Not modelled.* The web application, templates, migrations, tests and plans;
verification of signatures and of proofs of funds, which is cryptography in one
request; the pricer, whose rates are data to everybody else; readiness and
version; parsing of the configuration; rendering and transcoding of images.
Concurrent uploads of an image may leave the file of one and the hash of the
other: a page then shows an old picture, nothing else depends on it. The windows
of `rate_limit.rs` other than that of failed claims insert and count in one
transaction under an advisory lock, or in one call under the shard lock of the
map; a model would be one step. The token buckets in front of Electrum and
Esplora appear as assumptions of fairness.

*Worth doing next.* Reorganisations, in `InvoiceLedger`; the rescue of a stuck
row, on `ReverseSwap`; `AddressBook` with two names and two descriptors in TLC;
composition of `LightningOffer` with `InvoiceLedger`, whose `Pay` and `Close` it
abstracts; pure functions (backoff, tolerance, minor units) against a reference
definition.
