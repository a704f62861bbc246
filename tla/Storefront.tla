----------------------------- MODULE Storefront -----------------------------
(***************************************************************************)
(* The page of a nym, its POS terminals, and the invoices made on either:  *)
(*                                                                         *)
(*   - the owner saves and archives the page (donation_page.rs), and       *)
(*     rotates, deactivates, purges or restores the nym (db/users.rs);     *)
(*   - a device asks for a pairing code, the owner's wallet claims it with *)
(*     the descriptor of the register, revokes it, and GC drops the codes  *)
(*     nobody claimed (pos.rs, db/pos_terminals.rs, gc.rs);                *)
(*   - payers and terminals ask for invoices, whose Liquid address comes   *)
(*     from the wallet of the surface they use (invoice.rs,                *)
(*     db/donation_pages.rs).                                              *)
(*                                                                         *)
(* One nym, which one key owns for good.  A step is one statement or one   *)
(* short transaction; the long ones are split, and the row locks and       *)
(* advisory locks that they hold to their end are kept as a task that is   *)
(* at a certain point.  What a transaction writes appears when it commits. *)
(* What a request brings is chosen where the code first looks at it.  The  *)
(* code a claim presents is the one of a terminal, and a wrong code is     *)
(* that of a terminal which does not wait for it.                          *)
(***************************************************************************)
EXTENDS Naturals, FiniteSets

CONSTANTS
    Wallet,        \* the descriptors of each wallet of the owner
    Terminals,     \* devices that may be paired
    Claims,        \* concurrent claims of a code, from one source address
    Checkouts,     \* invoices that a checkout may create
    Saves,         \* concurrent requests about the page
    FailureLimit,  \* pos_pairing_claim_failures_per_source_per_hour
    MaxIdx,        \* bound on the indices in use
    Taken,         \* addresses of invoices that the wallet made by itself
    None           \* SQL NULL

\* users.ct_descriptor, donation_pages.ct_descriptor and .pos_ct_descriptor
Surfaces == {"nym", "page", "pos"}

Descs == Wallet["nym"] \cup Wallet["page"] \cup Wallet["pos"]

Address == Descs \X Nat

\* The wallet seeds of docs/features/pos-terminals.md are distinct.
ASSUME WalletAssumption ==
    /\ DOMAIN Wallet = Surfaces
    /\ \A s, r \in Surfaces : s # r => Wallet[s] \cap Wallet[r] = {}
ASSUME LimitAssumption ==
    FailureLimit \in Nat \ {0} /\ IsFiniteSet(Claims)
ASSUME BoundAssumption == MaxIdx \in Nat /\ Taken \subseteq Address
ASSUME NoneAssumption == None \notin Terminals /\ None \notin Descs

VARIABLES
    active,             \* users.is_active
    page,               \* the donation_pages row: "absent", "hidden" from
                        \* the public (not enabled), "live" or "archived"
    desc, next,         \* descriptor and cursor of each surface
    terminals,          \* pos_terminals, and create_pairing under way
    paired,             \* the descriptor signed in the claim of a terminal;
                        \* for the properties, no column holds it
    saves,              \* donation_page::save and archive under way
    claims,             \* claim_pairing under way
    failures,           \* pos_pair_claim_fail of the source, in its window
    checkouts           \* create_checkout_invoice_inner, and its invoice

nym   == <<active>>
pages == <<page, desc, next>>
pos   == <<terminals, paired>>
vars  == <<nym, pages, pos, saves, claims, failures, checkouts>>

\* A row that waits to be claimed is "pending", and "lapsed" once
\* pairing_expires_at has passed.
Unclaimed == {"pending", "lapsed"}
TerminalStatus ==
    {"none", "checked", "claimed", "revoked", "purged"} \cup Unclaimed

ClaimTask(pc, t, found) == [pc |-> pc, terminal |-> t, found |-> found]
Checkout(pc, by, key, s, d, k) ==
    [pc |-> pc, by |-> by, key |-> key, surface |-> s, desc |-> d, idx |-> k]

NoClaim == ClaimTask("idle", None, None)
Asked(pc, by, key) == Checkout(pc, by, key, "page", None, 0)

\* A registered nym without a page.
Init ==
    /\ active = TRUE /\ page = "absent"
    /\ \E d \in Wallet["nym"] :
         desc = [s \in Surfaces |-> IF s = "nym" THEN d ELSE None]
    /\ next = [s \in Surfaces |-> 0]
    /\ terminals = [t \in Terminals |-> "none"]
    /\ paired = [t \in Terminals |-> None]
    /\ saves = [r \in Saves |-> "idle"]
    /\ claims = [c \in Claims |-> NoClaim]
    /\ failures = 0
    /\ checkouts = [i \in Checkouts |-> Asked("idle", "payer", None)]

\* SELECT ... FOR UPDATE of a pending row, and of the page.
HoldsTerminal(c, t) == claims[c].pc \in {"locked", "paged"}
                          /\ claims[c].terminal = t
TerminalFree(t) == \A c \in Claims : ~HoldsTerminal(c, t)
PageFree == \A c \in Claims : claims[c].pc # "paged"

\* The allocations of one surface exclude each other by an advisory lock.
AllocationFree(s) ==
    \A i \in Checkouts : ~(checkouts[i].pc = "reading"
                             /\ checkouts[i].surface = s)

Invoiced(i) == checkouts[i].pc \in {"inserted", "answered"}

\* invoice_payment_addresses has the Liquid address.
InUse(d, k) ==
    \/ <<d, k>> \in Taken
    \/ \E i \in Checkouts :
         Invoiced(i) /\ checkouts[i].desc = d /\ checkouts[i].idx = k

-----------------------------------------------------------------------------
(***************************************************************************)
(* The nym.  AddressBook has these operations in detail.                   *)
(***************************************************************************)

Reactivate(d) ==
    /\ ~active
    /\ active' = TRUE /\ desc' = [desc EXCEPT !["nym"] = d]
    /\ UNCHANGED <<page, next, pos, saves, claims, failures, checkouts>>

Rotate(d) ==
    /\ active /\ desc' = [desc EXCEPT !["nym"] = d]
    /\ UNCHANGED <<nym, page, next, pos, saves, claims, failures, checkouts>>

Deactivate ==
    /\ active /\ active' = FALSE
    /\ UNCHANGED <<pages, pos, saves, claims, failures, checkouts>>

\* UPDATE ... WHERE archived_at IS NULL
Archived == IF page = "absent" THEN "absent" ELSE "archived"

\* purge_user scrubs the descriptor of the nym, not those of its page.
Purge ==
    /\ active /\ PageFree
    /\ active' = FALSE /\ desc' = [desc EXCEPT !["nym"] = None]
    /\ page' = Archived
    /\ UNCHANGED <<next, pos, saves, claims, failures, checkouts>>

-----------------------------------------------------------------------------
(***************************************************************************)
(* The page: assert_nym_owner, then one statement.                         *)
(***************************************************************************)

SaveCheck(r) ==
    /\ saves[r] = "idle" /\ active
    /\ \E what \in {"save", "archive"} : saves' = [saves EXCEPT ![r] = what]
    /\ UNCHANGED <<nym, pages, pos, claims, failures, checkouts>>

\* upsert_donation_page: a save may bring no descriptor, and COALESCE keeps
\* the old one; the cursor stays; the page comes out of the archive.
Upsert(r) ==
    /\ saves[r] = "save" /\ PageFree
    /\ page' \in {"live", "hidden"}
    /\ \E d \in Wallet["page"] \cup {desc["page"]} :
         desc' = [desc EXCEPT !["page"] = d]
    /\ saves' = [saves EXCEPT ![r] = "idle"]
    /\ UNCHANGED <<nym, next, pos, claims, failures, checkouts>>

\* archive_donation_page: an archived or absent page is an error.
Archive(r) ==
    /\ saves[r] = "archive" /\ PageFree
    /\ page' = Archived
    /\ saves' = [saves EXCEPT ![r] = "idle"]
    /\ UNCHANGED <<nym, desc, next, pos, claims, failures, checkouts>>

-----------------------------------------------------------------------------
(***************************************************************************)
(* Pairing codes.                                                          *)
(***************************************************************************)

\* create_pairing reads the nym and the page, which it has not archived.
PairingCheck(t) ==
    /\ terminals[t] = "none" /\ active /\ page # "archived"
    /\ terminals' = [terminals EXCEPT ![t] = "checked"]
    /\ UNCHANGED <<nym, pages, paired, saves, claims, failures, checkouts>>

\* insert_pos_pairing
PairingInsert(t) ==
    /\ terminals[t] = "checked"
    /\ terminals' = [terminals EXCEPT ![t] = "pending"]
    /\ UNCHANGED <<nym, pages, paired, saves, claims, failures, checkouts>>

\* Five minutes pass.
CodeExpires(t) ==
    /\ terminals[t] = "pending"
    /\ terminals' = [terminals EXCEPT ![t] = "lapsed"]
    /\ UNCHANGED <<nym, pages, paired, saves, claims, failures, checkouts>>

\* Bug: the delete does not ask for claimed_at IS NULL.
PurgeableClaimed(t) == terminals[t] \in {"lapsed", "claimed"}

Purgeable(t) == terminals[t] = "lapsed"

\* purge_expired_unclaimed_terminals deletes the codes whose grace is over;
\* it waits for rows that a claim has locked.
PurgeCodes ==
    \E gone \in SUBSET {t \in Terminals : Purgeable(t) /\ TerminalFree(t)} :
        /\ gone # {}
        /\ terminals' = [t \in Terminals |-> IF t \in gone THEN "purged"
                                                           ELSE terminals[t]]
        /\ UNCHANGED <<nym, pages, paired, saves, claims, failures, checkouts>>

\* revoke_terminal, by the key that claimed it, active or not.
Revoke(t) ==
    /\ terminals[t] = "claimed"
    /\ terminals' = [terminals EXCEPT ![t] = "revoked"]
    /\ UNCHANGED <<nym, pages, paired, saves, claims, failures, checkouts>>

-----------------------------------------------------------------------------
(***************************************************************************)
(* claim_pairing, then the transaction of claim_pos_pairing.               *)
(***************************************************************************)

Moves(c, task) == claims' = [claims EXCEPT ![c] = task]

\* check_pos_pairing_claim_failure_per_source looks in memory, and records
\* nothing; then assert_nym_owner.
ClaimStart(c) ==
    /\ claims[c].pc = "idle" /\ failures < FailureLimit /\ active
    /\ Moves(c, ClaimTask("owned", None, None))
    /\ UNCHANGED <<nym, pages, pos, saves, failures, checkouts>>

ClaimPage(c) ==
    /\ claims[c].pc = "owned" /\ page # "archived"
    /\ Moves(c, ClaimTask("checked", None, None))
    /\ UNCHANGED <<nym, pages, pos, saves, failures, checkouts>>

\* BEGIN, which fixes NOW() for the whole transaction.
ClaimBegin(c, t) ==
    /\ claims[c].pc = "checked" /\ terminals[t] # "lapsed"
    /\ Moves(c, ClaimTask("begun", t, None))
    /\ UNCHANGED <<nym, pages, pos, saves, failures, checkouts>>

\* The pending row, FOR UPDATE.
ClaimLock(c) ==
    /\ claims[c].pc = "begun" /\ terminals[claims[c].terminal] \in Unclaimed
    /\ TerminalFree(claims[c].terminal)
    /\ Moves(c, ClaimTask("locked", claims[c].terminal, None))
    /\ UNCHANGED <<nym, pages, pos, saves, failures, checkouts>>

\* No pending row of the code, or one that had expired at BEGIN: the failure
\* is recorded.
ClaimRejected(c) ==
    /\ \/ /\ claims[c].pc = "checked"
          /\ \E t \in Terminals : terminals[t] = "lapsed"
       \/ /\ claims[c].pc = "begun"
          /\ terminals[claims[c].terminal] \notin Unclaimed
    /\ Moves(c, NoClaim)
    /\ failures' = failures + 1
    /\ UNCHANGED <<nym, pages, pos, saves, checkouts>>

\* Bug: the page is read without FOR UPDATE.
ClaimLockPageShared(c) ==
    /\ claims[c].pc = "locked"
    /\ Moves(c, ClaimTask("paged", claims[c].terminal, desc["pos"]))
    /\ UNCHANGED <<nym, pages, pos, saves, failures, checkouts>>

\* The placeholder of a nym without a page, and its row FOR UPDATE: both
\* wait for a claim that is past this point.
ClaimLockPage(c) ==
    /\ claims[c].pc = "locked" /\ PageFree
    /\ Moves(c, ClaimTask("paged", claims[c].terminal, desc["pos"]))
    /\ UNCHANGED <<nym, pages, pos, saves, failures, checkouts>>

\* The descriptor of the request is the stored one, or the first: COMMIT.
ClaimCommit(c) ==
    LET t == claims[c].terminal
        found == claims[c].found
    IN \E d \in Wallet["pos"] :
        /\ claims[c].pc = "paged" /\ found \in {None, d}
        /\ page' = IF page = "absent" THEN "hidden" ELSE page
        /\ desc' = IF found = None THEN [desc EXCEPT !["pos"] = d] ELSE desc
        /\ terminals' = [terminals EXCEPT ![t] = "claimed"]
        /\ paired' = [paired EXCEPT ![t] = d]
        /\ Moves(c, NoClaim)
        /\ UNCHANGED <<nym, next, saves, failures, checkouts>>

\* PosDescriptorMismatch rolls back; so does any other failure, or a client
\* that goes away.  Neither is recorded.
ClaimFails(c) ==
    /\ claims[c].pc # "idle"
    /\ Moves(c, NoClaim)
    /\ UNCHANGED <<nym, pages, pos, saves, failures, checkouts>>

ClaimStep(c) ==
    \/ ClaimStart(c) \/ ClaimPage(c) \/ ClaimLock(c)
    \/ ClaimRejected(c) \/ ClaimLockPage(c) \/ ClaimCommit(c)
    \/ ClaimFails(c)

\* An hour passes since a failure.
FailureAges ==
    /\ failures > 0 /\ failures' = failures - 1
    /\ UNCHANGED <<nym, pages, pos, saves, claims, checkouts>>

-----------------------------------------------------------------------------
(***************************************************************************)
(* create_checkout_invoice_inner, for a payer of the page or a terminal.   *)
(***************************************************************************)

Goes(i, c) == checkouts' = [checkouts EXCEPT ![i] = c]

\* A terminal, which authenticate_terminal has found, or a payer, who is not
\* asked; and a page, not archived, and open to payers.
CheckoutStart(i, by) ==
    /\ checkouts[i].pc = "idle"
    /\ by = "terminal" => \E t \in Terminals : terminals[t] = "claimed"
    /\ page = "live" \/ (page = "hidden" /\ by = "terminal")
    /\ Goes(i, Asked("paged", by, None))
    /\ UNCHANGED <<nym, pages, pos, saves, claims, failures>>

\* The owner is read, with the descriptor of the nym at that time.
CheckoutOwner(i) ==
    /\ checkouts[i].pc = "paged" /\ active
    /\ Goes(i, Asked("owned", checkouts[i].by, desc["nym"]))
    /\ UNCHANGED <<nym, pages, pos, saves, claims, failures>>

\* A row with archived_at IS NULL.
Kept == {"hidden", "live"}

Surface(by) == IF by = "terminal" THEN "pos" ELSE "page"

\* Bug: the cursor is read without the advisory lock.
AllocateReadUnlocked(i) ==
    LET c == checkouts[i]
        s == Surface(c.by)
    IN /\ c.pc = "owned"
       /\ page \in Kept /\ desc[s] # None
       /\ Goes(i, Checkout("reading", c.by, c.key, s, desc[s], next[s]))
       /\ UNCHANGED <<nym, pages, pos, saves, claims, failures>>

\* allocate_next_liquid_for_donation_page or _for_pos_terminal: the advisory
\* lock of the surface, then its descriptor and cursor, without a row lock.
AllocateRead(i) ==
    LET c == checkouts[i]
        s == Surface(c.by)
    IN /\ c.pc = "owned" /\ AllocationFree(s)
       /\ page \in Kept /\ desc[s] # None
       /\ Goes(i, Checkout("reading", c.by, c.key, s, desc[s], next[s]))
       /\ UNCHANGED <<nym, pages, pos, saves, claims, failures>>

\* No descriptor, or no page any more: a payer gets one of the nym's.
FallBack(i) ==
    LET c == checkouts[i]
    IN /\ c.pc = "owned" /\ c.by = "payer" /\ AllocationFree("page")
       /\ page \notin Kept \/ desc["page"] = None
       /\ Goes(i, Asked("fallback", "payer", c.key))
       /\ UNCHANGED <<nym, pages, pos, saves, claims, failures>>

\* The first index from the cursor on that no invoice has.
FirstFree(d, from, k) ==
    /\ k \in from .. MaxIdx - 1
    /\ ~InUse(d, k) /\ \A l \in from .. k - 1 : InUse(d, l)

\* The cursor is set behind it, under the row lock of the page; the key that
\* opens the address is that of the descriptor it comes from.
AllocateWrite(i) ==
    LET c == checkouts[i]
    IN /\ c.pc = "reading" /\ PageFree
       /\ \E k \in 0 .. MaxIdx :
            /\ FirstFree(c.desc, c.idx, k)
            /\ next' = [next EXCEPT ![c.surface] = k + 1]
            /\ Goes(i, Checkout("allocated", c.by, c.desc, c.surface, c.desc,
                                k))
       /\ UNCHANGED <<nym, page, desc, pos, saves, claims, failures>>

\* allocate_next_liquid_for_active_nym, one step here; the key is that of
\* the descriptor read with the owner.
AllocateNym(i) ==
    LET c == checkouts[i]
    IN /\ c.pc = "fallback" /\ active
       /\ \E k \in 0 .. MaxIdx :
            /\ FirstFree(desc["nym"], next["nym"], k)
            /\ next' = [next EXCEPT !["nym"] = k + 1]
            /\ Goes(i, Checkout("allocated", "payer", c.key, "nym",
                                desc["nym"], k))
       /\ UNCHANGED <<nym, page, desc, pos, saves, claims, failures>>

With(c, pc) == Checkout(pc, c.by, c.key, c.surface, c.desc, c.idx)

\* insert_invoice, unless the unique index refuses the address.
Insert(i) ==
    LET c == checkouts[i]
    IN /\ c.pc = "allocated" /\ ~InUse(c.desc, c.idx)
       /\ Goes(i, With(c, "inserted"))
       /\ UNCHANGED <<nym, pages, pos, saves, claims, failures>>

\* The Lightning offer exists, and the payer sees the addresses.
Answer(i) ==
    /\ checkouts[i].pc = "inserted"
    /\ Goes(i, With(checkouts[i], "answered"))
    /\ UNCHANGED <<nym, pages, pos, saves, claims, failures>>

\* A refusal, an error or a client that goes away; after the insertion the
\* offer failed, and delete_unpaid_invoice_without_swaps takes the row back.
CheckoutFails(i) ==
    LET c == checkouts[i]
    IN /\ c.pc \notin {"idle", "answered", "failed"}
       /\ Goes(i, Asked(IF c.pc \in {"allocated", "inserted"}
                         THEN "failed" ELSE "idle", "payer", None))
       /\ UNCHANGED <<nym, pages, pos, saves, claims, failures>>

CheckoutStep(i) ==
    \/ CheckoutOwner(i) \/ AllocateRead(i) \/ FallBack(i)
    \/ AllocateWrite(i) \/ AllocateNym(i) \/ Insert(i) \/ Answer(i)
    \/ CheckoutFails(i)

-----------------------------------------------------------------------------
Next ==
    \/ \E d \in Wallet["nym"] : Reactivate(d) \/ Rotate(d)
    \/ Deactivate \/ Purge
    \/ \E r \in Saves : SaveCheck(r) \/ Upsert(r) \/ Archive(r)
    \/ \E t \in Terminals :
         \/ PairingCheck(t) \/ PairingInsert(t)
         \/ CodeExpires(t) \/ Revoke(t)
    \/ PurgeCodes \/ FailureAges
    \/ \E c \in Claims, t \in Terminals : ClaimBegin(c, t)
    \/ \E c \in Claims : ClaimStep(c)
    \/ \E i \in Checkouts, by \in {"payer", "terminal"} : CheckoutStart(i, by)
    \/ \E i \in Checkouts : CheckoutStep(i)

Spec == Init /\ [][Next]_vars
=============================================================================
