----------------------- MODULE AddressBookProperties -----------------------
(***************************************************************************)
(* What AddressBook is checked for, and the invariant its proofs rest on.  *)
(***************************************************************************)
EXTENDS AddressBook

\* Every variable keeps its type.
TypeOK ==
    /\ owner \in [Nyms -> Npubs \cup {None}] /\ active \in [Nyms -> BOOLEAN]
    /\ desc \in [Nyms -> Descs \cup {NoDesc}]
    /\ next \in [Nyms -> Nat] /\ born \in [Nyms -> Nat]
    /\ held \in [Nyms \X Outpoints -> Reservation \cup {None}]
    /\ swaps \in [Swaps -> [status : SwapStatus, nym : Nyms \cup {None},
                            address : Address \cup {None}]]
    /\ invoices \in [Invoices -> Address \cup {None}]
    /\ requests \in [Npubs -> [pc : {"idle", "update", "delete", "purge",
                                     "counted"},
                               nym : Nyms \cup {None},
                               desc : Descs \cup {NoDesc}]]
    /\ calls \in [Calls -> [pc : {"idle", "read", "cursor"},
                            nym : Nyms \cup {None},
                            outpoint : Outpoints \cup {None}, idx : Nat]]
    /\ claims \in [Swaps -> Descs \cup {NoDesc, None}]
    /\ checkouts \in [Invoices -> [pc : {"idle", "locked", "allocated",
                                         "inserted", "failed"},
                                   nym : Nyms \cup {None},
                                   desc : Descs \cup {NoDesc}, idx : Nat]]
    /\ watch \in [pc : {"idle", "scan", "mark"}, todo : SUBSET Snapshot,
                  at : Snapshot \cup {None}, offset : Nat]
    /\ history \subseteq Address

-----------------------------------------------------------------------------
(***************************************************************************)
(* Safety.                                                                 *)
(***************************************************************************)

\* The checkouts that an index of a nym was allocated to.
Issued(i) == checkouts[i].pc \in {"allocated", "inserted", "failed"}

\* Two checkouts of a nym never get the same index, in flight or not, while
\* claims and the watcher move the cursor between the read and the absolute
\* write of allocate_next_liquid_for_active_nym.
CheckoutsAreExclusive ==
    \A i, j \in Invoices :
        i # j /\ Issued(i) /\ Issued(j) /\ checkouts[i].nym = checkouts[j].nym
            => checkouts[i].idx # checkouts[j].idx

\* "Refuses if any swap is non-terminal" (db/users.rs, purge_user): the row
\* of a live swap, one neither claimed nor expired, is never deleted, and the
\* descriptor that its claim will pay is never scrubbed under it, although
\* swaps are recorded and purges counted by different requests.
LiveSwapsKeepTheirRows ==
    [][\A s \in Swaps : swaps[s].status \notin Closed =>
         /\ swaps'[s].nym = swaps[s].nym
         /\ desc[swaps[s].nym] # NoDesc => desc'[swaps[s].nym] # NoDesc]_vars

\* Each swap lives as SwapLife says, which is how ReverseSwap moves it.
Life(s) == INSTANCE SwapLife
             WITH phase <- swaps[s].status, address <- swaps[s].address

LivesAsAssumed(s) == Life(s)!Spec

-----------------------------------------------------------------------------
(***************************************************************************)
(* The invariant that the proofs need.                                     *)
(***************************************************************************)

\* The cursor is past every index that a checkout got, and not before the
\* one that a checkout under the lock has read.
CursorInv ==
    \A i \in Invoices :
        /\ Issued(i) => checkouts[i].idx < next[checkouts[i].nym]
        /\ checkouts[i].pc = "locked" =>
             /\ checkouts[i].idx <= next[checkouts[i].nym]
             /\ \A j \in Invoices :
                  checkouts[j].nym = checkouts[i].nym =>
                    /\ Issued(j) => checkouts[j].idx < checkouts[i].idx
                    /\ checkouts[j].pc = "locked" => j = i

\* A task under way knows its nym, and what else it has read.
TaskInv ==
    /\ \A p \in Npubs : requests[p].pc # "idle" =>
         /\ requests[p].nym \in Nyms
         /\ requests[p].pc = "update" => requests[p].desc \in Descs
    /\ \A c \in Calls : calls[c].pc # "idle" =>
         calls[c].nym \in Nyms /\ calls[c].outpoint \in Outpoints
    /\ \A i \in Invoices : checkouts[i].pc # "idle" =>
         checkouts[i].nym \in Nyms /\ checkouts[i].desc \in Descs
    /\ watch.pc # "idle" => watch.at \in Snapshot
    /\ watch.pc = "mark" => Watched \in history

\* A counted purge still finds no live swap of its nym, and its row active.
PurgeInv ==
    \A p \in Npubs : requests[p].pc = "counted" =>
        /\ ActiveNym(p, requests[p].nym)
        /\ \A s \in Swaps : swaps[s].nym = requests[p].nym =>
             swaps[s].status \in Closed

\* A claim under way is one of an open or given-up swap without destination.
ClaimInv ==
    /\ \A s \in Swaps : claims[s] # None =>
         swaps[s].status \in {"claimable", "dead"} /\ swaps[s].address = None
    /\ \A s \in Swaps :
         swaps[s].status = "absent" <=> swaps[s].nym = None

\* An active row has an owner and a descriptor, and no key has two.
UserInv ==
    \A n \in Nyms :
        /\ active[n] => owner[n] # None /\ desc[n] # NoDesc
        /\ \A m \in Nyms : active[n] /\ active[m] /\ owner[n] = owner[m]
             => n = m

\* A reservation is fulfilled for a payment at its index, if not always
\* under the descriptor it was given for.
FulfilledIsPaid ==
    \A k \in Nyms \X Outpoints : held[k] # None /\ held[k].fulfilled =>
        \E a \in history : a.idx = held[k].idx

IInv ==
    /\ TypeOK
    /\ TaskInv /\ CursorInv /\ CheckoutsAreExclusive
    /\ PurgeInv /\ ClaimInv /\ UserInv /\ FulfilledIsPaid

-----------------------------------------------------------------------------
(***************************************************************************)
(* Liveness, under FairSpec.                                               *)
(***************************************************************************)

\* An index whose address has been paid does not stay the one the nym gives
\* out: the watcher moves the cursor, unless the owner changes the row.
PaidIndexIsPassed ==
    \A n \in Nyms, d \in Descs, k \in PaidIdx :
        (active[n] /\ desc[n] = d /\ next[n] = k /\ Derive(d, k) \in history)
            ~> ~(active[n] /\ desc[n] = d /\ next[n] = k)

-----------------------------------------------------------------------------
(***************************************************************************)
(* A claim of the repository's text that the code does not keep.           *)
(***************************************************************************)

\* "Reusing a receive address makes payment attribution ambiguous"
\* (migrations/027): the address of a checkout's invoice is not held for a
\* LUD-22 payer, nor is it the destination of a Lightning Address claim.
InvoiceAddressIsExclusive ==
    \A i \in Invoices : checkouts[i].pc = "inserted" =>
        /\ \A n \in Nyms, o \in Outpoints : held[<<n, o>>] # None =>
             Derive(desc[n], held[<<n, o>>].idx) # invoices[i]
        /\ \A s \in Swaps : swaps[s].address # invoices[i]
=============================================================================
