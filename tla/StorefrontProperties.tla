------------------------ MODULE StorefrontProperties ------------------------
(***************************************************************************)
(* What Storefront is checked for, and the invariant its proofs rest on.   *)
(***************************************************************************)
EXTENDS Storefront

ClaimPc == {"idle", "owned", "checked", "begun", "locked", "paged"}
CheckoutPc == {"idle", "paged", "owned", "reading", "fallback",
               "allocated", "inserted", "answered", "failed"}

\* Every variable keeps its type.
TypeOK ==
    /\ active \in BOOLEAN
    /\ page \in {"absent", "hidden", "live", "archived"}
    /\ desc \in [Surfaces -> Descs \cup {None}] /\ next \in [Surfaces -> Nat]
    /\ terminals \in [Terminals -> TerminalStatus]
    /\ paired \in [Terminals -> Descs \cup {None}]
    /\ saves \in [Saves -> {"idle", "save", "archive"}]
    /\ claims \in [Claims -> [pc : ClaimPc, terminal : Terminals \cup {None},
                              found : Descs \cup {None}]]
    /\ failures \in Nat
    /\ checkouts \in [Checkouts -> [pc : CheckoutPc,
                                    by : {"payer", "terminal"},
                                    key : Descs \cup {None},
                                    surface : Surfaces,
                                    desc : Descs \cup {None}, idx : Nat]]

-----------------------------------------------------------------------------
(***************************************************************************)
(* Safety.                                                                 *)
(***************************************************************************)

\* A checkout that was given an address.
Issued(i) == checkouts[i].pc \in {"allocated", "inserted", "answered"}

\* "Fund Separation" (docs/features/pos-terminals.md): whatever claims race
\* for the first descriptor of the register, every paired terminal was
\* claimed with the one that is stored, every invoice of a terminal is paid
\* to it, with the key that opens the address, and no payer of the page ever
\* is.
FundsStaySeparate ==
    /\ \A t \in Terminals : paired[t] # None => paired[t] = desc["pos"]
    /\ \A i \in Checkouts : Issued(i) =>
         IF checkouts[i].by = "terminal"
         THEN checkouts[i].desc = desc["pos"] /\ checkouts[i].key = desc["pos"]
         ELSE checkouts[i].desc \in Wallet["page"] \cup Wallet["nym"]

\* "Single-use" and "never overwritten" (docs/features/pos-terminals.md): a
\* claimed terminal is neither claimed again nor purged, and changes only by
\* a revocation, which is final; a purged code never comes back; and the
\* register keeps its first descriptor, through any save, archive, rotation
\* or purge of the nym.
PairingIsFinal ==
    [][/\ \A t \in Terminals :
            /\ terminals[t] \in {"claimed", "revoked"} =>
                 paired'[t] = paired[t]
            /\ terminals[t] = "claimed" =>
                 terminals'[t] \in {"claimed", "revoked"}
            /\ terminals[t] \in {"revoked", "purged"} =>
                 terminals'[t] = terminals[t]
       /\ desc["pos"] # None => desc'["pos"] = desc["pos"]]_vars

-----------------------------------------------------------------------------
(***************************************************************************)
(* The invariant that the proofs need.                                     *)
(***************************************************************************)

\* A stored descriptor is one of its wallet; an active nym has one, and the
\* register has a page row.
DescInv ==
    /\ \A s \in Surfaces : desc[s] # None => desc[s] \in Wallet[s]
    /\ active => desc["nym"] # None
    /\ desc["pos"] # None => page # "absent"

\* A claim in its transaction knows its terminal.  One holds the
\* page, and what it has read there is still so; one holds a terminal, whose
\* code is still unclaimed.
ClaimInv ==
    /\ \A c \in Claims : claims[c].pc \in {"begun", "locked", "paged"} =>
         claims[c].terminal \in Terminals
    /\ \A c \in Claims : claims[c].pc = "paged" =>
         /\ claims[c].found = desc["pos"]
         /\ \A e \in Claims : claims[e].pc = "paged" => c = e
    /\ \A c \in Claims, t \in Terminals : HoldsTerminal(c, t) =>
         /\ terminals[t] \in Unclaimed
         /\ \A e \in Claims : HoldsTerminal(e, t) => c = e

\* A terminal is paired exactly if it has been claimed.
PairInv ==
    \A t \in Terminals :
        paired[t] # None <=> terminals[t] \in {"claimed", "revoked"}

\* The cursor of a surface is past every index that a checkout got there,
\* and not before the one that a checkout under the lock has read.
CursorInv ==
    \A i \in Checkouts :
        LET c == checkouts[i]
        IN /\ Issued(i) => c.idx < next[c.surface]
           /\ c.pc = "reading" =>
                /\ c.idx = next[c.surface]
                /\ \A j \in Checkouts :
                     checkouts[j].pc = "reading"
                       /\ checkouts[j].surface = c.surface => i = j

\* Two checkouts never get the same address, on whichever surfaces they are
\* made and whatever becomes of the first one.
CheckoutsAreExclusive ==
    \A i, j \in Checkouts :
        i # j /\ Issued(i) /\ Issued(j)
            /\ checkouts[i].surface = checkouts[j].surface =>
            checkouts[i].idx # checkouts[j].idx

\* A checkout pays the surface of whoever asked.  The key of an address of
\* the nym may be that of an earlier descriptor; others are their own.
CheckoutInv ==
    \A i \in Checkouts :
        LET c == checkouts[i]
        IN /\ c.pc = "reading" \/ Issued(i) =>
                /\ c.desc \in Wallet[c.surface]
                /\ c.surface = "pos" <=> c.by = "terminal"
                /\ c.surface = "pos" => c.desc = desc["pos"]
           /\ Issued(i) /\ c.surface # "nym" => c.key = c.desc
           /\ c.pc = "reading" => c.surface \in {"page", "pos"}
           /\ c.pc = "fallback" => c.by = "payer"

\* The limit is looked up before a claim and counted after it, so a window
\* may see more failures than the limit, by the claims that run at once.
Running == {c \in Claims : claims[c].pc # "idle"}
FailuresBounded ==
    failures + Cardinality(Running) < FailureLimit + Cardinality(Claims)

IInv ==
    /\ TypeOK
    /\ DescInv /\ ClaimInv /\ PairInv
    /\ CheckoutInv /\ CursorInv /\ CheckoutsAreExclusive
    /\ FundsStaySeparate /\ FailuresBounded

=============================================================================
