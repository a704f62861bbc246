-------------------------- MODULE StorefrontProofs --------------------------
(***************************************************************************)
(* Proofs about Storefront, for any terminals, requests and descriptors of *)
(* the three wallets, and any limit.                                       *)
(*                                                                         *)
(* The argument for the register: a claim that has read the page holds it  *)
(* until it commits, so what it read is what it overwrites (ClaimInv), and *)
(* the first descriptor is the last.  What a terminal was claimed with and *)
(* what its invoices are paid to is therefore always the stored one.  The  *)
(* argument for the cursors is that of AddressBookProofs, per surface.     *)
(***************************************************************************)
EXTENDS StorefrontProperties, FiniteSetTheorems, TLAPS

USE WalletAssumption, LimitAssumption, NoneAssumption

\* The vocabulary: tuples of variables, sets of values, empty records.
USE DEF nym, pages, pos, Surfaces, Descs, Unclaimed, TerminalStatus,
        ClaimTask, Checkout, NoClaim, Asked, With, Moves, Goes, ClaimPc,
        CheckoutPc, Kept

-----------------------------------------------------------------------------
\* Nothing has been asked for at first.
LEMMA InitInv == Init => IInv
<1>. SUFFICES ASSUME Init PROVE IInv
  OBVIOUS
<1>1. TypeOK
  BY DEF Init, TypeOK
<1>2. DescInv /\ ClaimInv /\ PairInv
  BY DEF Init, DescInv, ClaimInv, PairInv, HoldsTerminal
<1>3. CheckoutInv /\ CursorInv /\ CheckoutsAreExclusive
  BY DEF Init, CheckoutInv, CursorInv, CheckoutsAreExclusive, Issued
<1>4. FundsStaySeparate
  BY DEF Init, FundsStaySeparate, Issued
<1>5. FailuresBounded
  <2>1. Running = {}
    BY DEF Init, Running
  <2>2. Cardinality(Running) = 0
    BY <2>1, FS_EmptySet
  <2>3. Cardinality(Claims) \in Nat
    BY FS_CardinalityType
  <2>. QED
    BY <2>2, <2>3 DEF Init, FailuresBounded
<1>. QED
  BY <1>1, <1>2, <1>3, <1>4, <1>5 DEF IInv

-----------------------------------------------------------------------------
\* What neither a claim nor a checkout does.
OwnerStep ==
    \/ \E d \in Wallet["nym"] : Reactivate(d) \/ Rotate(d)
    \/ Deactivate \/ Purge
    \/ \E r \in Saves : SaveCheck(r) \/ Upsert(r) \/ Archive(r)
    \/ \E t \in Terminals :
         \/ PairingCheck(t) \/ PairingInsert(t)
         \/ CodeExpires(t) \/ Revoke(t)
    \/ PurgeCodes \/ FailureAges

\* The steps of the owner and those of pairing codes keep the types.
LEMMA OwnerType == ASSUME IInv, OwnerStep PROVE TypeOK'
<1> USE DEF IInv, TypeOK, OwnerStep
<1>1. ASSUME NEW d \in Wallet["nym"], Reactivate(d) \/ Rotate(d)
      PROVE  TypeOK'
  <2>1. desc' = [desc EXCEPT !["nym"] = d] /\ d \in Descs
    BY <1>1 DEF Reactivate, Rotate
  <2>2. desc' \in [Surfaces -> Descs \cup {None}]
    BY <2>1
  <2>3. CASE Reactivate(d)
    BY <2>2, <2>3 DEF Reactivate
  <2>4. CASE Rotate(d)
    BY <2>2, <2>4 DEF Rotate
  <2>. QED
    BY <1>1, <2>3, <2>4
<1>2. CASE Deactivate
  BY <1>2 DEF Deactivate
<1>7. CASE Purge
  <2>1. page' \in {"absent", "hidden", "live", "archived"}
    BY <1>7 DEF Purge, Archived
  <2>2. desc' \in [Surfaces -> Descs \cup {None}]
    BY <1>7 DEF Purge
  <2>. QED
    BY <1>7, <2>1, <2>2 DEF Purge
<1>3. ASSUME NEW r \in Saves, SaveCheck(r) \/ Upsert(r) \/ Archive(r)
      PROVE  TypeOK'
  <2>1. CASE SaveCheck(r)
    BY <2>1 DEF SaveCheck
  <2>2. CASE Upsert(r)
    BY <2>2 DEF Upsert
  <2>3. CASE Archive(r)
    BY <2>3 DEF Archive, Archived
  <2>. QED
    BY <1>3, <2>1, <2>2, <2>3
<1>4. ASSUME NEW t \in Terminals,
             \/ PairingCheck(t) \/ PairingInsert(t)
             \/ CodeExpires(t) \/ Revoke(t)
      PROVE  TypeOK'
  BY <1>4 DEF PairingCheck, PairingInsert, CodeExpires, Revoke
<1>5. CASE PurgeCodes
  BY <1>5 DEF PurgeCodes
<1>6. CASE FailureAges
  BY <1>6 DEF FailureAges
<1>. QED
  BY <1>1, <1>2, <1>3, <1>4, <1>5, <1>6, <1>7

\* So do those of claims.
LEMMA ClaimType ==
    ASSUME IInv, NEW c \in Claims,
           ClaimStep(c) \/ \E t \in Terminals : ClaimBegin(c, t)
    PROVE  TypeOK'
<1> USE DEF IInv, TypeOK
<1>1. CASE ClaimStart(c)
  BY <1>1 DEF ClaimStart
<1>2. CASE ClaimPage(c)
  BY <1>2 DEF ClaimPage
<1>3. ASSUME NEW t \in Terminals, ClaimBegin(c, t) PROVE TypeOK'
  BY <1>3 DEF ClaimBegin
<1>4. CASE ClaimLock(c)
  BY <1>4 DEF ClaimLock
<1>5. CASE ClaimRejected(c)
  BY <1>5 DEF ClaimRejected
<1>6. CASE ClaimLockPage(c)
  BY <1>6 DEF ClaimLockPage
<1>7. CASE ClaimCommit(c)
  <2>1. PICK d \in Wallet["pos"] :
          /\ claims[c].pc = "paged"
          /\ page' = IF page = "absent" THEN "hidden" ELSE page
          /\ desc' = IF claims[c].found = None
                       THEN [desc EXCEPT !["pos"] = d] ELSE desc
          /\ terminals' = [terminals EXCEPT ![claims[c].terminal] = "claimed"]
          /\ paired' = [paired EXCEPT ![claims[c].terminal] = d]
          /\ Moves(c, NoClaim)
          /\ UNCHANGED <<nym, next, saves, failures, checkouts>>
    BY <1>7 DEF ClaimCommit
  <2>2. page' \in {"absent", "hidden", "live", "archived"}
    BY <2>1
  <2>3. desc' \in [Surfaces -> Descs \cup {None}]
    <3>1. CASE claims[c].found = None
      BY <2>1, <3>1
    <3>2. CASE claims[c].found # None
      BY <2>1, <3>2
    <3>. QED
      BY <3>1, <3>2
  <2>4. paired' \in [Terminals -> Descs \cup {None}]
    BY <2>1
  <2>5. terminals' \in [Terminals -> TerminalStatus]
    BY <2>1
  <2>. QED
    BY <2>1, <2>2, <2>3, <2>4, <2>5
<1>8. CASE ClaimFails(c)
  BY <1>8 DEF ClaimFails
<1>. QED
  BY <1>1, <1>2, <1>3, <1>4, <1>5, <1>6, <1>7, <1>8 DEF ClaimStep

\* So do those of checkouts.
LEMMA CheckoutType ==
    ASSUME IInv, NEW i \in Checkouts,
           \/ \E by \in {"payer", "terminal"} : CheckoutStart(i, by)
           \/ CheckoutStep(i)
    PROVE  TypeOK'
<1> USE DEF IInv, TypeOK
<1>1. ASSUME NEW by \in {"payer", "terminal"}, CheckoutStart(i, by)
      PROVE  TypeOK'
  BY <1>1 DEF CheckoutStart
<1>2. CASE CheckoutOwner(i)
  BY <1>2 DEF CheckoutOwner
<1>3. CASE AllocateRead(i)
  BY <1>3 DEF AllocateRead, Surface
<1>4. CASE FallBack(i)
  BY <1>4 DEF FallBack
<1>5. CASE AllocateWrite(i)
  BY <1>5, BoundAssumption DEF AllocateWrite, FirstFree
<1>6. CASE AllocateNym(i)
  BY <1>6, BoundAssumption DEF AllocateNym, FirstFree
<1>7. CASE Insert(i)
  BY <1>7 DEF Insert
<1>8. CASE Answer(i)
  BY <1>8 DEF Answer
<1>9. CASE CheckoutFails(i)
  BY <1>9 DEF CheckoutFails
<1>. QED
  BY <1>1, <1>2, <1>3, <1>4, <1>5, <1>6, <1>7, <1>8, <1>9 DEF CheckoutStep

-----------------------------------------------------------------------------
\* What is about checkouts stays true if they, the cursors and the stored
\* descriptor of the register stay what they are.
LEMMA CheckoutFrame ==
    ASSUME IInv, UNCHANGED <<next, checkouts>>, desc'["pos"] = desc["pos"]
    PROVE  CheckoutInv' /\ CursorInv' /\ CheckoutsAreExclusive'
  BY DEF IInv, CheckoutInv, CursorInv, CheckoutsAreExclusive, Issued

\* And funds stay separate, if no terminal is paired either.
LEMMA FundsFrame ==
    ASSUME IInv, UNCHANGED <<paired, checkouts>>, desc'["pos"] = desc["pos"]
    PROVE  FundsStaySeparate'
  BY DEF IInv, FundsStaySeparate, Issued

\* The steps of the owner touch no claimed terminal but to revoke it, and no
\* descriptor of the register.
LEMMA OwnerKeeps ==
    ASSUME IInv, OwnerStep
    PROVE  /\ UNCHANGED <<next, paired, claims, checkouts>>
           /\ desc'["pos"] = desc["pos"]
           /\ DescInv'
<1> USE DEF IInv, TypeOK, OwnerStep, DescInv
<1>1. ASSUME NEW d \in Wallet["nym"], Reactivate(d) \/ Rotate(d)
      PROVE  /\ UNCHANGED <<next, paired, claims, checkouts>>
             /\ desc'["pos"] = desc["pos"] /\ DescInv'
  BY <1>1 DEF Reactivate, Rotate
<1>2. CASE Deactivate
  BY <1>2 DEF Deactivate
<1>3. CASE Purge
  BY <1>3 DEF Purge, Archived
<1>4. ASSUME NEW r \in Saves, SaveCheck(r) \/ Upsert(r) \/ Archive(r)
      PROVE  /\ UNCHANGED <<next, paired, claims, checkouts>>
             /\ desc'["pos"] = desc["pos"] /\ DescInv'
  <2>1. CASE SaveCheck(r)
    BY <2>1 DEF SaveCheck
  <2>2. CASE Upsert(r)
    BY <2>2 DEF Upsert
  <2>3. CASE Archive(r)
    BY <2>3 DEF Archive, Archived
  <2>. QED
    BY <1>4, <2>1, <2>2, <2>3
<1>5. ASSUME NEW t \in Terminals,
             \/ PairingCheck(t) \/ PairingInsert(t)
             \/ CodeExpires(t) \/ Revoke(t)
      PROVE  /\ UNCHANGED <<next, paired, claims, checkouts>>
             /\ desc'["pos"] = desc["pos"] /\ DescInv'
  BY <1>5 DEF PairingCheck, PairingInsert, CodeExpires, Revoke
<1>6. CASE PurgeCodes
  BY <1>6 DEF PurgeCodes
<1>7. CASE FailureAges
  BY <1>7 DEF FailureAges
<1>. QED
  BY <1>1, <1>2, <1>3, <1>4, <1>5, <1>6, <1>7

\* A code that a claim has locked stays unclaimed, and only claims claim.
TerminalKept(t) ==
    /\ terminals[t] \in {"claimed", "revoked"} <=>
         terminals'[t] \in {"claimed", "revoked"}
    /\ terminals[t] = "claimed" => terminals'[t] \in {"claimed", "revoked"}
    /\ terminals[t] \in {"revoked", "purged"} => terminals'[t] = terminals[t]
    /\ terminals[t] \in Unclaimed /\ ~TerminalFree(t) =>
         terminals'[t] \in Unclaimed

LEMMA OwnerTerminals ==
    ASSUME IInv, OwnerStep, NEW t \in Terminals PROVE TerminalKept(t)
<1> USE DEF IInv, TypeOK, TerminalKept
<1>1. ASSUME NEW u \in Terminals,
             \/ PairingCheck(u) \/ PairingInsert(u)
             \/ CodeExpires(u) \/ Revoke(u)
      PROVE  TerminalKept(t)
  BY <1>1 DEF PairingCheck, PairingInsert, CodeExpires, Revoke
<1>2. CASE PurgeCodes
  BY <1>2 DEF PurgeCodes, Purgeable
<1>3. CASE UNCHANGED terminals
  BY <1>3
<1>4. \/ PurgeCodes \/ UNCHANGED terminals
      \/ \E u \in Terminals :
           \/ PairingCheck(u) \/ PairingInsert(u)
           \/ CodeExpires(u) \/ Revoke(u)
  BY DEF OwnerStep, Reactivate, Rotate, Deactivate, Purge, SaveCheck, Upsert,
     Archive, FailureAges
<1>. QED
  BY <1>1, <1>2, <1>3, <1>4

\* The steps of the owner and of pairing codes preserve the invariant.
LEMMA OwnerInv == ASSUME IInv, OwnerStep PROVE IInv'
<1>1. TypeOK'
  BY OwnerType
<1>2. /\ UNCHANGED <<next, paired, claims, checkouts>>
      /\ desc'["pos"] = desc["pos"] /\ DescInv'
  BY OwnerKeeps
<1>3. CheckoutInv' /\ CursorInv' /\ CheckoutsAreExclusive'
  BY <1>2, CheckoutFrame
<1>4. FundsStaySeparate'
  BY <1>2, FundsFrame
<1>5. PairInv'
  BY <1>2, OwnerTerminals DEF IInv, PairInv, TerminalKept
<1>6. ClaimInv'
  <2>1. \A c \in Claims, t \in Terminals :
          HoldsTerminal(c, t)' => HoldsTerminal(c, t) /\ ~TerminalFree(t)
    BY <1>2 DEF HoldsTerminal, TerminalFree
  <2>. QED
    BY <1>2, <2>1, OwnerTerminals
       DEF IInv, ClaimInv, HoldsTerminal, TerminalKept
<1>7. FailuresBounded'
  <2>1. Running' = Running
    BY <1>2 DEF Running
  <2>2. failures' <= failures /\ failures' \in Nat
    BY <1>1 DEF IInv, TypeOK, OwnerStep, Reactivate, Rotate, Deactivate,
       Purge, SaveCheck, Upsert, Archive, FailureAges, PairingCheck,
       PairingInsert, CodeExpires, Revoke, PurgeCodes
  <2>3. IsFiniteSet(Running)
    BY FS_Subset DEF Running
  <2>4. Cardinality(Running) \in Nat /\ Cardinality(Claims) \in Nat
    BY <2>3, FS_CardinalityType
  <2>. QED
    BY <2>1, <2>2, <2>4 DEF IInv, TypeOK, FailuresBounded
<1>. QED
  BY <1>1, <1>2, <1>3, <1>4, <1>5, <1>6, <1>7 DEF IInv

-----------------------------------------------------------------------------
\* The claims under way are finitely many, and one of them that ends or
\* begins changes their number by one.
LEMMA RunningCount ==
    ASSUME IInv, TypeOK'
    PROVE  /\ Cardinality(Running) \in Nat /\ Cardinality(Claims) \in Nat
           /\ Cardinality(Running') \in Nat
           /\ Cardinality(Running) <= Cardinality(Claims)
           /\ Cardinality(Running') <= Cardinality(Claims)
           /\ \A c \in Running : Running' = Running \ {c} =>
                Cardinality(Running') = Cardinality(Running) - 1
           /\ Running' = Running =>
                Cardinality(Running') = Cardinality(Running)
<1>1. Running \subseteq Claims /\ Running' \subseteq Claims
  BY DEF Running
<1>2. IsFiniteSet(Running) /\ IsFiniteSet(Running')
  BY <1>1, FS_Subset
<1>. QED
  BY <1>1, <1>2, FS_Subset, FS_CardinalityType, FS_RemoveElement

\* No step of a claim before it commits changes a page or a terminal.
LEMMA ClaimKeeps ==
    ASSUME IInv, NEW c \in Claims,
           \/ ClaimStep(c) /\ ~ClaimCommit(c)
           \/ \E t \in Terminals : ClaimBegin(c, t)
    PROVE  /\ UNCHANGED <<nym, pages, pos, checkouts>>
           /\ \A e \in Claims \ {c} : claims'[e] = claims[e]
  BY DEF IInv, TypeOK, ClaimStep, ClaimStart, ClaimPage, ClaimBegin,
     ClaimLock, ClaimRejected, ClaimLockPage, ClaimFails

\* A claim locks a code nobody else has locked, and then the page.
LEMMA ClaimLocks ==
    ASSUME IInv, NEW c \in Claims,
           \/ ClaimStep(c) /\ ~ClaimCommit(c)
           \/ \E t \in Terminals : ClaimBegin(c, t)
    PROVE  ClaimInv'
<1> USE DEF IInv, TypeOK, ClaimInv, HoldsTerminal
<1>1. CASE \/ ClaimStart(c) \/ ClaimPage(c) \/ ClaimRejected(c)
           \/ ClaimFails(c) \/ \E t \in Terminals : ClaimBegin(c, t)
  <2>1. /\ UNCHANGED <<pages, pos>>
        /\ \A e \in Claims \ {c} : claims'[e] = claims[e]
        /\ claims'[c].pc \notin {"locked", "paged"}
        /\ claims'[c].pc = "begun" => claims'[c].terminal \in Terminals
    BY <1>1 DEF ClaimStart, ClaimPage, ClaimRejected, ClaimFails, ClaimBegin
  <2>. QED
    BY <2>1
<1>2. CASE ClaimLock(c)
  BY <1>2 DEF ClaimLock, TerminalFree
<1>3. CASE ClaimLockPage(c)
  BY <1>3 DEF ClaimLockPage, PageFree
<1>. QED
  BY <1>1, <1>2, <1>3 DEF ClaimStep

\* A claim starts below the limit, and ends with at most one failure more.
LEMMA ClaimFailures ==
    ASSUME IInv, TypeOK', NEW c \in Claims,
           ClaimStep(c) \/ \E t \in Terminals : ClaimBegin(c, t)
    PROVE  FailuresBounded'
<1> USE DEF IInv, TypeOK, FailuresBounded
<1>1. CASE ClaimStart(c)
  <2>1. failures' = failures /\ failures < FailureLimit
    BY <1>1 DEF ClaimStart
  <2>2. /\ Cardinality(Running') \in Nat /\ Cardinality(Claims) \in Nat
        /\ Cardinality(Running') <= Cardinality(Claims)
    BY RunningCount
  <2>. QED
    BY <2>1, <2>2
<1>2. CASE \/ ClaimPage(c) \/ ClaimLock(c) \/ ClaimLockPage(c)
           \/ \E t \in Terminals : ClaimBegin(c, t)
  <2>1. /\ failures' = failures /\ claims[c].pc # "idle"
        /\ claims'[c].pc # "idle"
        /\ \A e \in Claims \ {c} : claims'[e] = claims[e]
    <3>1. CASE ClaimPage(c)
      BY <3>1 DEF ClaimPage
    <3>2. CASE ClaimLock(c)
      BY <3>2 DEF ClaimLock
    <3>3. CASE ClaimLockPage(c)
      BY <3>3 DEF ClaimLockPage
    <3>4. ASSUME NEW t \in Terminals, ClaimBegin(c, t)
          PROVE  /\ failures' = failures /\ claims[c].pc # "idle"
                 /\ claims'[c].pc # "idle"
                 /\ \A e \in Claims \ {c} : claims'[e] = claims[e]
      BY <3>4 DEF ClaimBegin
    <3>. QED
      BY <1>2, <3>1, <3>2, <3>3, <3>4
  <2>2. Running' = Running
    BY <2>1 DEF Running
  <2>. QED
    BY <2>1, <2>2, RunningCount
<1>3. CASE ClaimRejected(c) \/ ClaimCommit(c) \/ ClaimFails(c)
  <2>1. c \in Running /\ Running' = Running \ {c}
    BY <1>3 DEF Running, ClaimRejected, ClaimCommit, ClaimFails
  <2>2. failures' <= failures + 1
    BY <1>3 DEF ClaimRejected, ClaimCommit, ClaimFails
  <2>3. /\ Cardinality(Running) \in Nat /\ Cardinality(Claims) \in Nat
        /\ Cardinality(Running') = Cardinality(Running) - 1
    BY <2>1, RunningCount
  <2>. QED
    BY <2>2, <2>3
<1>. QED
  BY <1>1, <1>2, <1>3 DEF ClaimStep

\* A commit pairs a terminal nobody else holds, with the descriptor that is
\* stored; the register has no invoice before it has a descriptor.
LEMMA CommitInv ==
    ASSUME IInv, TypeOK', NEW c \in Claims, ClaimCommit(c)
    PROVE  /\ DescInv' /\ ClaimInv' /\ PairInv' /\ FundsStaySeparate'
           /\ CheckoutInv' /\ CursorInv' /\ CheckoutsAreExclusive'
<1> DEFINE t == claims[c].terminal
<1> USE DEF IInv, TypeOK
<1>1. PICK d \in Wallet["pos"] :
        /\ claims[c].pc = "paged" /\ claims[c].found \in {None, d}
        /\ page' = IF page = "absent" THEN "hidden" ELSE page
        /\ desc' = IF claims[c].found = None
                     THEN [desc EXCEPT !["pos"] = d] ELSE desc
        /\ terminals' = [terminals EXCEPT ![t] = "claimed"]
        /\ paired' = [paired EXCEPT ![t] = d]
        /\ Moves(c, NoClaim)
        /\ UNCHANGED <<nym, next, saves, failures, checkouts>>
  BY DEF ClaimCommit
<1>2. /\ t \in Terminals /\ HoldsTerminal(c, t)
      /\ claims[c].found = desc["pos"]
  BY <1>1 DEF ClaimInv, HoldsTerminal
<1>3. /\ desc'["pos"] = d
      /\ desc'["nym"] = desc["nym"] /\ desc'["page"] = desc["page"]
  <2>1. CASE claims[c].found = None
    BY <1>1, <2>1
  <2>2. CASE claims[c].found # None
    BY <1>1, <1>2, <2>2
  <2>. QED
    BY <2>1, <2>2
<1>4. desc["pos"] = None \/ desc'["pos"] = desc["pos"]
  BY <1>1, <1>2, <1>3
<1>5. DescInv'
  BY <1>1, <1>3 DEF DescInv
<1>6. ClaimInv'
  <2>1. \A e \in Claims : claims'[e].pc # "idle" =>
          e # c /\ claims'[e] = claims[e]
    BY <1>1
  <2>2. \A e \in Claims : claims'[e].pc # "paged"
    BY <1>1, <2>1 DEF ClaimInv
  <2>3. \A e \in Claims, u \in Terminals : HoldsTerminal(e, u)' =>
          HoldsTerminal(e, u) /\ u # t
    BY <1>2, <2>1 DEF ClaimInv, HoldsTerminal
  <2>4. \A u \in Terminals : u # t => terminals'[u] = terminals[u]
    BY <1>1
  <2>. QED
    BY <2>1, <2>2, <2>3, <2>4 DEF ClaimInv
<1>7. PairInv'
  BY <1>1, <1>2 DEF PairInv
<1>8. \A i \in Checkouts :
        checkouts[i].surface = "pos" =>
          (checkouts[i].pc = "reading" \/ Issued(i) =>
             desc'["pos"] = desc["pos"])
  <2>1. SUFFICES ASSUME NEW i \in Checkouts,
                        checkouts[i].pc = "reading" \/ Issued(i),
                        checkouts[i].surface = "pos"
                 PROVE  desc["pos"] # None
    BY <1>4
  <2>2. checkouts[i].desc \in Wallet["pos"] /\ checkouts[i].desc = desc["pos"]
    BY <2>1 DEF CheckoutInv
  <2>. QED
    BY <2>2
<1>9. CheckoutInv' /\ CursorInv' /\ CheckoutsAreExclusive'
  BY <1>1, <1>8 DEF CheckoutInv, CursorInv, CheckoutsAreExclusive, Issued
<1>10. FundsStaySeparate'
  <2>1. \A u \in Terminals : paired'[u] # None => paired'[u] = desc'["pos"]
    BY <1>1, <1>2, <1>3, <1>4 DEF FundsStaySeparate
  <2>2. \A i \in Checkouts : Issued(i)' => Issued(i)
    BY <1>1 DEF Issued
  <2>. QED
    BY <1>1, <1>8, <2>1, <2>2
       DEF FundsStaySeparate, CheckoutInv, Issued
<1>. QED
  BY <1>5, <1>6, <1>7, <1>9, <1>10

\* The steps of claims preserve the invariant.
LEMMA ClaimStepInv ==
    ASSUME IInv, NEW c \in Claims,
           ClaimStep(c) \/ \E t \in Terminals : ClaimBegin(c, t)
    PROVE  IInv'
<1>1. TypeOK' /\ FailuresBounded'
  BY ClaimType, ClaimFailures
<1>2. CASE ClaimCommit(c)
  BY <1>1, <1>2, CommitInv DEF IInv
<1>3. CASE ~ClaimCommit(c)
  <2>1. UNCHANGED <<nym, pages, pos, checkouts>> /\ ClaimInv'
    BY <1>3, ClaimKeeps, ClaimLocks
  <2>2. DescInv' /\ PairInv'
    BY <2>1 DEF IInv, DescInv, PairInv
  <2>3. CheckoutInv' /\ CursorInv' /\ CheckoutsAreExclusive'
    BY <2>1, CheckoutFrame
  <2>4. FundsStaySeparate'
    BY <2>1, FundsFrame
  <2>. QED
    BY <1>1, <2>1, <2>2, <2>3, <2>4 DEF IInv
<1>. QED
  BY <1>2, <1>3

-----------------------------------------------------------------------------
\* No step of a checkout changes more than the checkouts and a cursor, and
\* it changes no other checkout.
LEMMA CheckoutKeeps ==
    ASSUME IInv, NEW i \in Checkouts,
           \/ \E by \in {"payer", "terminal"} : CheckoutStart(i, by)
           \/ CheckoutStep(i)
    PROVE  /\ UNCHANGED <<nym, page, desc, pos, claims, failures>>
           /\ \A j \in Checkouts \ {i} : checkouts'[j] = checkouts[j]
  BY DEF IInv, TypeOK, CheckoutStep, CheckoutStart, CheckoutOwner,
     AllocateRead, FallBack, AllocateWrite, AllocateNym, Insert, Answer,
     CheckoutFails

\* Nor does it issue an address but by an allocation.
LEMMA CheckoutIssues ==
    ASSUME IInv, NEW i \in Checkouts,
           \/ \E by \in {"payer", "terminal"} : CheckoutStart(i, by)
           \/ CheckoutStep(i),
           ~AllocateWrite(i), ~AllocateNym(i)
    PROVE  /\ next' = next
           /\ Issued(i)' => /\ Issued(i)
                            /\ checkouts'[i] = With(checkouts[i],
                                                   checkouts'[i].pc)
  BY DEF IInv, TypeOK, CheckoutStep, CheckoutStart, CheckoutOwner,
     AllocateRead, FallBack, Insert, Answer, CheckoutFails, Issued

\* An allocation of a surface reads and writes its cursor with no other one
\* in between; one of the nym is a single step.
LEMMA CheckoutCursor ==
    ASSUME IInv, TypeOK', NEW i \in Checkouts,
           \/ \E by \in {"payer", "terminal"} : CheckoutStart(i, by)
           \/ CheckoutStep(i)
    PROVE  CursorInv' /\ CheckoutsAreExclusive'
<1> USE DEF IInv, TypeOK, CursorInv, CheckoutsAreExclusive
<1>1. \A j \in Checkouts \ {i} : checkouts'[j] = checkouts[j]
  BY CheckoutKeeps
<1>2. CASE AllocateWrite(i)
  <2> DEFINE c == checkouts[i]
  <2>1. PICK k \in 0 .. MaxIdx :
          /\ c.pc = "reading" /\ FirstFree(c.desc, c.idx, k)
          /\ next' = [next EXCEPT ![c.surface] = k + 1]
          /\ Goes(i, Checkout("allocated", c.by, c.desc, c.surface, c.desc, k))
    BY <1>2 DEF AllocateWrite
  <2>2. k \in Nat /\ k >= next[c.surface]
    BY <2>1, BoundAssumption DEF FirstFree
  <2>3. \A s \in Surfaces : next'[s] = IF s = c.surface THEN k + 1
                                                        ELSE next[s]
    BY <2>1
  <2>4. /\ checkouts'[i].idx = k /\ checkouts'[i].surface = c.surface
        /\ checkouts'[i].pc = "allocated"
    BY <2>1
  <2>5. \A j \in Checkouts \ {i} :
          /\ Issued(j) => checkouts[j].idx < next[checkouts[j].surface]
          /\ checkouts[j].pc = "reading" => checkouts[j].surface # c.surface
    BY <2>1
  <2>6. CursorInv'
    <3>1. Issued(i)' => checkouts'[i].idx < next'[checkouts'[i].surface]
      BY <2>2, <2>3, <2>4
    <3>2. ASSUME NEW j \in Checkouts \ {i}, Issued(j)'
          PROVE  checkouts'[j].idx < next'[checkouts'[j].surface]
      <4>1. /\ checkouts'[j] = checkouts[j]
            /\ checkouts[j].idx < next[checkouts[j].surface]
        BY <1>1, <2>5, <3>2 DEF Issued
      <4>2. checkouts[j].surface \in Surfaces /\ checkouts[j].idx \in Nat
        OBVIOUS
      <4>. QED
        BY <2>2, <2>3, <4>1, <4>2
    <3>3. ASSUME NEW j \in Checkouts, checkouts'[j].pc = "reading"
          PROVE  /\ checkouts'[j].idx = next'[checkouts'[j].surface]
                 /\ \A e \in Checkouts :
                      checkouts'[e].pc = "reading"
                        /\ checkouts'[e].surface = checkouts'[j].surface
                        => j = e
      <4>1. \A e \in Checkouts : checkouts'[e].pc = "reading" =>
              e # i /\ checkouts'[e] = checkouts[e]
        BY <1>1, <2>4
      <4>2. checkouts[j].pc = "reading" /\ checkouts[j].surface \in Surfaces
        BY <3>3, <4>1
      <4>3. next'[checkouts[j].surface] = next[checkouts[j].surface]
        BY <2>3, <2>5, <3>3, <4>1, <4>2
      <4>. QED
        BY <3>3, <4>1, <4>2, <4>3
    <3>. QED
      BY <3>1, <3>2, <3>3
  <2>7. CheckoutsAreExclusive'
    <3>1. \A j \in Checkouts \ {i} :
            checkouts'[j] = checkouts[j] /\ (Issued(j)' <=> Issued(j))
      BY <1>1 DEF Issued
    <3>2. \A j \in Checkouts \ {i} :
            Issued(j)' /\ checkouts'[j].surface = c.surface
              => checkouts'[j].idx # k
      BY <2>2, <2>5, <3>1
    <3>3. \A j, e \in Checkouts \ {i} :
            j # e /\ Issued(j)' /\ Issued(e)'
                /\ checkouts'[j].surface = checkouts'[e].surface =>
              checkouts'[j].idx # checkouts'[e].idx
      BY <3>1
    <3>. HIDE DEF CheckoutsAreExclusive
    <3>. QED
      BY <2>4, <3>2, <3>3 DEF CheckoutsAreExclusive
  <2>. QED
    BY <2>6, <2>7
<1>3. CASE AllocateNym(i)
  <2>1. PICK k \in 0 .. MaxIdx :
          /\ FirstFree(desc["nym"], next["nym"], k)
          /\ next' = [next EXCEPT !["nym"] = k + 1]
          /\ Goes(i, Checkout("allocated", "payer", checkouts[i].key, "nym",
                              desc["nym"], k))
    BY <1>3 DEF AllocateNym
  <2>2. k \in Nat /\ k >= next["nym"]
    BY <2>1, BoundAssumption DEF FirstFree
  <2>3. \A s \in Surfaces : next'[s] = IF s = "nym" THEN k + 1 ELSE next[s]
    BY <2>1
  <2>4. /\ checkouts'[i].idx = k /\ checkouts'[i].surface = "nym"
        /\ checkouts'[i].pc = "allocated"
    BY <2>1
  <2>5. \A j \in Checkouts \ {i} :
          /\ Issued(j) => checkouts[j].idx < next[checkouts[j].surface]
          /\ checkouts[j].pc = "reading" => checkouts[j].surface # "nym"
    BY DEF CheckoutInv
  <2>6. CursorInv'
    <3>1. Issued(i)' => checkouts'[i].idx < next'[checkouts'[i].surface]
      BY <2>2, <2>3, <2>4
    <3>2. ASSUME NEW j \in Checkouts \ {i}, Issued(j)'
          PROVE  checkouts'[j].idx < next'[checkouts'[j].surface]
      <4>1. /\ checkouts'[j] = checkouts[j]
            /\ checkouts[j].idx < next[checkouts[j].surface]
        BY <1>1, <2>5, <3>2 DEF Issued
      <4>2. checkouts[j].surface \in Surfaces /\ checkouts[j].idx \in Nat
        OBVIOUS
      <4>. QED
        BY <2>2, <2>3, <4>1, <4>2
    <3>3. ASSUME NEW j \in Checkouts, checkouts'[j].pc = "reading"
          PROVE  /\ checkouts'[j].idx = next'[checkouts'[j].surface]
                 /\ \A e \in Checkouts :
                      checkouts'[e].pc = "reading"
                        /\ checkouts'[e].surface = checkouts'[j].surface
                        => j = e
      <4>1. \A e \in Checkouts : checkouts'[e].pc = "reading" =>
              e # i /\ checkouts'[e] = checkouts[e]
        BY <1>1, <2>4
      <4>2. checkouts[j].pc = "reading" /\ checkouts[j].surface \in Surfaces
        BY <3>3, <4>1
      <4>3. next'[checkouts[j].surface] = next[checkouts[j].surface]
        BY <2>3, <2>5, <3>3, <4>1, <4>2
      <4>. QED
        BY <3>3, <4>1, <4>2, <4>3
    <3>. QED
      BY <3>1, <3>2, <3>3
  <2>7. CheckoutsAreExclusive'
    <3>1. \A j \in Checkouts \ {i} :
            checkouts'[j] = checkouts[j] /\ (Issued(j)' <=> Issued(j))
      BY <1>1 DEF Issued
    <3>2. \A j \in Checkouts \ {i} :
            Issued(j)' /\ checkouts'[j].surface = "nym"
              => checkouts'[j].idx # k
      BY <2>2, <2>5, <3>1
    <3>3. \A j, e \in Checkouts \ {i} :
            j # e /\ Issued(j)' /\ Issued(e)'
                /\ checkouts'[j].surface = checkouts'[e].surface =>
              checkouts'[j].idx # checkouts'[e].idx
      BY <3>1
    <3>. HIDE DEF CheckoutsAreExclusive
    <3>. QED
      BY <2>4, <3>2, <3>3 DEF CheckoutsAreExclusive
  <2>. QED
    BY <2>6, <2>7
<1>4. CASE ~AllocateWrite(i) /\ ~AllocateNym(i)
  <2>1. /\ next' = next
        /\ Issued(i)' => /\ Issued(i)
                         /\ checkouts'[i] = With(checkouts[i],
                                                checkouts'[i].pc)
    BY <1>4, CheckoutIssues
  <2>2. CheckoutsAreExclusive'
    BY <1>1, <2>1 DEF Issued
  <2>3. checkouts'[i].pc = "reading" =>
          /\ checkouts'[i].idx = next[checkouts'[i].surface]
          /\ \A j \in Checkouts \ {i} :
               ~(checkouts[j].pc = "reading"
                   /\ checkouts[j].surface = checkouts'[i].surface)
    <3>1. CASE AllocateRead(i)
      BY <3>1 DEF AllocateRead, AllocationFree, Surface
    <3>2. CASE ~AllocateRead(i)
      BY <1>4, <3>2 DEF CheckoutStep, CheckoutStart, CheckoutOwner, FallBack,
         Insert, Answer, CheckoutFails
    <3>. QED
      BY <3>1, <3>2
  <2>4. CursorInv'
    BY <1>1, <2>1, <2>3 DEF Issued
  <2>. QED
    BY <2>2, <2>4
<1>. QED
  BY <1>2, <1>3, <1>4

\* What a checkout is given is the surface and the descriptor that its
\* request is for, and it carries the key of that descriptor.
LEMMA CheckoutPays ==
    ASSUME IInv, TypeOK', NEW i \in Checkouts,
           \/ \E by \in {"payer", "terminal"} : CheckoutStart(i, by)
           \/ CheckoutStep(i)
    PROVE  CheckoutInv'
<1> USE DEF IInv, TypeOK, CheckoutInv
<1>1. /\ UNCHANGED desc
      /\ \A j \in Checkouts \ {i} : checkouts'[j] = checkouts[j]
  BY CheckoutKeeps
<1> DEFINE c == checkouts'[i]
<1>2. /\ c.pc = "reading" \/ Issued(i)' =>
           /\ c.desc \in Wallet[c.surface]
           /\ c.surface = "pos" <=> c.by = "terminal"
           /\ c.surface = "pos" => c.desc = desc["pos"]
      /\ Issued(i)' /\ c.surface # "nym" => c.key = c.desc
      /\ c.pc = "reading" => c.surface \in {"page", "pos"}
      /\ c.pc = "fallback" => c.by = "payer"
  <2>1. CASE AllocateRead(i)
    BY <2>1 DEF AllocateRead, Surface, Issued, DescInv
  <2>2. CASE FallBack(i)
    BY <2>2 DEF FallBack, Issued
  <2>3. CASE AllocateWrite(i)
    BY <2>3 DEF AllocateWrite, Issued
  <2>4. CASE AllocateNym(i)
    BY <2>4 DEF AllocateNym, Issued, DescInv
  <2>5. CASE Insert(i) \/ Answer(i)
    BY <2>5 DEF Insert, Answer, Issued
  <2>6. ASSUME NEW by \in {"payer", "terminal"}, CheckoutStart(i, by)
        PROVE  c.pc \notin {"reading", "fallback"} /\ ~Issued(i)'
    BY <2>6 DEF CheckoutStart, Issued
  <2>7. CASE CheckoutOwner(i) \/ CheckoutFails(i)
    BY <2>7 DEF CheckoutOwner, CheckoutFails, Issued
  <2>. QED
    BY <2>1, <2>2, <2>3, <2>4, <2>5, <2>6, <2>7 DEF CheckoutStep
<1>. QED
  BY <1>1, <1>2 DEF Issued

\* The steps of checkouts preserve the invariant.
LEMMA CheckoutStepInv ==
    ASSUME IInv, NEW i \in Checkouts,
           \/ \E by \in {"payer", "terminal"} : CheckoutStart(i, by)
           \/ CheckoutStep(i)
    PROVE  IInv'
<1>1. TypeOK'
  BY CheckoutType
<1>2. CheckoutInv' /\ CursorInv' /\ CheckoutsAreExclusive'
  BY <1>1, CheckoutPays, CheckoutCursor
<1>3. UNCHANGED <<nym, page, desc, pos, claims, failures>>
  BY CheckoutKeeps
<1>4. DescInv' /\ PairInv'
  BY <1>3 DEF IInv, DescInv, PairInv
<1>5. ClaimInv'
  BY <1>3 DEF IInv, ClaimInv, HoldsTerminal
<1>6. FailuresBounded'
  BY <1>3 DEF IInv, FailuresBounded, Running
<1>7. FundsStaySeparate'
  <2>1. \A t \in Terminals : paired'[t] # None => paired'[t] = desc'["pos"]
    BY <1>3 DEF IInv, FundsStaySeparate
  <2>2. ASSUME NEW j \in Checkouts, Issued(j)'
        PROVE  IF checkouts'[j].by = "terminal"
               THEN /\ checkouts'[j].desc = desc'["pos"]
                    /\ checkouts'[j].key = desc'["pos"]
               ELSE checkouts'[j].desc \in Wallet["page"] \cup Wallet["nym"]
    <3>1. checkouts'[j].surface \in Surfaces
      BY <1>1 DEF TypeOK
    <3>. QED
      BY <1>2, <2>2, <3>1 DEF CheckoutInv
  <2>. QED
    BY <2>1, <2>2 DEF FundsStaySeparate
<1>. QED
  BY <1>1, <1>2, <1>4, <1>5, <1>6, <1>7 DEF IInv

-----------------------------------------------------------------------------
\* Every step preserves the invariant.
LEMMA NextInv == ASSUME IInv, [Next]_vars PROVE IInv'
<1>1. CASE UNCHANGED vars
  <2>. USE <1>1 DEF vars
  <2>1. TypeOK' /\ DescInv' /\ PairInv'
    BY DEF IInv, TypeOK, DescInv, PairInv
  <2>2. ClaimInv'
    BY DEF IInv, ClaimInv, HoldsTerminal
  <2>3. CheckoutInv' /\ CursorInv' /\ CheckoutsAreExclusive'
    BY CheckoutFrame
  <2>4. FundsStaySeparate'
    BY FundsFrame
  <2>5. FailuresBounded'
    BY DEF IInv, FailuresBounded, Running
  <2>. QED
    BY <2>1, <2>2, <2>3, <2>4, <2>5 DEF IInv
<1>2. CASE OwnerStep
  BY <1>2, OwnerInv
<1>3. ASSUME NEW c \in Claims,
             ClaimStep(c) \/ \E t \in Terminals : ClaimBegin(c, t)
      PROVE  IInv'
  BY <1>3, ClaimStepInv
<1>4. ASSUME NEW i \in Checkouts,
             \/ \E by \in {"payer", "terminal"} : CheckoutStart(i, by)
             \/ CheckoutStep(i)
      PROVE  IInv'
  BY <1>4, CheckoutStepInv
<1>. QED
  BY <1>1, <1>2, <1>3, <1>4 DEF Next, OwnerStep

\* The conjunction that the run checks holds in every reachable state.
THEOREM Invariance == Spec => []IInv
<1>1. IInv /\ [Next]_vars => IInv'
  BY NextInv
<1>. QED
  BY InitInv, <1>1, PTL DEF Spec

\* "Fund Separation": terminals and payers of the page never share a wallet,
\* however claims, saves, purges and checkouts interleave.
THEOREM Separation == Spec => []FundsStaySeparate
<1>1. IInv => FundsStaySeparate
  BY DEF IInv
<1>. QED
  BY <1>1, Invariance, PTL

\* Two checkouts never get one address of one surface.
THEOREM Exclusion == Spec => []CheckoutsAreExclusive
<1>1. IInv => CheckoutsAreExclusive
  BY DEF IInv
<1>. QED
  BY <1>1, Invariance, PTL

\* A source never fails more often in the window than the limit and the
\* claims it can run at once allow.
THEOREM Limit == Spec => []FailuresBounded
<1>1. IInv => FailuresBounded
  BY DEF IInv
<1>. QED
  BY <1>1, Invariance, PTL

\* A commit claims the code that it holds, and keeps a stored descriptor.
LEMMA CommitIsFinal ==
    ASSUME IInv, NEW c \in Claims, ClaimCommit(c)
    PROVE  /\ \A t \in Terminals :
                terminals[t] \notin Unclaimed =>
                  terminals'[t] = terminals[t] /\ paired'[t] = paired[t]
           /\ desc["pos"] # None => desc'["pos"] = desc["pos"]
<1> USE DEF IInv, TypeOK
<1>1. /\ claims[c].terminal \in Terminals
      /\ terminals[claims[c].terminal] \in Unclaimed
      /\ claims[c].found = desc["pos"]
  BY DEF ClaimCommit, ClaimInv, HoldsTerminal
<1>. QED
  BY <1>1 DEF ClaimCommit

\* A pairing is for once and for all, and so is the wallet of the register.
THEOREM Finality == Spec => PairingIsFinal
<1> DEFINE Final ==
      /\ \A t \in Terminals :
           /\ terminals[t] \in {"claimed", "revoked"} =>
                paired'[t] = paired[t]
           /\ terminals[t] = "claimed" =>
                terminals'[t] \in {"claimed", "revoked"}
           /\ terminals[t] \in {"revoked", "purged"} =>
                terminals'[t] = terminals[t]
      /\ desc["pos"] # None => desc'["pos"] = desc["pos"]
<1>1. ASSUME IInv, [Next]_vars PROVE [Final]_vars
  <2>1. CASE UNCHANGED vars
    BY <2>1
  <2>2. CASE OwnerStep
    BY <1>1, <2>2, OwnerKeeps, OwnerTerminals DEF TerminalKept
  <2>3. ASSUME NEW c \in Claims,
               ClaimStep(c) \/ \E t \in Terminals : ClaimBegin(c, t)
        PROVE  Final
    <3>1. CASE ClaimCommit(c)
      BY <1>1, <3>1, CommitIsFinal
    <3>2. CASE ~ClaimCommit(c)
      BY <1>1, <2>3, <3>2, ClaimKeeps
    <3>. QED
      BY <3>1, <3>2
  <2>4. ASSUME NEW i \in Checkouts,
               \/ \E by \in {"payer", "terminal"} : CheckoutStart(i, by)
               \/ CheckoutStep(i)
        PROVE  Final
    BY <1>1, <2>4, CheckoutKeeps
  <2>. QED
    BY <1>1, <2>1, <2>2, <2>3, <2>4 DEF Next, OwnerStep
<1>2. IInv /\ [Next]_vars => [Final]_vars
  BY <1>1
<1>. QED
  BY <1>2, Invariance, PTL DEF Spec, PairingIsFinal
=============================================================================
