------------------------- MODULE AddressBookProofs -------------------------
(***************************************************************************)
(* Proofs about AddressBook, for any nyms, keys, descriptors, requests and *)
(* swaps, any quota and lookahead.                                         *)
(*                                                                         *)
(* The argument for the checkouts: only they write the cursor as an        *)
(* absolute value, one at a time, and everyone else only raises it, so it  *)
(* stays past every index that a checkout got (CursorInv).  The one for a  *)
(* purge: while it holds the row, no swap of the nym is recorded, and the  *)
(* swaps it counted as closed stay so (PurgeInv).                          *)
(***************************************************************************)
EXTENDS AddressBookProperties, FiniteSetTheorems, TLAPS

USE QuotaAssumption, BoundAssumption, NoneAssumption

\* The vocabulary: tuples of variables, sets of values, empty records.
USE DEF users, rows, tasks, Address, Reservation, Snapshot, SwapStatus, Closed,
        NoRequest, NoCall, NoCheckout, NoSwap, Derive, HeldBy,
        Idle, Scanning

-----------------------------------------------------------------------------
\* There are no nyms and no tasks at first.
LEMMA InitInv == Init => IInv
<1>. SUFFICES ASSUME Init PROVE IInv
  OBVIOUS
<1>1. TypeOK
  BY DEF Init, TypeOK
<1>2. TaskInv /\ PurgeInv /\ ClaimInv /\ UserInv /\ FulfilledIsPaid
  BY DEF Init, TaskInv, PurgeInv, ClaimInv, UserInv, FulfilledIsPaid, ActiveNym
<1>3. CursorInv /\ CheckoutsAreExclusive
  BY DEF Init, CursorInv, CheckoutsAreExclusive, Issued
<1>. QED
  BY <1>1, <1>2, <1>3 DEF IInv

\* Dropping the reservations of a nym keeps their type.
LEMMA DropType ==
    ASSUME TypeOK, NEW n \in Nyms, DropReservations(n)
    PROVE  held' \in [Nyms \X Outpoints -> Reservation \cup {None}]
BY DEF TypeOK, DropReservations

\* The number of names of a key is a number.
LEMMA NymsOfType == ASSUME NEW p \in Npubs PROVE Cardinality(NymsOf(p)) \in Nat
<1>1. NymsOf(p) \subseteq Nyms
  BY DEF NymsOf
<1>2. IsFiniteSet(NymsOf(p))
  BY <1>1, FS_Subset
<1>. QED
  BY <1>2, FS_CardinalityType

-----------------------------------------------------------------------------
\* The steps of owners keep the types and what the tasks know.
LEMMA OwnerType ==
    ASSUME IInv, NEW p \in Npubs,
           \/ OwnerStep(p)
           \/ \E n \in Nyms, d \in Descs :
                Reactivate(p, n, d) \/ Create(p, n, d)
           \/ \E n \in Nyms, what \in {"update", "delete", "purge"},
                 d \in Descs \cup {NoDesc} : Preflight(p, n, what, d)
    PROVE  TypeOK' /\ TaskInv'
<1> USE DEF IInv, TypeOK, TaskInv, Watched
<1>1. ASSUME NEW n \in Nyms, NEW d \in Descs, Reactivate(p, n, d)
      PROVE  TypeOK' /\ TaskInv'
  BY <1>1, DropType DEF Reactivate
<1>2. ASSUME NEW n \in Nyms, NEW d \in Descs, Create(p, n, d)
      PROVE  TypeOK' /\ TaskInv'
  BY <1>2, NymsOfType DEF Create
<1>3. ASSUME NEW n \in Nyms, NEW what \in {"update", "delete", "purge"},
             NEW d \in Descs \cup {NoDesc}, Preflight(p, n, what, d)
      PROVE  TypeOK' /\ TaskInv'
  BY <1>3 DEF Preflight
<1>4. CASE Update(p)
  <2>1. desc' \in [Nyms -> Descs \cup {NoDesc}]
    BY <1>4 DEF Update
  <2>2. held' \in [Nyms \X Outpoints -> Reservation \cup {None}]
    BY <1>4, DropType DEF Update
  <2>. QED
    BY <1>4, <2>1, <2>2 DEF Update
<1>5. CASE Deactivate(p)
  <2>1. active' \in [Nyms -> BOOLEAN]
    BY <1>5 DEF Deactivate
  <2>2. /\ requests' = [requests EXCEPT ![p] = NoRequest]
        /\ UNCHANGED <<owner, desc, next, born, held, swaps, invoices, calls,
                       claims, checkouts, watch, history>>
    BY <1>5 DEF Deactivate
  <2>. QED
    BY <2>1, <2>2
<1>6. CASE PurgeCount(p)
  <2>1. \/ requests' = [requests EXCEPT ![p] = NoRequest]
        \/ \E n \in Nyms : requests' = [requests EXCEPT ![p] =
                             [pc |-> "counted", nym |-> n, desc |-> NoDesc]]
    BY <1>6 DEF PurgeCount
  <2>2. UNCHANGED <<rows, calls, claims, checkouts, watch, history>>
    BY <1>6 DEF PurgeCount
  <2>3. CASE requests' = [requests EXCEPT ![p] = NoRequest]
    BY <2>2, <2>3
  <2>4. ASSUME NEW n \in Nyms, requests' = [requests EXCEPT ![p] =
                             [pc |-> "counted", nym |-> n, desc |-> NoDesc]]
        PROVE  TypeOK' /\ TaskInv'
    BY <2>2, <2>4
  <2>. QED
    BY <2>1, <2>3, <2>4
<1>7. CASE PurgeDelete(p)
  <2>1. requests[p].nym \in Nyms
    BY <1>7 DEF PurgeDelete
  <2>2. held' \in [Nyms \X Outpoints -> Reservation \cup {None}]
    BY <1>7, <2>1, DropType DEF PurgeDelete
  <2>. QED
    BY <1>7, <2>1, <2>2 DEF PurgeDelete
<1>. HIDE DEF IInv, TypeOK, TaskInv, Watched
<1>. QED
  BY <1>1, <1>2, <1>3, <1>4, <1>5, <1>6, <1>7 DEF OwnerStep

\* So do those of callbacks, claims and swaps.
LEMMA PaymentType ==
    ASSUME IInv,
           \/ \E c \in Calls, n \in Nyms, o \in Outpoints : CallRead(c, n, o)
           \/ \E c \in Calls : CallStep(c)
           \/ \E s \in Swaps : ClaimStep(s) \/ SwapMoves(s)
    PROVE  TypeOK' /\ TaskInv'
<1> USE DEF IInv, TypeOK, TaskInv, Watched
<1>1. ASSUME NEW c \in Calls, NEW n \in Nyms, NEW o \in Outpoints,
             CallRead(c, n, o)
      PROVE  TypeOK' /\ TaskInv'
  BY <1>1 DEF CallRead
<1>2. ASSUME NEW c \in Calls, CallStep(c) PROVE TypeOK' /\ TaskInv'
  <2>1. CASE AllocateRead(c)
    BY <2>1 DEF AllocateRead
  <2>2. CASE AllocateInsert(c)
    BY <2>2 DEF AllocateInsert
  <2>3. CASE ServeLightning(c)
    BY <2>3 DEF ServeLightning
  <2>4. CASE Respond(c)
    BY <2>4 DEF Respond
  <2>. QED
    BY <1>2, <2>1, <2>2, <2>3, <2>4 DEF CallStep
<1>3. ASSUME NEW s \in Swaps, ClaimRead(s) PROVE TypeOK' /\ TaskInv'
  BY <1>3 DEF ClaimRead, ClaimInv
<1>4. ASSUME NEW s \in Swaps, ClaimAllocate(s) PROVE TypeOK' /\ TaskInv'
  <2>1. swaps[s].nym \in Nyms
    BY <1>4 DEF ClaimAllocate, ClaimInv
  <2>2. /\ claims' = [claims EXCEPT ![s] = None]
        /\ UNCHANGED <<owner, active, desc, born, held, invoices, requests,
                       calls, checkouts, watch, history>>
    BY <1>4 DEF ClaimAllocate
  <2>3. CASE UNCHANGED <<next, swaps>>
    BY <2>2, <2>3
  <2>4. CASE /\ claims[s] # NoDesc /\ claims[s] # None
             /\ next' = [next EXCEPT ![swaps[s].nym] = next[swaps[s].nym] + 1]
             /\ swaps' = [swaps EXCEPT ![s] =
                  [status |-> swaps[s].status, nym |-> swaps[s].nym,
                   address |-> Derive(claims[s], next[swaps[s].nym])]]
    <3>1. next' \in [Nyms -> Nat]
      BY <2>1, <2>4
    <3>2. Derive(claims[s], next[swaps[s].nym]) \in Address
      BY <2>1, <2>4
    <3>3. swaps' \in [Swaps -> [status : SwapStatus, nym : Nyms \cup {None},
                               address : Address \cup {None}]]
      BY <2>1, <2>4, <3>2
    <3>. QED
      BY <2>2, <3>1, <3>3
  <2>. QED
    BY <1>4, <2>3, <2>4 DEF ClaimAllocate
<1>5. ASSUME NEW s \in Swaps, SwapMoves(s) PROVE TypeOK' /\ TaskInv'
  BY <1>5 DEF SwapMoves, SwapNext
<1>. QED
  BY <1>1, <1>2, <1>3, <1>4, <1>5 DEF ClaimStep

\* So do those of checkouts, the watcher, GC and payers.
LEMMA OtherType ==
    ASSUME IInv,
           \/ \E i \in Invoices, n \in Nyms : CheckoutRead(i, n)
           \/ \E i \in Invoices : CheckoutStep(i)
           \/ \E i \in Invoices, d \in Descs, k \in WalletIdx :
                WalletInvoice(i, Derive(d, k))
           \/ WatchList \/ WatchListRecent \/ WatchStep \/ WatchFails
           \/ \E n \in Nyms, o \in Outpoints : Prune(n, o)
           \/ \E d \in Descs, k \in PaidIdx : Pay(Derive(d, k))
    PROVE  TypeOK' /\ TaskInv'
<1> USE DEF IInv, TypeOK, TaskInv, Watched
<1>1. ASSUME NEW i \in Invoices, NEW n \in Nyms, CheckoutRead(i, n)
      PROVE  TypeOK' /\ TaskInv'
  BY <1>1 DEF CheckoutRead, UserInv
<1>2. ASSUME NEW i \in Invoices, CheckoutAllocate(i) PROVE TypeOK' /\ TaskInv'
  BY <1>2 DEF CheckoutAllocate
<1>3. ASSUME NEW i \in Invoices, CheckoutInsert(i) PROVE TypeOK' /\ TaskInv'
  BY <1>3 DEF CheckoutInsert
<1>4. ASSUME NEW i \in Invoices, NEW d \in Descs, NEW k \in WalletIdx,
             WalletInvoice(i, Derive(d, k))
      PROVE  TypeOK' /\ TaskInv'
  BY <1>4 DEF WalletInvoice
<1>5. CASE WatchList \/ WatchListRecent
  <2>1. watch'.todo \subseteq Snapshot
    BY <1>5 DEF WatchList, WatchListRecent, Listed, UserInv
  <2>. QED
    BY <1>5, <2>1 DEF WatchList, WatchListRecent
<1>6. CASE WatchTake
  BY <1>6 DEF WatchTake
<1>7. CASE WatchMiss
  BY <1>7 DEF WatchMiss
<1>8. CASE WatchAdvance
  BY <1>8 DEF WatchAdvance
<1>9. CASE WatchMark
  BY <1>9 DEF WatchMark
<1>10. CASE WatchFails
  BY <1>10 DEF WatchFails
<1>11. ASSUME NEW n \in Nyms, NEW o \in Outpoints, Prune(n, o)
       PROVE  TypeOK' /\ TaskInv'
  BY <1>11 DEF Prune
<1>12. ASSUME NEW d \in Descs, NEW k \in PaidIdx, Pay(Derive(d, k))
       PROVE  TypeOK' /\ TaskInv'
  BY <1>12 DEF Pay
<1>. QED
  BY <1>1, <1>2, <1>3, <1>4, <1>5, <1>6, <1>7, <1>8, <1>9, <1>10, <1>11, <1>12
     DEF CheckoutStep, WatchStep

-----------------------------------------------------------------------------
\* The cursor stays past what the checkouts got: only CheckoutAllocate
\* writes it as an absolute value, and it holds the lock.
LEMMA CursorStep == IInv /\ [Next]_vars => CursorInv' /\ CheckoutsAreExclusive'
<1>. SUFFICES ASSUME IInv, [Next]_vars
              PROVE  CursorInv' /\ CheckoutsAreExclusive'
  OBVIOUS
<1> USE DEF IInv, TypeOK, TaskInv, CursorInv, CheckoutsAreExclusive, Issued
<1>1. ASSUME NEW i \in Invoices, NEW n \in Nyms, CheckoutRead(i, n)
      PROVE  CursorInv' /\ CheckoutsAreExclusive'
  BY <1>1 DEF CheckoutRead
<1>2. ASSUME NEW i \in Invoices, CheckoutAllocate(i)
      PROVE  CursorInv' /\ CheckoutsAreExclusive'
  <2>1. PICK k \in checkouts[i].idx .. MaxIdx - 1 :
          /\ next' = [next EXCEPT ![checkouts[i].nym] = k + 1]
          /\ checkouts' = [checkouts EXCEPT ![i] =
               [pc |-> "allocated", nym |-> checkouts[i].nym,
                desc |-> checkouts[i].desc, idx |-> k]]
    BY <1>2 DEF CheckoutAllocate
  <2>2. checkouts[i].pc = "locked" /\ checkouts[i].nym \in Nyms
    BY <1>2 DEF CheckoutAllocate
  <2>3. k \in Nat /\ checkouts[i].idx <= k
    BY <2>1
  <2>4. \A j \in Invoices :
          j # i /\ checkouts[j].nym = checkouts[i].nym =>
            /\ checkouts[j].pc # "locked"
            /\ Issued(j) => checkouts[j].idx < k
    BY <2>2, <2>3
  <2>5. CursorInv'
    BY <2>1, <2>2, <2>3, <2>4
  <2>6. CheckoutsAreExclusive'
    BY <2>1, <2>2, <2>3, <2>4
  <2>. QED
    BY <2>5, <2>6
<1>3. ASSUME NEW i \in Invoices, CheckoutInsert(i)
      PROVE  CursorInv' /\ CheckoutsAreExclusive'
  BY <1>3 DEF CheckoutInsert
<1>4. ASSUME NEW s \in Swaps, ClaimAllocate(s)
      PROVE  CursorInv' /\ CheckoutsAreExclusive'
  <2>1. swaps[s].nym \in Nyms
    BY <1>4 DEF ClaimAllocate, ClaimInv
  <2>2. /\ UNCHANGED checkouts
        /\ \/ next' = [next EXCEPT ![swaps[s].nym] = next[swaps[s].nym] + 1]
           \/ next' = next
    BY <1>4 DEF ClaimAllocate
  <2>3. \A n \in Nyms : next'[n] \in Nat /\ next[n] <= next'[n]
    BY <2>1, <2>2
  <2>. QED
    BY <2>2, <2>3
<1>5. CASE WatchAdvance
  <2>1. Watched.idx \in Nat
    BY <1>5 DEF WatchAdvance, Watched
  <2>2. \A n \in Nyms : next'[n] \in Nat /\ next[n] <= next'[n]
    BY <1>5, <2>1 DEF WatchAdvance
  <2>. QED
    BY <1>5, <2>2 DEF WatchAdvance
<1>6. CASE UNCHANGED <<checkouts, next>>
  BY <1>6
<1>7. \/ \E i \in Invoices, n \in Nyms : CheckoutRead(i, n)
      \/ \E i \in Invoices : CheckoutAllocate(i) \/ CheckoutInsert(i)
      \/ \E s \in Swaps : ClaimAllocate(s)
      \/ WatchAdvance
      \/ UNCHANGED <<checkouts, next>>
  BY DEF Next, Register, vars, OwnerStep, Reactivate, Create, Preflight, Update,
         Deactivate, PurgeCount, PurgeDelete, CallRead, CallStep, AllocateRead,
         AllocateInsert, ServeLightning, Respond, ClaimStep, ClaimRead,
         SwapMoves, CheckoutStep, WalletInvoice, WatchList, WatchListRecent,
         WatchStep, WatchTake, WatchMiss, WatchMark, WatchFails, Prune, Pay
<1>. QED
  BY <1>1, <1>2, <1>3, <1>4, <1>5, <1>6, <1>7

-----------------------------------------------------------------------------
\* A claim writes the destination of its own swap and nothing else of it.
LEMMA ClaimKeeps ==
    ASSUME TypeOK, NEW s \in Swaps, ClaimAllocate(s)
    PROVE  /\ \A t \in Swaps : /\ swaps'[t].nym = swaps[t].nym
                              /\ swaps'[t].status = swaps[t].status
                              /\ t # s => swaps'[t] = swaps[t]
           /\ claims' = [claims EXCEPT ![s] = None]
<1>1. CASE swaps' = [swaps EXCEPT ![s] =
                       [status |-> swaps[s].status, nym |-> swaps[s].nym,
                        address |-> Derive(claims[s], next[swaps[s].nym])]]
  BY <1>1 DEF ClaimAllocate, TypeOK
<1>2. CASE UNCHANGED swaps
  BY <1>2 DEF ClaimAllocate
<1>. QED
  BY <1>1, <1>2 DEF ClaimAllocate

\* A counted purge holds its row: no swap of the nym is recorded, and the
\* other owners have other rows.
LEMMA PurgeStep == IInv /\ [Next]_vars => PurgeInv'
<1>. SUFFICES ASSUME IInv, [Next]_vars PROVE PurgeInv'
  OBVIOUS
<1>0. ASSUME NEW s \in Swaps, ClaimAllocate(s) PROVE PurgeInv'
  <2>1. /\ \A t \in Swaps : /\ swaps'[t].nym = swaps[t].nym
                            /\ swaps'[t].status = swaps[t].status
                            /\ t # s => swaps'[t] = swaps[t]
        /\ claims' = [claims EXCEPT ![s] = None]
    <3>1. CASE swaps' = [swaps EXCEPT ![s] =
                  [status |-> swaps[s].status, nym |-> swaps[s].nym,
                   address |-> Derive(claims[s], next[swaps[s].nym])]]
      BY <1>0, <3>1 DEF ClaimAllocate, IInv, TypeOK
    <3>2. CASE UNCHANGED swaps
      BY <1>0, <3>2 DEF ClaimAllocate
    <3>. QED
      BY <1>0, <3>1, <3>2 DEF ClaimAllocate
  <2>2. UNCHANGED <<owner, active, requests>>
    BY <1>0 DEF ClaimAllocate
  <2>3. PurgeInv
    BY DEF IInv
  <2>. QED
    BY <2>1, <2>2, <2>3 DEF PurgeInv, ActiveNym
<1> USE DEF IInv, TypeOK, TaskInv, PurgeInv, ActiveNym
<1>1. ASSUME NEW p \in Npubs, NEW n \in Nyms, NEW d \in Descs,
             Reactivate(p, n, d) \/ Create(p, n, d)
      PROVE  PurgeInv'
  BY <1>1 DEF Reactivate, Create
<1>2. ASSUME NEW p \in Npubs, NEW n \in Nyms,
             NEW what \in {"update", "delete", "purge"},
             NEW d \in Descs \cup {NoDesc}, Preflight(p, n, what, d)
      PROVE  PurgeInv'
  BY <1>2 DEF Preflight
<1>3. ASSUME NEW p \in Npubs, Deactivate(p) PROVE PurgeInv'
  <2>1. /\ UNCHANGED <<owner, swaps>>
        /\ requests[p].pc = "delete"
        /\ requests' = [requests EXCEPT ![p] = NoRequest]
    BY <1>3 DEF Deactivate
  <2>2. \A n \in Nyms : owner[n] # p => active'[n] = active[n]
    <3>1. CASE UNCHANGED active
      BY <3>1
    <3>2. ASSUME NEW m \in Nyms, owner[m] = p,
                 active' = [active EXCEPT ![m] = FALSE]
          PROVE  \A n \in Nyms : owner[n] # p => active'[n] = active[n]
      <4>1. active \in [Nyms -> BOOLEAN]
        OBVIOUS
      <4>. HIDE DEF IInv, TypeOK, TaskInv, PurgeInv
      <4>. QED
        BY <3>2, <4>1
    <3>. QED
      BY <1>3, <3>1, <3>2 DEF Deactivate
  <2>3. \A q \in Npubs : requests'[q].pc = "counted" =>
          q # p /\ requests'[q] = requests[q]
    BY <2>1
  <2>4. ASSUME NEW q \in Npubs, requests'[q].pc = "counted"
        PROVE  ActiveNym(q, requests[q].nym)'
    BY <2>1, <2>2, <2>3, <2>4
  <2>. QED
    BY <2>1, <2>3, <2>4
<1>4. ASSUME NEW p \in Npubs, PurgeCount(p) PROVE PurgeInv'
  <2>1. UNCHANGED <<owner, active, swaps>>
    BY <1>4 DEF PurgeCount
  <2>2. CASE requests' = [requests EXCEPT ![p] = NoRequest]
    BY <2>1, <2>2
  <2>3. ASSUME NEW n \in Nyms, ActiveNym(p, n),
               \A s \in Swaps : swaps[s].nym = n => swaps[s].status \in Closed,
               requests' = [requests EXCEPT ![p] =
                              [pc |-> "counted", nym |-> n, desc |-> NoDesc]]
        PROVE  PurgeInv'
    BY <2>1, <2>3
  <2>. QED
    BY <1>4, <2>2, <2>3 DEF PurgeCount
<1>5. ASSUME NEW p \in Npubs, PurgeDelete(p) PROVE PurgeInv'
  BY <1>5 DEF PurgeDelete
<1>6. ASSUME NEW p \in Npubs, Update(p) PROVE PurgeInv'
  BY <1>6 DEF Update
<1>7. ASSUME NEW c \in Calls, ServeLightning(c) PROVE PurgeInv'
  BY <1>7 DEF ServeLightning, Purging
<1>9. ASSUME NEW s \in Swaps, SwapMoves(s) PROVE PurgeInv'
  BY <1>9 DEF SwapMoves, SwapNext
<1>10. CASE UNCHANGED <<owner, active, swaps, requests>>
  BY <1>10
<1>11. \/ \E p \in Npubs, n \in Nyms, d \in Descs :
            Reactivate(p, n, d) \/ Create(p, n, d)
       \/ \E p \in Npubs, n \in Nyms, what \in {"update", "delete", "purge"},
             d \in Descs \cup {NoDesc} : Preflight(p, n, what, d)
       \/ \E p \in Npubs : Deactivate(p) \/ PurgeCount(p) \/ PurgeDelete(p)
                           \/ Update(p)
       \/ \E c \in Calls : ServeLightning(c)
       \/ \E s \in Swaps : ClaimAllocate(s) \/ SwapMoves(s)
       \/ UNCHANGED <<owner, active, swaps, requests>>
  BY DEF Next, Register, vars, OwnerStep, CallRead, CallStep, AllocateRead,
         AllocateInsert, Respond, ClaimStep, ClaimRead, CheckoutRead,
         CheckoutStep, CheckoutAllocate, CheckoutInsert, WalletInvoice,
         WatchList, WatchListRecent, WatchStep, WatchTake, WatchMiss,
         WatchAdvance, WatchMark, WatchFails, Prune, Pay
<1>. QED
  BY <1>0, <1>1, <1>2, <1>3, <1>4, <1>5, <1>6, <1>7, <1>9, <1>10, <1>11

\* A purge takes away no swap that a claim is at.
LEMMA ClaimInvStep == IInv /\ [Next]_vars => ClaimInv'
<1>. SUFFICES ASSUME IInv, [Next]_vars PROVE ClaimInv'
  OBVIOUS
<1>0. ASSUME NEW s \in Swaps, ClaimAllocate(s) PROVE ClaimInv'
  <2>1. /\ \A t \in Swaps : /\ swaps'[t].nym = swaps[t].nym
                            /\ swaps'[t].status = swaps[t].status
                            /\ t # s => swaps'[t] = swaps[t]
        /\ claims' = [claims EXCEPT ![s] = None]
    <3>1. CASE swaps' = [swaps EXCEPT ![s] =
                  [status |-> swaps[s].status, nym |-> swaps[s].nym,
                   address |-> Derive(claims[s], next[swaps[s].nym])]]
      BY <1>0, <3>1 DEF ClaimAllocate, IInv, TypeOK
    <3>2. CASE UNCHANGED swaps
      BY <1>0, <3>2 DEF ClaimAllocate
    <3>. QED
      BY <1>0, <3>1, <3>2 DEF ClaimAllocate
  <2>2. claims \in [Swaps -> Descs \cup {NoDesc, None}] /\ ClaimInv
    BY DEF IInv, TypeOK
  <2>3. \A t \in Swaps : claims'[t] # None => t # s /\ claims'[t] = claims[t]
    BY <2>1, <2>2
  <2>. QED
    BY <2>1, <2>2, <2>3 DEF ClaimInv
<1> USE DEF IInv, TypeOK, TaskInv, ClaimInv
<1>1. ASSUME NEW p \in Npubs, PurgeDelete(p) PROVE ClaimInv'
  BY <1>1 DEF PurgeDelete, PurgeInv
<1>2. ASSUME NEW c \in Calls, ServeLightning(c) PROVE ClaimInv'
  BY <1>2 DEF ServeLightning
<1>3. ASSUME NEW s \in Swaps, ClaimRead(s) PROVE ClaimInv'
  BY <1>3 DEF ClaimRead
<1>5. ASSUME NEW s \in Swaps, SwapMoves(s) PROVE ClaimInv'
  BY <1>5 DEF SwapMoves, SwapNext
<1>6. CASE UNCHANGED <<swaps, claims>>
  BY <1>6
<1>7. \/ \E p \in Npubs : PurgeDelete(p)
      \/ \E c \in Calls : ServeLightning(c)
      \/ \E s \in Swaps : ClaimRead(s) \/ ClaimAllocate(s) \/ SwapMoves(s)
      \/ UNCHANGED <<swaps, claims>>
  BY DEF Next, Register, vars, OwnerStep, Reactivate, Create, Preflight, Update,
         Deactivate, PurgeCount, CallRead, CallStep, AllocateRead,
         AllocateInsert, Respond, ClaimStep, CheckoutRead, CheckoutStep,
         CheckoutAllocate, CheckoutInsert, WalletInvoice, WatchList,
         WatchListRecent, WatchStep, WatchTake, WatchMiss, WatchAdvance,
         WatchMark, WatchFails, Prune, Pay
<1>. QED
  BY <1>0, <1>1, <1>2, <1>3, <1>5, <1>6, <1>7

\* A row is activated for a key that has no active one.
LEMMA UserStep == IInv /\ [Next]_vars => UserInv'
<1>. SUFFICES ASSUME IInv, [Next]_vars PROVE UserInv'
  OBVIOUS
<1> USE DEF IInv, TypeOK, TaskInv, UserInv, ActiveNym, HasActive
<1>1. ASSUME NEW p \in Npubs, NEW n \in Nyms, NEW d \in Descs,
             Reactivate(p, n, d) \/ Create(p, n, d)
      PROVE  UserInv'
  <2>1. /\ active' = [active EXCEPT ![n] = TRUE]
        /\ desc' = [desc EXCEPT ![n] = d]
        /\ owner' = owner \/ owner' = [owner EXCEPT ![n] = p]
        /\ \A m \in Nyms : owner[m] = p => ~active[m]
    BY <1>1 DEF Reactivate, Create
  <2>2. owner'[n] = p /\ \A m \in Nyms : m # n => owner'[m] = owner[m]
    BY <1>1 DEF Reactivate, Create, Latest
  <2>. QED
    BY <2>1, <2>2
<1>2. ASSUME NEW p \in Npubs, Update(p) PROVE UserInv'
  <2>1. \/ \E n \in Nyms : desc' = [desc EXCEPT ![n] = requests[p].desc]
        \/ desc' = desc
    BY <1>2 DEF Update
  <2>2. requests[p].desc # NoDesc /\ UNCHANGED <<owner, active>>
    BY <1>2 DEF Update
  <2>. QED
    BY <2>1, <2>2
<1>3. ASSUME NEW p \in Npubs, Deactivate(p) PROVE UserInv'
  <2>1. \/ UNCHANGED active
        \/ \E n \in Nyms : active' = [active EXCEPT ![n] = FALSE]
    <3>. HIDE DEF IInv, TypeOK, TaskInv, UserInv, ActiveNym, HasActive
    <3>. QED
      BY <1>3 DEF Deactivate
  <2>2. UNCHANGED <<owner, desc>>
    <3>. HIDE DEF IInv, TypeOK, TaskInv, UserInv, ActiveNym, HasActive
    <3>. QED
      BY <1>3 DEF Deactivate
  <2>3. \A n \in Nyms : active'[n] => active[n]
    BY <2>1
  <2>. QED
    BY <2>2, <2>3
<1>4. ASSUME NEW p \in Npubs, PurgeDelete(p) PROVE UserInv'
  BY <1>4 DEF PurgeDelete
<1>5. CASE UNCHANGED <<owner, active, desc>>
  BY <1>5
<1>6. \/ \E p \in Npubs, n \in Nyms, d \in Descs :
           Reactivate(p, n, d) \/ Create(p, n, d)
      \/ \E p \in Npubs : Update(p) \/ Deactivate(p) \/ PurgeDelete(p)
      \/ UNCHANGED <<owner, active, desc>>
  BY DEF Next, Register, vars, OwnerStep, Preflight, PurgeCount, CallRead,
         CallStep,
         AllocateRead, AllocateInsert, ServeLightning, Respond, ClaimStep,
         ClaimRead, ClaimAllocate, SwapMoves, CheckoutRead, CheckoutStep,
         CheckoutAllocate, CheckoutInsert, WalletInvoice, WatchList,
         WatchListRecent, WatchStep, WatchTake, WatchMiss, WatchAdvance,
         WatchMark, WatchFails, Prune, Pay
<1>. QED
  BY <1>1, <1>2, <1>3, <1>4, <1>5, <1>6

\* The watcher marks the index of an address that has history.
LEMMA FulfilledStep == IInv /\ [Next]_vars => FulfilledIsPaid'
<1>. SUFFICES ASSUME IInv, [Next]_vars PROVE FulfilledIsPaid'
  OBVIOUS
<1>1. history \subseteq history'
  BY DEF Next, Register, vars, OwnerStep, Reactivate, Create, Preflight, Update,
         Deactivate, PurgeCount, PurgeDelete, CallRead, CallStep, AllocateRead,
         AllocateInsert, ServeLightning, Respond, ClaimStep, ClaimRead,
         ClaimAllocate, SwapMoves, CheckoutRead, CheckoutStep,
         CheckoutAllocate, CheckoutInsert, WalletInvoice, WatchList,
         WatchListRecent, WatchStep, WatchTake, WatchMiss, WatchAdvance,
         WatchMark, WatchFails, Prune, Pay
<1> USE DEF IInv, TypeOK, TaskInv, FulfilledIsPaid
<1>2. ASSUME \A k \in Nyms \X Outpoints : held'[k] # None /\ held'[k].fulfilled
               => held[k] # None /\ held[k].fulfilled /\ held'[k] = held[k]
      PROVE  FulfilledIsPaid'
  BY <1>1, <1>2
<1>3. ASSUME NEW n \in Nyms, DropReservations(n) PROVE FulfilledIsPaid'
  BY <1>1, <1>3 DEF DropReservations
<1>4. ASSUME NEW c \in Calls, AllocateInsert(c) PROVE FulfilledIsPaid'
  BY <1>2, <1>4 DEF AllocateInsert
<1>5. CASE WatchMark
  <2>1. Watched \in history
    BY <1>5 DEF WatchMark
  <2>2. ASSUME NEW k \in Nyms \X Outpoints
        PROVE  held'[k] = held[k] \/ held'[k].idx = Watched.idx
    <3>1. held'[k] = IF held[k] # None /\ k[1] = watch.at.nym
                          /\ held[k].idx = Watched.idx
                     THEN [idx |-> held[k].idx, fulfilled |-> TRUE]
                     ELSE held[k]
      BY <1>5 DEF WatchMark
    <3>. QED
      BY <3>1
  <2>. QED
    BY <1>1, <2>1, <2>2
<1>6. ASSUME NEW n \in Nyms, NEW o \in Outpoints, Prune(n, o)
      PROVE  FulfilledIsPaid'
  BY <1>2, <1>6 DEF Prune
<1>7. ASSUME UNCHANGED held PROVE FulfilledIsPaid'
  BY <1>2, <1>7
<1>8. ASSUME NEW p \in Npubs, PurgeDelete(p) PROVE FulfilledIsPaid'
  BY <1>3, <1>8 DEF PurgeDelete
<1>9. ASSUME NEW p \in Npubs, Update(p) PROVE FulfilledIsPaid'
  BY <1>3, <1>7, <1>9 DEF Update
<1>10. ASSUME NEW p \in Npubs, NEW n \in Nyms, NEW d \in Descs,
              Reactivate(p, n, d) \/ Create(p, n, d)
       PROVE  FulfilledIsPaid'
  BY <1>3, <1>7, <1>10 DEF Reactivate, Create
<1>11. \/ \E p \in Npubs, n \in Nyms, d \in Descs :
            Reactivate(p, n, d) \/ Create(p, n, d)
       \/ \E p \in Npubs : Update(p) \/ PurgeDelete(p)
       \/ \E c \in Calls : AllocateInsert(c)
       \/ WatchMark
       \/ \E n \in Nyms, o \in Outpoints : Prune(n, o)
       \/ UNCHANGED held
  BY DEF Next, Register, vars, OwnerStep, Preflight, Deactivate, PurgeCount,
         CallRead, CallStep, AllocateRead, ServeLightning, Respond,
         ClaimStep, ClaimRead,
         ClaimAllocate, SwapMoves, CheckoutRead, CheckoutStep,
         CheckoutAllocate, CheckoutInsert, WalletInvoice, WatchList,
         WatchListRecent, WatchStep, WatchTake, WatchMiss, WatchAdvance,
         WatchFails, Pay
<1>. QED
  BY <1>4, <1>5, <1>6, <1>7, <1>8, <1>9, <1>10, <1>11

-----------------------------------------------------------------------------
\* The invariant is inductive.
LEMMA NextInv == IInv /\ [Next]_vars => IInv'
<1>. SUFFICES ASSUME IInv, [Next]_vars PROVE IInv'
  OBVIOUS
<1>1. ASSUME UNCHANGED vars PROVE TypeOK' /\ TaskInv'
  BY <1>1 DEF IInv, TypeOK, TaskInv, Watched, vars
<1>2. TypeOK' /\ TaskInv'
  BY <1>1, OwnerType, PaymentType, OtherType DEF Next, Register
<1>3. CursorInv' /\ CheckoutsAreExclusive' /\ PurgeInv' /\ ClaimInv'
      /\ UserInv' /\ FulfilledIsPaid'
  BY CursorStep, PurgeStep, ClaimInvStep, UserStep, FulfilledStep
<1>. QED
  BY <1>2, <1>3 DEF IInv

\* Registration, callbacks, claims, checkouts and the watcher keep, between
\* them, everything IInv says of the cursor, the purges and the reservations.
THEOREM Invariance == Spec => []IInv
<1>. QED
  BY InitInv, NextInv, PTL DEF Spec

\* The rows and the tasks keep their types.
THEOREM TypeCorrect == Spec => []TypeOK
<1>1. IInv => TypeOK
  BY DEF IInv
<1>. QED
  BY <1>1, Invariance, PTL

\* allocate_next_liquid_for_active_nym gives no index of a nym twice, however
\* many checkouts, claims and watcher ticks run, although it writes the
\* cursor it computed from an unlocked read.
THEOREM CheckoutsGetTheirOwnIndex == Spec => []CheckoutsAreExclusive
<1>1. IInv => CheckoutsAreExclusive
  BY DEF IInv
<1>. QED
  BY <1>1, Invariance, PTL

\* A payment marks only reservations of its own index.
THEOREM FulfilledHasHistory == Spec => []FulfilledIsPaid
<1>1. IInv => FulfilledIsPaid
  BY DEF IInv
<1>. QED
  BY <1>1, Invariance, PTL

\* purge_user deletes the row of no live swap and scrubs no descriptor that
\* one will be paid to, whenever callbacks record swaps.
THEOREM LiveRowsKept == Spec => LiveSwapsKeepTheirRows
<1> DEFINE Kept == \A s \in Swaps : swaps[s].status \notin Closed =>
        /\ swaps'[s].nym = swaps[s].nym
        /\ desc[swaps[s].nym] # NoDesc => desc'[swaps[s].nym] # NoDesc
<1>1. ASSUME IInv, [Next]_vars PROVE Kept
  <2> USE DEF IInv, TypeOK, TaskInv, ClaimInv
  <2>1. ASSUME NEW p \in Npubs, NEW n \in Nyms, NEW d \in Descs,
               Reactivate(p, n, d) \/ Create(p, n, d)
        PROVE  Kept
    BY <1>1, <2>1 DEF Reactivate, Create
  <2>2. ASSUME NEW p \in Npubs, Update(p) PROVE Kept
    <3>1. \/ \E n \in Nyms : desc' = [desc EXCEPT ![n] = requests[p].desc]
          \/ desc' = desc
      BY <2>2 DEF Update
    <3>2. requests[p].desc # NoDesc /\ UNCHANGED swaps
      BY <1>1, <2>2 DEF Update
    <3>. QED
      BY <1>1, <3>1, <3>2
  <2>3. ASSUME NEW p \in Npubs, PurgeDelete(p) PROVE Kept
    BY <1>1, <2>3 DEF PurgeDelete, PurgeInv
  <2>4. ASSUME NEW c \in Calls, ServeLightning(c) PROVE Kept
    BY <1>1, <2>4 DEF ServeLightning
  <2>5. ASSUME NEW s \in Swaps, ClaimAllocate(s) PROVE Kept
    BY <1>1, <2>5, ClaimKeeps DEF ClaimAllocate
  <2>6. ASSUME NEW s \in Swaps, SwapMoves(s) PROVE Kept
    BY <1>1, <2>6 DEF SwapMoves
  <2>7. CASE UNCHANGED <<swaps, desc>>
    BY <2>7
  <2>8. \/ \E p \in Npubs, n \in Nyms, d \in Descs :
             Reactivate(p, n, d) \/ Create(p, n, d)
        \/ \E p \in Npubs : Update(p) \/ PurgeDelete(p)
        \/ \E c \in Calls : ServeLightning(c)
        \/ \E s \in Swaps : ClaimAllocate(s) \/ SwapMoves(s)
        \/ UNCHANGED <<swaps, desc>>
    BY <1>1 DEF Next, Register, vars, OwnerStep, Preflight, Deactivate,
           PurgeCount, CallRead, CallStep, AllocateRead, AllocateInsert,
           Respond, ClaimStep, ClaimRead, CheckoutRead, CheckoutStep,
           CheckoutAllocate,
           CheckoutInsert, WalletInvoice, WatchList, WatchListRecent,
           WatchStep, WatchTake, WatchMiss, WatchAdvance, WatchMark,
           WatchFails, Prune, Pay
  <2>. QED
    BY <2>1, <2>2, <2>3, <2>4, <2>5, <2>6, <2>7, <2>8
<1>2. IInv /\ [Next]_vars => [Kept]_vars
  BY <1>1
<1>. QED
  BY <1>2, Invariance, PTL DEF Spec, LiveSwapsKeepTheirRows

\* Every step moves every swap as SwapLife lets it, or leaves it alone.
LEMMA LifeStep ==
    ASSUME IInv, [Next]_vars, NEW s \in Swaps
    PROVE  [Life(s)!Next]_(Life(s)!vars)
<1> DEFINE Stutters == UNCHANGED <<swaps[s].status, swaps[s].address>>
<1>0. Stutters => [Life(s)!Next]_(Life(s)!vars)
  BY DEF Life!vars
<1> USE DEF IInv, TypeOK, TaskInv, ClaimInv
<1>1. ASSUME NEW p \in Npubs, PurgeDelete(p)
      PROVE  [Life(s)!Next]_(Life(s)!vars)
  <2>1. \/ swaps'[s] = swaps[s]
        \/ swaps[s].status = "done" /\ swaps'[s] = NoSwap
    BY <1>1 DEF PurgeDelete, PurgeInv
  <2>. QED
    BY <1>0, <2>1 DEF Life!Next, Life!Delete
<1>2. ASSUME NEW c \in Calls, ServeLightning(c)
      PROVE  [Life(s)!Next]_(Life(s)!vars)
  <2>1. \/ swaps'[s] = swaps[s]
        \/ /\ swaps[s].status = "absent"
           /\ swaps'[s].status = "pending" /\ swaps'[s].address = None
    BY <1>2 DEF ServeLightning
  <2>. QED
    BY <1>0, <2>1 DEF Life!Next, Life!Record
<1>3. ASSUME NEW t \in Swaps, ClaimAllocate(t)
      PROVE  [Life(s)!Next]_(Life(s)!vars)
  <2>1. \/ swaps'[s] = swaps[s]
        \/ /\ swaps[s].status \in {"claimable", "dead"}
           /\ swaps[s].address = None
           /\ swaps'[s].status = swaps[s].status
           /\ swaps'[s].address = Derive(claims[s], next[swaps[s].nym])
           /\ claims[s] \in Descs /\ next[swaps[s].nym] \in Nat
    BY <1>3 DEF ClaimAllocate
  <2>. QED
    BY <1>0, <2>1 DEF Life!Next, Life!Choose
<1>4. ASSUME NEW t \in Swaps, SwapMoves(t)
      PROVE  [Life(s)!Next]_(Life(s)!vars)
  <2>1. \/ swaps'[s] = swaps[s]
        \/ /\ <<swaps[s].status, swaps'[s].status>> \in SwapNext
           /\ swaps'[s].address = swaps[s].address
           /\ swaps[s].status = "claimable" /\ swaps'[s].status = "done"
                => swaps[s].address # None
    <3>1. PICK v \in SwapStatus :
            /\ <<swaps[t].status, v>> \in SwapNext
            /\ swaps[t].status = "claimable" /\ v = "done"
                 => swaps[t].address # None
            /\ swaps' = [swaps EXCEPT ![t] = [status |-> v,
                 nym |-> swaps[t].nym, address |-> swaps[t].address]]
      BY <1>4 DEF SwapMoves
    <3>2. s # t => swaps'[s] = swaps[s]
      BY <3>1
    <3>3. s = t => swaps'[s] = [status |-> v, nym |-> swaps[t].nym,
                                address |-> swaps[t].address]
      BY <3>1
    <3>. HIDE DEF IInv, TypeOK, TaskInv, ClaimInv
    <3>. QED
      BY <3>1, <3>2, <3>3
  <2>. QED
    BY <1>0, <2>1
       DEF SwapNext, Life!Next, Life!See, Life!Expire, Life!Claim, Life!GiveUp
<1>5. CASE UNCHANGED swaps
  BY <1>0, <1>5
<1>6. \/ \E p \in Npubs : PurgeDelete(p)
      \/ \E c \in Calls : ServeLightning(c)
      \/ \E t \in Swaps : ClaimAllocate(t) \/ SwapMoves(t)
      \/ UNCHANGED swaps
  BY DEF Next, Register, Reactivate, Create, vars, OwnerStep, Update,
         Preflight, Deactivate, PurgeCount, CallRead, CallStep, AllocateRead,
         AllocateInsert, Respond, ClaimStep, ClaimRead, CheckoutRead,
         CheckoutStep, CheckoutAllocate, CheckoutInsert, WalletInvoice,
         WatchList, WatchListRecent, WatchStep, WatchTake, WatchMiss,
         WatchAdvance, WatchMark, WatchFails, Prune, Pay
<1>. QED
  BY <1>1, <1>2, <1>3, <1>4, <1>5, <1>6

\* The swaps of the address book live as SwapLife says, which is what
\* ReverseSwap is shown to do: no row is closed, and then counted as closed
\* by a purge, that some task could still open or choose an address for.
THEOREM SwapsLiveAsAssumed ==
    ASSUME NEW s \in Swaps
    PROVE  Spec => LivesAsAssumed(s)
<1>1. Init => Life(s)!Init
  BY DEF Init, Life!Init
<1>2. IInv /\ [Next]_vars => [Life(s)!Next]_(Life(s)!vars)
  BY LifeStep
<1>. QED
  BY <1>1, <1>2, Invariance, PTL DEF Spec, LivesAsAssumed, Life!Spec

=============================================================================
