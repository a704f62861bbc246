------------------------ MODULE LightningOfferProofs ------------------------
(***************************************************************************)
(* Proofs about LightningOffer, for any requests, any pool and any         *)
(* lifetimes.                                                              *)
(*                                                                         *)
(* The lock is held by a session, and a session belongs to one request at  *)
(* a time; so whoever is past the lock is alone there, whatever locks the  *)
(* sessions of dropped requests leak.  What it read there stays true until *)
(* it records: nobody else can append a replacement.                       *)
(***************************************************************************)
EXTENDS LightningOfferProperties, SequenceTheorems, TLAPS

USE NumbersAssumption, NoneAssumption
USE DEF NewRequest, NoLock, Offer, Request, Holding, LockInv, OfferInv,
        OpenIsPayable

\* What an appended offer leaves and adds.
LEMMA Appended ==
    ASSUME offers \in Seq(Offer), NEW o \in Offer, offers' = Append(offers, o)
    PROVE  /\ offers' \in Seq(Offer) /\ Len(offers) \in Nat
           /\ Len(offers') = Len(offers) + 1 /\ offers' # <<>>
           /\ offers'[Len(offers')] = o
           /\ \A k \in 1 .. Len(offers) : offers'[k] = offers[k]
BY AppendProperties

-----------------------------------------------------------------------------
\* Nothing has begun.
LEMMA InitInv == Init => IInv
<1>. SUFFICES ASSUME Init PROVE IInv
  OBVIOUS
<1>1. TypeOK
  <2>1. requests \in [Requests -> Request]
    BY DEF Init, RequestPc
  <2>2. offers \in Seq(Offer)
    BY DEF Init
  <2>3. create \in [pc : CreatePc, kind : {"checkout", "wallet"},
                    expires : Nat]
    BY DEF Init, CreatePc
  <2>4. invoice \in [exists : BOOLEAN, open : BOOLEAN, paid : 0 .. Total]
    BY DEF Init
  <2>5. time \in Nat /\ chain \in BOOLEAN
    BY DEF Init
  <2>6. lock \in [holder : Sessions \cup {None}, depth : Nat]
    BY DEF Init
  <2>. QED
    BY <2>1, <2>2, <2>3, <2>4, <2>5, <2>6 DEF TypeOK
<1>2. LockInv /\ OfferInv
  BY DEF Init, SessionsAreExclusive, SingleFlight, CreatorIsUpToDate,
         CreationInv
<1>. QED
  BY <1>1, <1>2 DEF IInv

\* Every step keeps the types.
LEMMA TypeStep ==
    IInv /\ [Next]_vars => TypeOK'
<1>. SUFFICES ASSUME IInv, [Next]_vars PROVE TypeOK'
  OBVIOUS
<1>. USE DEF IInv, TypeOK, CreatePc, RequestPc, SessionsAreExclusive,
            SingleFlight
<1>1. ASSUME NEW kind \in {"checkout", "wallet"}, CreateInvoice(kind)
      PROVE  TypeOK'
  BY <1>1 DEF CreateInvoice
<1>2. CASE EagerSwap
  BY <1>2 DEF EagerSwap, EagerFailed, CreationGoesTo
<1>3. CASE EagerRecord
  <2>1. CASE invoice.exists /\ offers' = Append(offers, EagerOffer)
    BY <1>3, <2>1
       DEF EagerRecord, EagerFailed, CreationGoesTo, EagerOffer,
          RecordOffer
  <2>2. CASE UNCHANGED offers
    BY <1>3, <2>2
       DEF EagerRecord, EagerFailed, CreationGoesTo, EagerOffer,
          RecordOffer
  <2>. QED
    BY <1>3, <2>1, <2>2 DEF EagerRecord, RecordOffer
<1>4. CASE ChainOffer
  BY <1>4 DEF ChainOffer, CreationGoesTo
<1>5. CASE CleanupDelete
  <2>1. CASE UNCHANGED invoice
    BY <1>5, <2>1
       DEF CleanupDelete, CreationGoesTo
  <2>2. CASE invoice' = [exists |-> FALSE, open |-> FALSE, paid |-> 0]
    BY <1>5, <2>2
       DEF CleanupDelete, CreationGoesTo
  <2>. QED
    BY <1>5, <2>1, <2>2 DEF CleanupDelete
<1>24. CASE CleanupSelect
  BY <1>24 DEF CleanupSelect, CreationGoesTo
<1>6. CASE CreationDropped
  BY <1>6 DEF CreationDropped, CreationGoesTo
<1>7. ASSUME NEW r \in Requests, Poll(r) PROVE TypeOK'
  <2>1. CASE Reads(r, "poll")
    BY <1>7, <2>1
       DEF Poll, Reads, Ends
  <2>2. CASE Ends(r, 0)
    BY <1>7, <2>2
       DEF Poll, Reads, Ends
  <2>. QED
    BY <1>7, <2>1, <2>2 DEF Poll
<1>8. ASSUME NEW r \in Requests, PollLatest(r) PROVE TypeOK'
  BY <1>8 DEF PollLatest, Ends
<1>9. ASSUME NEW r \in Requests, Fetch(r) PROVE TypeOK'
  BY <1>9 DEF Fetch, Reads
<1>10. ASSUME NEW r \in Requests, ReadLatest(r) PROVE TypeOK'
  <2>1. CASE Ends(r, Len(offers))
    BY <1>10, <2>1
       DEF ReadLatest, Ends, Goes, GoesTo
  <2>2. CASE Ends(r, 0)
    BY <1>10, <2>2
       DEF ReadLatest, Ends, Goes, GoesTo
  <2>3. CASE GoesTo(r, "acquire")
    BY <1>10, <2>3
       DEF ReadLatest, Ends, Goes, GoesTo
  <2>. QED
    BY <1>10, <2>1, <2>2, <2>3 DEF ReadLatest
<1>11. ASSUME NEW r \in Requests, Acquire(r) PROVE TypeOK'
  BY <1>11 DEF Acquire, Goes, Free
<1>12. ASSUME NEW r \in Requests, Lock(r) PROVE TypeOK'
  BY <1>12 DEF Lock, Taken, Goes, GoesTo
<1>13. ASSUME NEW r \in Requests, Recheck(r) PROVE TypeOK'
  <2>1. CASE /\ LatestFits(requests[r].amount, requests[r].now)
             /\ GoesToUnlock(r, Len(offers))
    BY <1>13, <2>1
       DEF Recheck, Goes, GoesTo, GoesToUnlock
  <2>2. CASE /\ ~LatestFits(requests[r].amount, requests[r].now)
             /\ GoesTo(r, "key")
    BY <1>13, <2>2
       DEF Recheck, Goes, GoesTo, GoesToUnlock
  <2>. QED
    BY <1>13, <2>1, <2>2 DEF Recheck
<1>14. ASSUME NEW r \in Requests, NextKey(r) PROVE TypeOK'
  BY <1>14 DEF NextKey, Goes, GoesTo
<1>15. ASSUME NEW r \in Requests, CreateSwap(r) PROVE TypeOK'
  <2>1. CASE \E life \in Lives :
               requests' = [requests EXCEPT ![r] =
                 [pc |-> "record", amount |-> requests[r].amount,
                  now |-> requests[r].now, conn |-> requests[r].conn,
                  expires |-> time + life, answer |-> 0]]
    BY <1>15, <2>1
       DEF CreateSwap, GoesToUnlock
  <2>2. CASE GoesToUnlock(r, 0)
    BY <1>15, <2>2
       DEF CreateSwap, GoesToUnlock
  <2>. QED
    BY <1>15, <2>1, <2>2 DEF CreateSwap
<1>16. ASSUME NEW r \in Requests, RecordSwap(r) PROVE TypeOK'
  <2>1. CASE RecordOffer(RefreshOffer(r)) /\ GoesToUnlock(r, 0)
    BY <1>16, <2>1
       DEF RecordSwap, GoesToUnlock, RecordOffer, RefreshOffer
  <2>2. CASE /\ RecordOffer(RefreshOffer(r))
             /\ GoesToUnlock(r, Len(offers) + 1)
    BY <1>16, <2>2
       DEF RecordSwap, GoesToUnlock, RecordOffer, RefreshOffer
  <2>3. CASE UNCHANGED offers /\ GoesToUnlock(r, 0)
    BY <1>16, <2>3
       DEF RecordSwap, GoesToUnlock, RecordOffer, RefreshOffer
  <2>. QED
    BY <1>16, <2>1, <2>2, <2>3 DEF RecordSwap
<1>17. ASSUME NEW r \in Requests, Unlock(r) PROVE TypeOK'
  BY <1>17 DEF Unlock, Ends
<1>18. ASSUME NEW r \in Requests, AcquireTimeout(r) PROVE TypeOK'
  <2>1. CASE /\ requests[r].pc \in {"poll", "read", "acquire"}
             /\ Ends(r, 0)
    BY <1>18, <2>1
       DEF AcquireTimeout, Ends, GoesToUnlock
  <2>2. CASE /\ requests[r].pc \in {"key", "record"}
             /\ GoesToUnlock(r, 0)
    BY <1>18, <2>2
       DEF AcquireTimeout, Ends, GoesToUnlock
  <2>. QED
    BY <1>18, <2>1, <2>2 DEF AcquireTimeout
<1>19. ASSUME NEW r \in Requests, Drop(r) PROVE TypeOK'
  <2>1. CASE /\ requests[r].pc = "lock" /\ UNCHANGED offers
             /\ GoesTo(r, "abandoned")
    BY <1>19, <2>1
       DEF Drop, Goes, GoesTo, Ends, RecordOffer, RefreshOffer
  <2>2. CASE /\ requests[r].pc # "lock" /\ UNCHANGED offers
             /\ Ends(r, 0)
    BY <1>19, <2>2
       DEF Drop, Goes, GoesTo, Ends, RecordOffer, RefreshOffer
  <2>3. CASE /\ requests[r].pc = "record" /\ Ends(r, 0)
             /\ RecordOffer(RefreshOffer(r))
    BY <1>19, <2>3
       DEF Drop, Goes, GoesTo, Ends, RecordOffer, RefreshOffer
  <2>. QED
    BY <1>19, <2>1, <2>2, <2>3 DEF Drop
<1>20. ASSUME NEW r \in Requests, GrantAbandoned(r) PROVE TypeOK'
  BY <1>20 DEF GrantAbandoned, Taken, Ends
<1>21. ASSUME NEW s \in Sessions, Recycle(s)
      PROVE  TypeOK'
  BY <1>21 DEF Recycle, Free
<1>22. CASE Pay \/ Close \/ Tick
  <2>1. CASE Pay
    <3>1. PICK open \in BOOLEAN :
            /\ invoice' = [exists |-> TRUE, open |-> open,
                           paid |-> invoice.paid + 1]
            /\ invoice.paid < Total
            /\ invoice.paid + 1 = Total => ~open
      BY <2>1 DEF Pay
    <3>. QED
      BY <2>1, <3>1 DEF Pay
  <2>2. CASE Close
    BY <1>22, <2>2
       DEF Close
  <2>3. CASE Tick
    BY <1>22, <2>3
       DEF Tick
  <2>. QED
    BY <1>22, <2>1, <2>2, <2>3
<1>23. CASE UNCHANGED vars
  BY <1>23 DEF vars
<1>. QED
  BY <1>1, <1>2, <1>3, <1>4, <1>5, <1>6, <1>7, <1>8, <1>9, <1>10, <1>11, <1>12,
     <1>13, <1>14, <1>15, <1>16, <1>17, <1>18, <1>19, <1>20, <1>21, <1>22, <1>23,
     <1>24
     DEF Next, CreateStep, RequestStep

\* A request that moves without touching the lock, gives back its session or
\* keeps it, and enters no part that needs the lock.
LEMMA RequestMoves ==
    ASSUME IInv, TypeOK', NEW r \in Requests, UNCHANGED lock,
           \A t \in Requests : t # r => requests'[t] = requests[t],
           requests'[r].conn \in {None, requests[r].conn},
           requests'[r].conn # None
             <=> requests'[r].pc \in Holding \cup {"lock", "abandoned"},
           requests'[r].pc \in Holding => requests[r].pc \in Holding
    PROVE  LockInv'
<1>1. SingleFlight'
  BY DEF IInv, SingleFlight, SessionsAreExclusive
<1>2. SessionsAreExclusive'
  BY DEF IInv, SessionsAreExclusive
<1>. QED
  BY <1>1, <1>2

\* How a request moves without touching the lock or taking a session.
LEMMA Moves ==
    ASSUME IInv, NEW r \in Requests,
           \/ Poll(r) \/ PollLatest(r) \/ Fetch(r) \/ ReadLatest(r)
           \/ Recheck(r) \/ NextKey(r) \/ CreateSwap(r) \/ RecordSwap(r)
           \/ AcquireTimeout(r) \/ Drop(r)
    PROVE  /\ UNCHANGED lock
           /\ \/ Reads(r, "poll") \/ Reads(r, "read")
              \/ \E k : Ends(r, k)
              \/ requests[r].pc = "read" /\ GoesTo(r, "acquire")
              \/ requests[r].pc = "lock" /\ GoesTo(r, "abandoned")
              \/ /\ requests[r].pc \in Holding
                 /\ \/ GoesTo(r, "key") \/ GoesTo(r, "boltz")
                    \/ \E k : GoesToUnlock(r, k)
                    \/ \E e : requests' = [requests EXCEPT ![r] =
                         [pc |-> "record", amount |-> requests[r].amount,
                          now |-> requests[r].now, conn |-> requests[r].conn,
                          expires |-> e, answer |-> 0]]
BY DEF Poll, PollLatest, Fetch, ReadLatest, Recheck, NextKey, CreateSwap,
       RecordSwap, AcquireTimeout, Drop

\* A session passes from request to pool and back, and the lock with it.
LEMMA LockStep ==
    IInv /\ [Next]_vars => LockInv'
<1>. SUFFICES ASSUME IInv, [Next]_vars PROVE LockInv'
  OBVIOUS
<1>0. TypeOK'
  BY TypeStep
<1>a. requests \in [Requests -> Request]
  BY DEF IInv, TypeOK
<1>b. \A r \in Requests :
        requests[r].conn # None
          <=> requests[r].pc \in Holding \cup {"lock", "abandoned"}
  BY DEF IInv, SessionsAreExclusive
<1>1. CASE UNCHANGED <<requests, lock>>
  BY <1>1 DEF IInv, SessionsAreExclusive, SingleFlight
<1>2. ASSUME NEW r \in Requests,
             \/ Poll(r) \/ PollLatest(r) \/ Fetch(r) \/ ReadLatest(r)
             \/ Recheck(r) \/ NextKey(r) \/ CreateSwap(r) \/ RecordSwap(r)
             \/ AcquireTimeout(r) \/ Drop(r)
      PROVE  LockInv'
  <2>0. UNCHANGED lock
    BY <1>2, Moves
  <2>1. CASE Reads(r, "poll") \/ Reads(r, "read")
    BY <1>0, <1>a, <2>0, <2>1, RequestMoves DEF Reads
  <2>2. ASSUME NEW k, Ends(r, k) PROVE LockInv'
    BY <1>0, <1>a, <2>0, <2>2, RequestMoves DEF Ends
  <2>3. CASE requests[r].pc = "read" /\ GoesTo(r, "acquire")
    BY <1>0, <1>a, <1>b, <2>0, <2>3, RequestMoves DEF GoesTo, Goes
  <2>4. CASE requests[r].pc = "lock" /\ GoesTo(r, "abandoned")
    BY <1>0, <1>a, <1>b, <2>0, <2>4, RequestMoves DEF GoesTo, Goes
  <2>5. CASE /\ requests[r].pc \in Holding
             /\ GoesTo(r, "key") \/ GoesTo(r, "boltz")
    BY <1>0, <1>a, <1>b, <2>0, <2>5, RequestMoves DEF GoesTo, Goes
  <2>6. ASSUME NEW k, requests[r].pc \in Holding, GoesToUnlock(r, k)
        PROVE  LockInv'
    BY <1>0, <1>a, <1>b, <2>0, <2>6, RequestMoves DEF GoesToUnlock
  <2>7. ASSUME NEW e, requests[r].pc \in Holding,
               requests' = [requests EXCEPT ![r] =
                 [pc |-> "record", amount |-> requests[r].amount,
                  now |-> requests[r].now, conn |-> requests[r].conn,
                  expires |-> e, answer |-> 0]]
        PROVE  LockInv'
    BY <1>0, <1>a, <1>b, <2>0, <2>7, RequestMoves
  <2>. QED
    BY <1>2, <2>1, <2>2, <2>3, <2>4, <2>5, <2>6, <2>7, Moves
<1>3. ASSUME NEW r \in Requests, Acquire(r) PROVE LockInv'
  <2>1. PICK s \in Free : Goes(r, "lock", s, 0)
    BY <1>3 DEF Acquire
  <2>2. s \in Sessions /\ \A t \in Requests : requests[t].conn # s
    BY DEF Free
  <2>3. /\ requests'[r].pc = "lock" /\ requests'[r].conn = s
        /\ \A t \in Requests : t # r => requests'[t] = requests[t]
    BY <1>a, <2>1 DEF Goes
  <2>4. SessionsAreExclusive'
    BY <2>2, <2>3 DEF IInv, SessionsAreExclusive
  <2>5. SingleFlight'
    BY <1>3, <2>3 DEF IInv, SingleFlight, Acquire
  <2>. QED
    BY <2>4, <2>5
<1>4. ASSUME NEW r \in Requests, Lock(r) PROVE LockInv'
  <2>1. /\ requests[r].pc = "lock" /\ requests'[r].pc = "recheck"
        /\ requests'[r].conn = requests[r].conn
        /\ \A t \in Requests : t # r => requests'[t] = requests[t]
    BY <1>4, <1>a DEF Lock, GoesTo, Goes
  <2>2. SessionsAreExclusive'
    BY <2>1 DEF IInv, SessionsAreExclusive
  <2>3. /\ lock.holder \in {None, requests[r].conn}
        /\ lock'.holder = requests[r].conn /\ lock'.depth = lock.depth + 1
        /\ requests[r].conn # None /\ lock.depth \in Nat
    BY <1>4, <1>b, <2>1 DEF Lock, Taken, IInv, TypeOK
  <2>4. \A t \in Requests : t # r => requests[t].pc \notin Holding
    BY <1>b, <2>3 DEF IInv, SingleFlight, SessionsAreExclusive
  <2>5. SingleFlight'
    BY <2>1, <2>3, <2>4 DEF SingleFlight
  <2>. QED
    BY <2>2, <2>5
<1>5. ASSUME NEW r \in Requests, Unlock(r) PROVE LockInv'
  <2>1. /\ requests[r].pc = "unlock" /\ requests'[r].pc = "done"
        /\ requests'[r].conn = None
        /\ \A t \in Requests : t # r => requests'[t] = requests[t]
    BY <1>5, <1>a DEF Unlock, Ends
  <2>2. SessionsAreExclusive'
    BY <2>1 DEF IInv, SessionsAreExclusive
  <2>3. \A t \in Requests : t # r => requests[t].pc \notin Holding
    BY <1>b, <2>1 DEF IInv, SingleFlight, SessionsAreExclusive
  <2>4. lock'.holder = None <=> lock'.depth = 0
    BY <1>5, <1>b, <2>1 DEF Unlock, IInv, SingleFlight, TypeOK
  <2>. QED
    BY <2>1, <2>2, <2>3, <2>4 DEF SingleFlight
<1>6. ASSUME NEW r \in Requests, GrantAbandoned(r) PROVE LockInv'
  <2>1. /\ requests[r].pc = "abandoned" /\ requests'[r].pc = "done"
        /\ requests'[r].conn = None
        /\ \A t \in Requests : t # r => requests'[t] = requests[t]
    BY <1>6, <1>a DEF GrantAbandoned, Ends
  <2>2. SessionsAreExclusive'
    BY <2>1 DEF IInv, SessionsAreExclusive
  <2>3. /\ lock.holder \in {None, requests[r].conn}
        /\ lock'.holder = requests[r].conn /\ lock'.depth = lock.depth + 1
        /\ requests[r].conn # None /\ lock.depth \in Nat
    BY <1>6, <1>b, <2>1 DEF GrantAbandoned, Taken, IInv, TypeOK
  <2>4. \A t \in Requests : t # r => requests[t].pc \notin Holding
    BY <1>b, <2>1, <2>3 DEF IInv, SingleFlight, SessionsAreExclusive
  <2>5. SingleFlight'
    BY <2>1, <2>3, <2>4 DEF SingleFlight
  <2>. QED
    BY <2>2, <2>5
<1>7. ASSUME NEW s \in Sessions, Recycle(s) PROVE LockInv'
  <2>1. \A t \in Requests : requests[t].pc \notin Holding
    BY <1>7 DEF Recycle, Free, IInv, SingleFlight
  <2>. QED
    BY <1>7, <2>1 DEF Recycle, IInv, SingleFlight, SessionsAreExclusive
<1>. QED
  BY <1>1, <1>2, <1>3, <1>4, <1>5, <1>6, <1>7
     DEF Next, CreateStep, RequestStep, vars, CreateInvoice, EagerSwap,
         EagerRecord, ChainOffer, CleanupSelect, CleanupDelete,
         CreationDropped, Pay, Close, Tick

\* What a step appends to the offers, and by whom: whoever is about to record.
LEMMA WhoAppends ==
    ASSUME IInv, [Next]_vars
    PROVE  \/ UNCHANGED offers
           \/ /\ create.pc = "record" /\ invoice.exists /\ UNCHANGED invoice
              /\ offers' = Append(offers, EagerOffer)
              /\ UNCHANGED <<requests, chain>>
           \/ \E r \in Requests :
                /\ requests[r].pc = "record" /\ invoice.exists
                /\ offers' = Append(offers, RefreshOffer(r))
                /\ UNCHANGED <<invoice, create, chain>>
BY DEF Next, CreateStep, RequestStep, RecordOffer, vars, CreateInvoice,
       EagerSwap, EagerRecord, ChainOffer, CleanupSelect, CleanupDelete,
       CreationDropped, Poll, PollLatest, Fetch, ReadLatest, Acquire, Lock, Recheck, NextKey, CreateSwap,
       RecordSwap, Unlock, AcquireTimeout, Drop, GrantAbandoned, Recycle, Pay,
       Close, Tick

\* What is appended is an offer.
LEMMA OfferTypes ==
    ASSUME IInv
    PROVE  EagerOffer \in Offer /\ \A r \in Requests : RefreshOffer(r) \in Offer
BY DEF IInv, TypeOK, EagerOffer, RefreshOffer

\* What a step does to the offers that those past the lock have seen.
UpToDate == CreatorIsUpToDate /\ OpenIsPayable

\* Whoever creates a swap stays up to date.
LEMMA UpToDateStep ==
    IInv /\ [Next]_vars => UpToDate'
<1>. SUFFICES ASSUME IInv, [Next]_vars PROVE UpToDate'
  OBVIOUS
<1>. USE DEF UpToDate, IInv, TypeOK, RequestPc, SessionsAreExclusive,
             SingleFlight, CreatorIsUpToDate
<1>1. ASSUME NEW kind \in {"checkout", "wallet"}, CreateInvoice(kind)
      PROVE  UpToDate'
  BY <1>1 DEF CreateInvoice, CreationInv
<1>2. CASE EagerSwap
  BY <1>2 DEF EagerSwap, EagerFailed, CreationGoesTo
<1>3. CASE EagerRecord
  <2>1. CASE invoice.exists /\ offers' = Append(offers, EagerOffer)
    BY <1>3, <2>1
       DEF EagerRecord, EagerFailed, CreationGoesTo, EagerOffer,
          RecordOffer
  <2>2. CASE UNCHANGED offers
    BY <1>3, <2>2
       DEF EagerRecord, EagerFailed, CreationGoesTo, EagerOffer,
          RecordOffer
  <2>. QED
    BY <1>3, <2>1, <2>2 DEF EagerRecord, RecordOffer
<1>4. CASE ChainOffer
  BY <1>4 DEF ChainOffer, CreationGoesTo
<1>5. CASE CleanupDelete
  <2>1. CASE UNCHANGED invoice
    BY <1>5, <2>1
       DEF CleanupDelete, CreationGoesTo
  <2>2. CASE invoice' = [exists |-> FALSE, open |-> FALSE, paid |-> 0]
    BY <1>5, <2>2
       DEF CleanupDelete, CreationGoesTo
  <2>. QED
    BY <1>5, <2>1, <2>2 DEF CleanupDelete
<1>24. CASE CleanupSelect
  BY <1>24 DEF CleanupSelect, CreationGoesTo
<1>6. CASE CreationDropped
  BY <1>6 DEF CreationDropped, CreationGoesTo
<1>7. ASSUME NEW r \in Requests, Poll(r) PROVE UpToDate'
  <2>1. CASE Reads(r, "poll")
    BY <1>7, <2>1
       DEF Poll, Reads, Ends
  <2>2. CASE Ends(r, 0)
    BY <1>7, <2>2
       DEF Poll, Reads, Ends
  <2>. QED
    BY <1>7, <2>1, <2>2 DEF Poll
<1>8. ASSUME NEW r \in Requests, PollLatest(r) PROVE UpToDate'
  BY <1>8 DEF PollLatest, Ends
<1>9. ASSUME NEW r \in Requests, Fetch(r) PROVE UpToDate'
  BY <1>9 DEF Fetch, Reads
<1>10. ASSUME NEW r \in Requests, ReadLatest(r) PROVE UpToDate'
  <2>1. CASE Ends(r, Len(offers))
    BY <1>10, <2>1
       DEF ReadLatest, Ends, Goes, GoesTo
  <2>2. CASE Ends(r, 0)
    BY <1>10, <2>2
       DEF ReadLatest, Ends, Goes, GoesTo
  <2>3. CASE GoesTo(r, "acquire")
    BY <1>10, <2>3
       DEF ReadLatest, Ends, Goes, GoesTo
  <2>. QED
    BY <1>10, <2>1, <2>2, <2>3 DEF ReadLatest
<1>11. ASSUME NEW r \in Requests, Acquire(r) PROVE UpToDate'
  BY <1>11 DEF Acquire, Goes, Free
<1>12. ASSUME NEW r \in Requests, Lock(r) PROVE UpToDate'
  BY <1>12 DEF Lock, Taken, Goes, GoesTo
<1>13. ASSUME NEW r \in Requests, Recheck(r) PROVE UpToDate'
  <2>1. CASE /\ LatestFits(requests[r].amount, requests[r].now)
             /\ GoesToUnlock(r, Len(offers))
    BY <1>13, <2>1
       DEF Recheck, Goes, GoesTo, GoesToUnlock, LatestFits
  <2>2. CASE /\ ~LatestFits(requests[r].amount, requests[r].now)
             /\ GoesTo(r, "key")
    BY <1>13, <2>2
       DEF Recheck, Goes, GoesTo, GoesToUnlock, LatestFits
  <2>. QED
    BY <1>13, <2>1, <2>2 DEF Recheck
<1>14. ASSUME NEW r \in Requests, NextKey(r) PROVE UpToDate'
  BY <1>14 DEF NextKey, Goes, GoesTo
<1>15. ASSUME NEW r \in Requests, CreateSwap(r) PROVE UpToDate'
  <2>1. CASE \E life \in Lives :
               requests' = [requests EXCEPT ![r] =
                 [pc |-> "record", amount |-> requests[r].amount,
                  now |-> requests[r].now, conn |-> requests[r].conn,
                  expires |-> time + life, answer |-> 0]]
    <3>1. /\ requests[r].pc = "boltz" /\ UNCHANGED <<offers, invoice>>
          /\ requests'[r].amount = requests[r].amount
          /\ requests'[r].now = requests[r].now
          /\ \A t \in Requests : t # r => requests'[t] = requests[t]
      BY <1>15, <2>1 DEF CreateSwap
    <3>. HIDE DEF Fits, SessionsAreExclusive, SingleFlight, RequestPc
    <3>2. OpenIsPayable'
      BY <3>1
    <3>3. CreatorIsUpToDate'
      BY <3>1
    <3>. QED
      BY <3>2, <3>3
  <2>2. CASE GoesToUnlock(r, 0)
    BY <1>15, <2>2
       DEF CreateSwap, GoesToUnlock
  <2>. QED
    BY <1>15, <2>1, <2>2 DEF CreateSwap
<1>16. ASSUME NEW r \in Requests, RecordSwap(r) PROVE UpToDate'
  <2>1. CASE RecordOffer(RefreshOffer(r)) /\ GoesToUnlock(r, 0)
    BY <1>16, <2>1
       DEF RecordSwap, GoesToUnlock, RecordOffer, RefreshOffer
  <2>2. CASE /\ RecordOffer(RefreshOffer(r))
             /\ GoesToUnlock(r, Len(offers) + 1)
    BY <1>16, <2>2
       DEF RecordSwap, GoesToUnlock, RecordOffer, RefreshOffer
  <2>3. CASE UNCHANGED offers /\ GoesToUnlock(r, 0)
    BY <1>16, <2>3
       DEF RecordSwap, GoesToUnlock, RecordOffer, RefreshOffer
  <2>. QED
    BY <1>16, <2>1, <2>2, <2>3 DEF RecordSwap
<1>17. ASSUME NEW r \in Requests, Unlock(r) PROVE UpToDate'
  BY <1>17 DEF Unlock, Ends
<1>18. ASSUME NEW r \in Requests, AcquireTimeout(r) PROVE UpToDate'
  <2>1. CASE /\ requests[r].pc \in {"poll", "read", "acquire"}
             /\ Ends(r, 0)
    BY <1>18, <2>1
       DEF AcquireTimeout, Ends, GoesToUnlock
  <2>2. CASE /\ requests[r].pc \in {"key", "record"}
             /\ GoesToUnlock(r, 0)
    BY <1>18, <2>2
       DEF AcquireTimeout, Ends, GoesToUnlock
  <2>. QED
    BY <1>18, <2>1, <2>2 DEF AcquireTimeout
<1>19. ASSUME NEW r \in Requests, Drop(r) PROVE UpToDate'
  <2>1. CASE /\ requests[r].pc = "lock" /\ UNCHANGED offers
             /\ GoesTo(r, "abandoned")
    BY <1>19, <2>1
       DEF Drop, Goes, GoesTo, Ends, RecordOffer, RefreshOffer
  <2>2. CASE /\ requests[r].pc # "lock" /\ UNCHANGED offers
             /\ Ends(r, 0)
    BY <1>19, <2>2
       DEF Drop, Goes, GoesTo, Ends, RecordOffer, RefreshOffer
  <2>3. CASE /\ requests[r].pc = "record" /\ Ends(r, 0)
             /\ RecordOffer(RefreshOffer(r))
    BY <1>19, <2>3
       DEF Drop, Goes, GoesTo, Ends, RecordOffer, RefreshOffer
  <2>. QED
    BY <1>19, <2>1, <2>2, <2>3 DEF Drop
<1>20. ASSUME NEW r \in Requests, GrantAbandoned(r) PROVE UpToDate'
  BY <1>20 DEF GrantAbandoned, Taken, Ends
<1>21. ASSUME NEW s \in Sessions, Recycle(s)
      PROVE  UpToDate'
  BY <1>21 DEF Recycle, Free
<1>22. CASE Pay \/ Close \/ Tick
  <2>1. CASE Pay
    <3>1. PICK open \in BOOLEAN :
            /\ invoice' = [exists |-> TRUE, open |-> open,
                           paid |-> invoice.paid + 1]
            /\ invoice.paid < Total
            /\ invoice.paid + 1 = Total => ~open
      BY <2>1 DEF Pay
    <3>. QED
      BY <2>1, <3>1 DEF Pay
  <2>2. CASE Close
    BY <1>22, <2>2
       DEF Close
  <2>3. CASE Tick
    BY <1>22, <2>3
       DEF Tick
  <2>. QED
    BY <1>22, <2>1, <2>2, <2>3
<1>23. CASE UNCHANGED vars
  BY <1>23 DEF vars
<1>. QED
  BY <1>1, <1>2, <1>3, <1>4, <1>5, <1>6, <1>7, <1>8, <1>9, <1>10, <1>11, <1>12,
     <1>13, <1>14, <1>15, <1>16, <1>17, <1>18, <1>19, <1>20, <1>21, <1>22, <1>23,
     <1>24
     DEF Next, CreateStep, RequestStep

\* What the creation leaves: it alone changes create and chain, and deletes.
LEMMA OthersLeaveCreation ==
    ASSUME IInv, [Next]_vars,
           ~(\E kind \in {"checkout", "wallet"} : CreateInvoice(kind)),
           ~CreateStep, ~CreationDropped
    PROVE  /\ UNCHANGED <<create, chain>>
           /\ invoice'.exists = invoice.exists
<1>1. UNCHANGED <<create, chain>> /\ (UNCHANGED invoice \/ Pay \/ Close)
  BY DEF Next, RequestStep, vars, Poll, PollLatest, Fetch, ReadLatest,
     Acquire, Lock, Recheck, NextKey, CreateSwap, RecordSwap, Unlock,
     AcquireTimeout, Drop, GrantAbandoned, Recycle, Pay, Close, Tick
<1>2. CASE UNCHANGED invoice
  BY <1>1, <1>2
<1>3. CASE Pay
  BY <1>1, <1>3 DEF Pay
<1>4. CASE Close
  BY <1>1, <1>4 DEF Close, IInv
<1>. QED
  BY <1>1, <1>2, <1>3, <1>4

\* What it appends then is by a refresh.
LEMMA OthersAppend ==
    ASSUME IInv, [Next]_vars, UNCHANGED create
    PROVE  /\ UNCHANGED offers \/ (invoice.exists /\ offers' # <<>>)
           /\ create.pc # "record" /\
              (\A k \in 1 .. Len(offers) : offers[k].by = "refresh") =>
                \A k \in 1 .. Len(offers') : offers'[k].by = "refresh"
<1>0. offers \in Seq(Offer)
  BY DEF IInv, TypeOK
<1>1. CASE UNCHANGED offers
  BY <1>1
<1>2. CASE create.pc = "record" /\ invoice.exists
             /\ offers' = Append(offers, EagerOffer)
  BY <1>0, <1>2, OfferTypes, Appended
<1>3. ASSUME NEW r \in Requests, invoice.exists,
             offers' = Append(offers, RefreshOffer(r))
      PROVE  /\ invoice.exists /\ offers' # <<>>
             /\ (\A k \in 1 .. Len(offers) : offers[k].by = "refresh") =>
                  \A k \in 1 .. Len(offers') : offers'[k].by = "refresh"
  <2>1. RefreshOffer(r).by = "refresh" /\ RefreshOffer(r) \in Offer
    BY OfferTypes DEF RefreshOffer
  <2>. QED
    BY <1>0, <1>3, <2>1, Appended
<1>. QED
  BY <1>1, <1>2, <1>3, WhoAppends

\* Where the creation stands.
LEMMA CreationStep ==
    IInv /\ [Next]_vars => CreationInv'
<1>. SUFFICES ASSUME IInv, [Next]_vars PROVE CreationInv'
  OBVIOUS
<1>. USE DEF CreationInv
<1>0. offers \in Seq(Offer) /\ CreationInv /\ create.pc \in CreatePc
  BY DEF IInv, TypeOK
<1>1. CASE \E kind \in {"checkout", "wallet"} : CreateInvoice(kind)
  BY <1>0, <1>1 DEF CreateInvoice
<1>2. CASE EagerSwap
  BY <1>0, <1>2 DEF EagerSwap, EagerFailed, CreationGoesTo
<1>3. CASE EagerRecord
  <2>1. offers' # <<>> \/ UNCHANGED offers
    BY <1>0, <1>3, OfferTypes, Appended DEF EagerRecord, RecordOffer
  <2>2. /\ create.pc = "record" /\ UNCHANGED <<invoice, chain>>
        /\ create'.pc \in {"chain", "cleanup", "returned"}
        /\ create'.pc = "chain" => offers' = Append(offers, EagerOffer)
    BY <1>3 DEF EagerRecord, EagerFailed, CreationGoesTo, RecordOffer
  <2>3. create'.pc = "chain" => offers' # <<>>
    BY <1>0, <2>2, OfferTypes, Appended
  <2>. QED
    BY <1>0, <2>2, <2>3
<1>4. CASE ChainOffer
  BY <1>0, <1>4 DEF ChainOffer, CreationGoesTo
<1>5. CASE CleanupSelect
  BY <1>0, <1>5 DEF CleanupSelect, CreationGoesTo
<1>6. CASE CleanupDelete
  BY <1>0, <1>6 DEF CleanupDelete, CreationGoesTo
<1>7. CASE CreationDropped
  BY <1>0, <1>7 DEF CreationDropped, CreationGoesTo
<1>8. CASE /\ UNCHANGED <<create, chain>>
           /\ invoice'.exists = invoice.exists
  BY <1>0, <1>8, OthersAppend
<1>. QED
  BY <1>1, <1>2, <1>3, <1>4, <1>5, <1>6, <1>7, <1>8, OthersLeaveCreation
     DEF CreateStep

\* IInv is inductive.
LEMMA StepInv == IInv /\ [Next]_vars => IInv'
BY TypeStep, LockStep, UpToDateStep, CreationStep DEF IInv, UpToDate

-----------------------------------------------------------------------------
\* The inductive invariant of the offers of an invoice (invoice.rs:1115).
THEOREM Invariance == Spec => []IInv
BY InitInv, StepInv, PTL DEF Spec

\* Every variable keeps its type.
THEOREM TypeCorrect == Spec => []TypeOK
<1>1. IInv => TypeOK
  BY DEF IInv
<1>. QED
  BY <1>1, Invariance, PTL

\* At most one request is between the lock and the unlock (invoice.rs:1150).
THEOREM RefreshesAlone ==
    Spec => [](\A r, t \in Requests :
                 requests[r].pc \in Holding /\ requests[t].pc \in Holding
                   => r = t)
<1>1. IInv => \A r, t \in Requests :
                requests[r].pc \in Holding /\ requests[t].pc \in Holding
                  => r = t
  BY DEF IInv, SingleFlight, SessionsAreExclusive, TypeOK
<1>. QED
  BY <1>1, Invariance, PTL

-----------------------------------------------------------------------------
\* A replacement is not appended to one that still fits.
LEMMA OneOfferStep ==
    IInv /\ OneOfferPerNeed /\ [Next]_vars => OneOfferPerNeed'
<1>. SUFFICES ASSUME IInv, OneOfferPerNeed, [Next]_vars PROVE OneOfferPerNeed'
  OBVIOUS
<1>. USE DEF OneOfferPerNeed, Fits
<1>0. offers \in Seq(Offer)
  BY DEF IInv, TypeOK
<1>1. CASE UNCHANGED offers
  BY <1>1
<1>2. CASE offers' = Append(offers, EagerOffer)
  <2>1. offers'[Len(offers')].by = "eager"
    BY <1>0, <1>2, OfferTypes, Appended DEF EagerOffer
  <2>2. /\ Len(offers) \in Nat /\ Len(offers') = Len(offers) + 1
        /\ \A k \in 1 .. Len(offers) : offers'[k] = offers[k]
    BY <1>0, <1>2, OfferTypes, Appended
  <2>. HIDE DEF Fits
  <2>3. \A k \in 1 .. Len(offers') - 1 :
          \/ offers'[k + 1].by = "eager"
          \/ /\ k \in 1 .. Len(offers) - 1
             /\ offers'[k] = offers[k] /\ offers'[k + 1] = offers[k + 1]
    BY <2>1, <2>2
  <2>. QED
    BY <2>3
<1>3. ASSUME NEW r \in Requests, requests[r].pc = "record", invoice.exists,
             offers' = Append(offers, RefreshOffer(r))
      PROVE  OneOfferPerNeed'
  <2>1. /\ offers'[Len(offers')].amount = requests[r].amount
        /\ offers'[Len(offers')].now = requests[r].now
    BY <1>0, <1>3, OfferTypes, Appended DEF RefreshOffer
  <2>2. offers # <<>> =>
          \/ offers[Len(offers)].by = "eager"
          \/ ~Fits(offers[Len(offers)], requests[r].amount, requests[r].now)
    BY <1>3 DEF IInv, CreatorIsUpToDate
  <2>3. Len(offers) > 0 => offers # <<>>
    BY <1>0
  <2>4. /\ Len(offers) \in Nat /\ Len(offers') = Len(offers) + 1
        /\ \A k \in 1 .. Len(offers) : offers'[k] = offers[k]
    BY <1>0, <1>3, OfferTypes, Appended
  <2>5. SUFFICES ASSUME NEW k \in 1 .. Len(offers') - 1,
                        offers'[k].by = "refresh"
                 PROVE  offers'[k + 1].by = "refresh" =>
                          ~Fits(offers'[k], offers'[k + 1].amount,
                                offers'[k + 1].now)
    BY DEF OneOfferPerNeed
  <2>. HIDE DEF Fits
  <2>6. CASE k < Len(offers)
    <3>1. /\ k \in 1 .. Len(offers) - 1
          /\ k \in 1 .. Len(offers) /\ k + 1 \in 1 .. Len(offers)
      BY <2>4, <2>6
    <3>2. offers'[k] = offers[k] /\ offers'[k + 1] = offers[k + 1]
      BY <2>4, <3>1
    <3>. QED
      BY <2>5, <3>1, <3>2 DEF OneOfferPerNeed
  <2>7. CASE k = Len(offers)
    BY <2>1, <2>2, <2>3, <2>4, <2>5, <2>7
  <2>. QED
    BY <2>4, <2>6, <2>7
<1>4. \/ UNCHANGED offers \/ offers' = Append(offers, EagerOffer)
      \/ \E r \in Requests : /\ requests[r].pc = "record" /\ invoice.exists
                             /\ offers' = Append(offers, RefreshOffer(r))
  BY WhoAppends
<1>. HIDE DEF OneOfferPerNeed, Fits
<1>. QED
  BY <1>1, <1>2, <1>3, <1>4

\* No two replacements are created for one need (invoice.rs:1157).
THEOREM OneReplacementPerNeed == Spec => []OneOfferPerNeed
<1>1. Init => OneOfferPerNeed
  BY DEF Init, OneOfferPerNeed
<1>. QED
  BY <1>1, OneOfferStep, Invariance, PTL DEF Spec

\* An answer is a place in the offers, which only grow.
LEMMA ShownStep ==
    IInv /\ ShownIsRecorded /\ [Next]_vars => ShownIsRecorded'
<1>. SUFFICES ASSUME IInv, ShownIsRecorded, [Next]_vars PROVE ShownIsRecorded'
  OBVIOUS
<1>. USE DEF IInv, TypeOK, RequestPc, ShownIsRecorded
<1>1. ASSUME NEW kind \in {"checkout", "wallet"}, CreateInvoice(kind)
      PROVE  ShownIsRecorded'
  BY <1>1 DEF CreateInvoice
<1>2. CASE EagerSwap
  BY <1>2 DEF EagerSwap, EagerFailed, CreationGoesTo
<1>3. CASE EagerRecord
  <2>1. CASE invoice.exists /\ offers' = Append(offers, EagerOffer)
    BY <1>3, <2>1, OfferTypes, Appended
       DEF EagerRecord, EagerFailed, CreationGoesTo, EagerOffer,
          RecordOffer
  <2>2. CASE UNCHANGED offers
    BY <1>3, <2>2, OfferTypes, Appended
       DEF EagerRecord, EagerFailed, CreationGoesTo, EagerOffer,
          RecordOffer
  <2>. QED
    BY <1>3, <2>1, <2>2 DEF EagerRecord, RecordOffer
<1>4. CASE ChainOffer
  BY <1>4 DEF ChainOffer, CreationGoesTo
<1>5. CASE CleanupDelete
  <2>1. CASE UNCHANGED invoice
    BY <1>5, <2>1
       DEF CleanupDelete, CreationGoesTo
  <2>2. CASE invoice' = [exists |-> FALSE, open |-> FALSE, paid |-> 0]
    BY <1>5, <2>2
       DEF CleanupDelete, CreationGoesTo
  <2>. QED
    BY <1>5, <2>1, <2>2 DEF CleanupDelete
<1>24. CASE CleanupSelect
  BY <1>24 DEF CleanupSelect, CreationGoesTo
<1>6. CASE CreationDropped
  BY <1>6 DEF CreationDropped, CreationGoesTo
<1>7. ASSUME NEW r \in Requests, Poll(r) PROVE ShownIsRecorded'
  <2>1. CASE Reads(r, "poll")
    BY <1>7, <2>1
       DEF Poll, Reads, Ends
  <2>2. CASE Ends(r, 0)
    BY <1>7, <2>2
       DEF Poll, Reads, Ends
  <2>. QED
    BY <1>7, <2>1, <2>2 DEF Poll
<1>8. ASSUME NEW r \in Requests, PollLatest(r) PROVE ShownIsRecorded'
  BY <1>8, LenProperties DEF PollLatest, Ends
<1>9. ASSUME NEW r \in Requests, Fetch(r) PROVE ShownIsRecorded'
  BY <1>9 DEF Fetch, Reads
<1>10. ASSUME NEW r \in Requests, ReadLatest(r) PROVE ShownIsRecorded'
  <2>1. CASE Ends(r, Len(offers))
    BY <1>10, <2>1, LenProperties
       DEF ReadLatest, Ends, Goes, GoesTo
  <2>2. CASE Ends(r, 0)
    BY <1>10, <2>2, LenProperties
       DEF ReadLatest, Ends, Goes, GoesTo
  <2>3. CASE GoesTo(r, "acquire")
    BY <1>10, <2>3, LenProperties
       DEF ReadLatest, Ends, Goes, GoesTo
  <2>. QED
    BY <1>10, <2>1, <2>2, <2>3 DEF ReadLatest
<1>11. ASSUME NEW r \in Requests, Acquire(r) PROVE ShownIsRecorded'
  BY <1>11 DEF Acquire, Goes, Free
<1>12. ASSUME NEW r \in Requests, Lock(r) PROVE ShownIsRecorded'
  BY <1>12 DEF Lock, Taken, Goes, GoesTo
<1>13. ASSUME NEW r \in Requests, Recheck(r) PROVE ShownIsRecorded'
  <2>1. CASE /\ LatestFits(requests[r].amount, requests[r].now)
             /\ GoesToUnlock(r, Len(offers))
    BY <1>13, <2>1, LenProperties
       DEF Recheck, Goes, GoesTo, GoesToUnlock
  <2>2. CASE /\ ~LatestFits(requests[r].amount, requests[r].now)
             /\ GoesTo(r, "key")
    BY <1>13, <2>2, LenProperties
       DEF Recheck, Goes, GoesTo, GoesToUnlock
  <2>. QED
    BY <1>13, <2>1, <2>2 DEF Recheck
<1>14. ASSUME NEW r \in Requests, NextKey(r) PROVE ShownIsRecorded'
  BY <1>14 DEF NextKey, Goes, GoesTo
<1>15. ASSUME NEW r \in Requests, CreateSwap(r) PROVE ShownIsRecorded'
  <2>1. CASE \E life \in Lives :
               requests' = [requests EXCEPT ![r] =
                 [pc |-> "record", amount |-> requests[r].amount,
                  now |-> requests[r].now, conn |-> requests[r].conn,
                  expires |-> time + life, answer |-> 0]]
    BY <1>15, <2>1
       DEF CreateSwap, GoesToUnlock
  <2>2. CASE GoesToUnlock(r, 0)
    BY <1>15, <2>2
       DEF CreateSwap, GoesToUnlock
  <2>. QED
    BY <1>15, <2>1, <2>2 DEF CreateSwap
<1>16. ASSUME NEW r \in Requests, RecordSwap(r) PROVE ShownIsRecorded'
  <2>1. CASE RecordOffer(RefreshOffer(r)) /\ GoesToUnlock(r, 0)
    <3>1. Len(offers') = Len(offers) + 1 /\ Len(offers) \in Nat
      BY <2>1, OfferTypes, Appended DEF RecordOffer
    <3>. QED
      BY <2>1, <3>1 DEF GoesToUnlock
  <2>2. CASE /\ RecordOffer(RefreshOffer(r))
             /\ GoesToUnlock(r, Len(offers) + 1)
    <3>1. Len(offers') = Len(offers) + 1 /\ Len(offers) \in Nat
      BY <2>2, OfferTypes, Appended DEF RecordOffer
    <3>. QED
      BY <2>2, <3>1 DEF GoesToUnlock
  <2>3. CASE UNCHANGED offers /\ GoesToUnlock(r, 0)
    BY <1>16, <2>3, OfferTypes, Appended
       DEF RecordSwap, GoesToUnlock, RecordOffer, RefreshOffer
  <2>. QED
    BY <1>16, <2>1, <2>2, <2>3 DEF RecordSwap
<1>17. ASSUME NEW r \in Requests, Unlock(r) PROVE ShownIsRecorded'
  BY <1>17 DEF Unlock, Ends
<1>18. ASSUME NEW r \in Requests, AcquireTimeout(r) PROVE ShownIsRecorded'
  <2>1. CASE /\ requests[r].pc \in {"poll", "read", "acquire"}
             /\ Ends(r, 0)
    BY <1>18, <2>1
       DEF AcquireTimeout, Ends, GoesToUnlock
  <2>2. CASE /\ requests[r].pc \in {"key", "record"}
             /\ GoesToUnlock(r, 0)
    BY <1>18, <2>2
       DEF AcquireTimeout, Ends, GoesToUnlock
  <2>. QED
    BY <1>18, <2>1, <2>2 DEF AcquireTimeout
<1>19. ASSUME NEW r \in Requests, Drop(r) PROVE ShownIsRecorded'
  <2>1. CASE /\ requests[r].pc = "lock" /\ UNCHANGED offers
             /\ GoesTo(r, "abandoned")
    BY <1>19, <2>1, OfferTypes, Appended
       DEF Drop, Goes, GoesTo, Ends, RecordOffer, RefreshOffer
  <2>2. CASE /\ requests[r].pc # "lock" /\ UNCHANGED offers
             /\ Ends(r, 0)
    BY <1>19, <2>2, OfferTypes, Appended
       DEF Drop, Goes, GoesTo, Ends, RecordOffer, RefreshOffer
  <2>3. CASE /\ requests[r].pc = "record" /\ Ends(r, 0)
             /\ RecordOffer(RefreshOffer(r))
    <3>1. Len(offers') = Len(offers) + 1 /\ Len(offers) \in Nat
      BY <2>3, OfferTypes, Appended DEF RecordOffer
    <3>. QED
      BY <2>3, <3>1 DEF Ends
  <2>. QED
    BY <1>19, <2>1, <2>2, <2>3 DEF Drop
<1>20. ASSUME NEW r \in Requests, GrantAbandoned(r) PROVE ShownIsRecorded'
  BY <1>20 DEF GrantAbandoned, Taken, Ends
<1>21. ASSUME NEW s \in Sessions, Recycle(s)
      PROVE  ShownIsRecorded'
  BY <1>21 DEF Recycle, Free
<1>22. CASE Pay \/ Close \/ Tick
  <2>1. CASE Pay
    <3>1. PICK open \in BOOLEAN :
            /\ invoice' = [exists |-> TRUE, open |-> open,
                           paid |-> invoice.paid + 1]
            /\ invoice.paid < Total
            /\ invoice.paid + 1 = Total => ~open
      BY <2>1 DEF Pay
    <3>. QED
      BY <2>1, <3>1 DEF Pay
  <2>2. CASE Close
    BY <1>22, <2>2
       DEF Close
  <2>3. CASE Tick
    BY <1>22, <2>3
       DEF Tick
  <2>. QED
    BY <1>22, <2>1, <2>2, <2>3
<1>23. CASE UNCHANGED vars
  BY <1>23 DEF vars
<1>. QED
  BY <1>1, <1>2, <1>3, <1>4, <1>5, <1>6, <1>7, <1>8, <1>9, <1>10, <1>11, <1>12,
     <1>13, <1>14, <1>15, <1>16, <1>17, <1>18, <1>19, <1>20, <1>21, <1>22, <1>23,
     <1>24
     DEF Next, CreateStep, RequestStep

\* What is shown is recorded (invoice.rs:1376).
THEOREM NothingUnrecordedIsShown == Spec => []ShownIsRecorded
<1>1. Init => ShownIsRecorded
  <2>. SUFFICES ASSUME Init, NEW r \in Requests
                PROVE  requests[r].answer <= Len(offers)
    BY DEF ShownIsRecorded
  <2>1. requests[r].answer = 0
    BY DEF Init
  <2>2. offers = <<>>
    BY DEF Init
  <2>. QED
    BY <2>1, <2>2
<1>. QED
  BY <1>1, ShownStep, Invariance, PTL DEF Spec

\* The deletion begins without offers, and refreshes alone add some to it.
LEMMA KeepStep ==
    IInv /\ OffersKeepTheirInvoice /\ [Next]_vars => OffersKeepTheirInvoice'
<1>. SUFFICES ASSUME IInv, OffersKeepTheirInvoice, [Next]_vars
              PROVE  OffersKeepTheirInvoice'
  OBVIOUS
<1>. USE DEF OffersKeepTheirInvoice
<1>0. offers \in Seq(Offer) /\ CreationInv
  BY DEF IInv, TypeOK
<1>1. CASE \E kind \in {"checkout", "wallet"} : CreateInvoice(kind)
  BY <1>0, <1>1 DEF CreateInvoice, CreationInv
<1>2. CASE EagerSwap
  BY <1>0, <1>2 DEF EagerSwap, EagerFailed, CreationGoesTo, CreationInv
<1>3. CASE EagerRecord
  <2>1. /\ create.pc = "record" /\ UNCHANGED <<invoice, chain>>
        /\ create'.pc = "returned" => create'.kind # "checkout"
    BY <1>3 DEF EagerRecord, EagerFailed, CreationGoesTo
  <2>. QED
    BY <1>0, <2>1 DEF CreationInv
<1>4. CASE ChainOffer
  BY <1>0, <1>4 DEF ChainOffer, CreationGoesTo, CreationInv
<1>5. CASE CleanupSelect
  BY <1>0, <1>5 DEF CleanupSelect, CreationGoesTo, CreationInv
<1>6. CASE CleanupDelete
  BY <1>0, <1>6 DEF CleanupDelete, CreationGoesTo, CreationInv
<1>7. CASE CreationDropped
  BY <1>0, <1>7 DEF CreationDropped, CreationGoesTo, CreationInv
<1>8. CASE /\ UNCHANGED <<create, chain>>
           /\ invoice'.exists = invoice.exists
  BY <1>0, <1>8, OthersAppend DEF CreationInv
<1>. QED
  BY <1>1, <1>2, <1>3, <1>4, <1>5, <1>6, <1>7, <1>8, OthersLeaveCreation
     DEF CreateStep

\* The deletion after a failed creation takes the invoice from offers that
\* refreshes recorded while it ran, and from no others; one that was returned
\* stays (invoice.rs:599).
THEOREM OffersKept == Spec => []OffersKeepTheirInvoice
<1>1. Init => OffersKeepTheirInvoice
  BY DEF Init, OffersKeepTheirInvoice
<1>. QED
  BY <1>1, KeepStep, Invariance, PTL DEF Spec

=============================================================================
