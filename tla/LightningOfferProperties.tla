---------------------- MODULE LightningOfferProperties ----------------------
(***************************************************************************)
(* What the offers of an invoice must satisfy.                             *)
(***************************************************************************)
EXTENDS LightningOffer

Request == [pc : RequestPc, amount : Nat, now : Nat,
            conn : Sessions \cup {None}, expires : Nat, answer : Nat]

\* Every variable keeps its type; the lock is taken by a session, once or
\* more.
TypeOK ==
    /\ time \in Nat
    /\ invoice \in [exists : BOOLEAN, open : BOOLEAN, paid : 0 .. Total]
    /\ offers \in Seq(Offer)
    /\ chain \in BOOLEAN
    /\ create \in [pc : CreatePc, kind : {"checkout", "wallet"}, expires : Nat]
    /\ requests \in [Requests -> Request]
    /\ lock \in [holder : Sessions \cup {None}, depth : Nat]

\* A request has a session exactly from its acquisition to its end, and no two
\* have the same.
SessionsAreExclusive ==
    /\ \A r \in Requests :
         requests[r].conn # None <=>
           requests[r].pc \in Holding \cup {"lock", "abandoned"}
    /\ \A r, t \in Requests :
         r # t /\ requests[r].conn # None => requests[r].conn # requests[t].conn

\* The lock is held by the session of whoever is past it: at most one request
\* looks for a swap key, asks Boltz or records (docs/payment-architecture.md,
\* "Refresh must be single-flight").
SingleFlight ==
    /\ lock.holder = None <=> lock.depth = 0
    /\ \A r \in Requests :
         requests[r].pc \in Holding => lock.holder = requests[r].conn

\* While there is an invoice, who is about to create a swap has seen that the
\* latest replacement does not do, and that is still so: the eager offer alone
\* may come in between.
CreatorIsUpToDate ==
    \A r \in Requests :
      (/\ requests[r].pc \in {"key", "boltz", "record"}
       /\ invoice.exists /\ offers # <<>>) =>
        \/ offers[Len(offers)].by = "eager"
        \/ ~Fits(offers[Len(offers)], requests[r].amount, requests[r].now)

\* A replacement follows directly on another only when that one no longer fits
\* what the request asks for: two requests with one need open one swap, whatever
\* clients leave and whatever locks their sessions leak (invoice.rs:1157).  The
\* eager offer is recorded without the lock: nothing is said of a replacement
\* that has the eager offer before or after it.
OneOfferPerNeed ==
    \A k \in 1 .. Len(offers) - 1 :
      offers[k].by = "refresh" /\ offers[k + 1].by = "refresh" =>
        ~Fits(offers[k], offers[k + 1].amount, offers[k + 1].now)

\* A BOLT11 that is shown has its row, and so the preimage and the claim key
\* are kept: a swap that Boltz created and the database did not record is
\* never offered (invoice.rs:1376).
ShownIsRecorded ==
    \A r \in Requests : requests[r].answer <= Len(offers)

\* A creation that fails may delete its invoice, and must take with it neither
\* what it recorded nor an invoice that was returned, although the owner's list
\* shows it to others meanwhile (invoice.rs:599).  A checkout is returned with
\* an offer, and a Bitcoin offer comes with a Lightning one; whoever has been
\* returned an invoice, or recorded the eager or the Bitcoin offer of one, finds
\* it again.  A refresh does not: what it records while the deletion runs loses
\* its invoice.
OffersKeepTheirInvoice ==
    /\ chain => invoice.exists /\ offers # <<>>
    /\ create.pc = "returned" => invoice.exists
    /\ create.kind = "checkout" /\ create.pc = "returned" => offers # <<>>
    /\ ~invoice.exists => \A k \in 1 .. Len(offers) : offers[k].by = "refresh"

OpenIsPayable == invoice.open => invoice.exists /\ invoice.paid < Total

\* Where the creation stands: its invoice is there from the insertion to the
\* deletion; while it is being deleted, refreshes alone record offers.
CreationInv ==
    /\ create.pc = "idle" => ~invoice.exists /\ offers = <<>>
    /\ create.pc \notin {"idle", "failed"} => invoice.exists
    /\ create.pc = "chain" => offers # <<>>
    /\ create.pc = "deleting" =>
         \A k \in 1 .. Len(offers) : offers[k].by = "refresh"
    /\ chain => create.pc = "returned"

\* The inductive invariant.
LockInv == SessionsAreExclusive /\ SingleFlight
OfferInv == CreatorIsUpToDate /\ OpenIsPayable /\ CreationInv
IInv == TypeOK /\ LockInv /\ OfferInv

\* A request ends, although those that wait for the lock keep the connections
\* that its holder needs, and although locks leak (invoice.rs:1145).
EveryRequestEnds ==
    \A r \in Requests :
      requests[r].pc # "idle" ~> requests[r].pc \in {"idle", "done"}
=============================================================================
