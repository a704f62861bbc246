----------------------------- MODULE LedgerSums -----------------------------
(***************************************************************************)
(* The sum of an invoice's events, for any finite set of payments.         *)
(*                                                                         *)
(* Total is a fold: it takes the payments out in an order that CHOOSE has  *)
(* picked.  That the order does not matter, and all that follows, is shown *)
(* by looking at a smallest set for which it would not hold.               *)
(***************************************************************************)
EXTENDS InvoiceLedger, FiniteSetTheorems, TLAPS

\* The finite sets of payments, and the next payment of one.
Bundle == FiniteSubsetsOf(Payments)
Pick(s) == CHOOSE x \in s : TRUE

\* g holds the sum of every set in D.
SumsOf(g, D) ==
    g = [s \in SUBSET D |-> IF s = {} THEN 0
                            ELSE Sats[Pick(s)] + g[s \ {Pick(s)}]]
Sums(D) == CHOOSE g : SumsOf(g, D)

-----------------------------------------------------------------------------
\* A set of bundles has a smallest one.
LEMMA SmallestBundle ==
    ASSUME NEW T \in SUBSET Bundle, T # {}
    PROVE  \E s \in T : \A t \in T : t \subseteq s => t = s
<1>1. PICK s \in T : \A t \in T : <<t, s>> \notin StrictSubsetOrdering(Payments)
  BY FS_StrictSubsetOrderingWellFounded, WFMin DEF Bundle
<1>2. \A t \in T : t \subseteq Payments
  BY DEF Bundle, FiniteSubsetsOf
<1>3. ASSUME NEW t \in T, t \subseteq s, t # s PROVE FALSE
  <2>1. <<t, s>> \in (SUBSET Payments) \X (SUBSET Payments)
    BY <1>2
  <2>. QED
    BY <1>1, <1>3, <2>1 DEF StrictSubsetOrdering
<1>. QED
  BY <1>3

\* What is left of a bundle is a bundle, and what is added makes one.
LEMMA BundleParts ==
    ASSUME NEW s \in Bundle
    PROVE  /\ \A t : t \subseteq s => t \in Bundle
           /\ \A x : s \ {x} \in Bundle
           /\ \A x \in Payments : s \cup {x} \in Bundle
           /\ s # {} => Pick(s) \in s
           /\ \A x \in s : x \in Payments
<1>1. s \subseteq Payments /\ IsFiniteSet(s)
  BY DEF Bundle, FiniteSubsetsOf
<1>2. \A t : t \subseteq s => t \in Bundle
  BY <1>1, FS_Subset DEF Bundle, FiniteSubsetsOf
<1>3. \A x \in Payments : s \cup {x} \in Bundle
  BY <1>1, FS_AddElement DEF Bundle, FiniteSubsetsOf
<1>4. s # {} => Pick(s) \in s
  BY DEF Pick
<1>. QED
  BY <1>1, <1>2, <1>3, <1>4

\* Two tables of sums agree where both are defined.
LEMMA SumsAgree ==
    ASSUME NEW D, NEW E, NEW g, NEW h, SumsOf(g, D), SumsOf(h, E),
           NEW s \in Bundle, s \subseteq D, s \subseteq E
    PROVE  g[s] = h[s]
<1> DEFINE T == {t \in Bundle : t \subseteq D /\ t \subseteq E /\ g[t] # h[t]}
<1>. SUFFICES ASSUME T # {} PROVE FALSE
  OBVIOUS
<1>1. PICK t \in T : \A u \in T : u \subseteq t => u = t
  <2>1. T \in SUBSET Bundle
    OBVIOUS
  <2>. HIDE DEF T
  <2>. QED
    BY <2>1, SmallestBundle
<1>2. t \in Bundle /\ t \subseteq D /\ t \subseteq E /\ g[t] # h[t]
  BY <1>1
<1>. HIDE DEF T
<1>3. /\ g[t] = IF t = {} THEN 0 ELSE Sats[Pick(t)] + g[t \ {Pick(t)}]
      /\ h[t] = IF t = {} THEN 0 ELSE Sats[Pick(t)] + h[t \ {Pick(t)}]
  BY <1>2 DEF SumsOf
<1>4. t # {} /\ g[t \ {Pick(t)}] # h[t \ {Pick(t)}]
  BY <1>2, <1>3
<1>5. Pick(t) \in t /\ t \ {Pick(t)} \in Bundle
  BY <1>2, <1>4, BundleParts
<1>6. t \ {Pick(t)} \in T
  BY <1>2, <1>4, <1>5 DEF T
<1>. QED
  BY <1>1, <1>5, <1>6

\* There is a table of sums for every bundle.
LEMMA SumsExist ==
    ASSUME NEW E \in Bundle PROVE SumsOf(Sums(E), E)
<1> DEFINE T == {D \in Bundle : ~SumsOf(Sums(D), D)}
<1>. SUFFICES ASSUME T # {} PROVE FALSE
  OBVIOUS
<1>1. PICK D \in T : \A u \in T : u \subseteq D => u = D
  <2>1. T \in SUBSET Bundle
    OBVIOUS
  <2>. HIDE DEF T
  <2>. QED
    BY <2>1, SmallestBundle
<1>2. D \in Bundle /\ ~SumsOf(Sums(D), D)
  BY <1>1
<1>3. \A u \in Bundle : u \subseteq D /\ u # D => SumsOf(Sums(u), u)
  BY <1>1
<1>. HIDE DEF T
<1> DEFINE h == [s \in SUBSET D |->
                   IF s = {} THEN 0
                   ELSE Sats[Pick(s)] + Sums(s \ {Pick(s)})[s \ {Pick(s)}]]
<1>4. ASSUME NEW s \in SUBSET D, s # {}
      PROVE  h[s \ {Pick(s)}] = Sums(s \ {Pick(s)})[s \ {Pick(s)}]
  <2> DEFINE t == s \ {Pick(s)}
  <2>1. s \in Bundle /\ Pick(s) \in s
    BY <1>2, <1>4, BundleParts
  <2>2. t \in Bundle /\ t \in SUBSET D /\ t # D
    BY <2>1, BundleParts
  <2>3. SumsOf(Sums(t), t)
    BY <1>3, <2>2
  <2>. HIDE DEF t
  <2>4. Sums(t)[t] = IF t = {} THEN 0
                     ELSE Sats[Pick(t)] + Sums(t)[t \ {Pick(t)}]
    BY <2>3 DEF SumsOf
  <2>5. h[t] = IF t = {} THEN 0
               ELSE Sats[Pick(t)] + Sums(t \ {Pick(t)})[t \ {Pick(t)}]
    BY <2>2
  <2>. HIDE DEF h
  <2>6. CASE t = {}
    BY <2>4, <2>5, <2>6 DEF t
  <2>7. CASE t # {}
    <3> DEFINE u == t \ {Pick(t)}
    <3>1. u \in Bundle /\ u \subseteq t /\ u \subseteq D /\ u # D
      BY <2>2, <2>7, BundleParts
    <3>2. SumsOf(Sums(u), u)
      BY <1>3, <3>1
    <3>3. Sums(t)[u] = Sums(u)[u]
      BY <2>3, <3>1, <3>2, SumsAgree
    <3>. QED
      BY <2>4, <2>5, <2>7, <3>3 DEF t
  <2>. QED
    BY <2>6, <2>7
<1>5. SumsOf(h, D)
  <2>1. h = [s \in SUBSET D |-> IF s = {} THEN 0
                                ELSE Sats[Pick(s)] + h[s \ {Pick(s)}]]
    BY <1>4
  <2>. HIDE DEF h
  <2>. QED
    BY <2>1 DEF SumsOf
<1>. HIDE DEF h
<1>6. SumsOf(Sums(D), D)
  BY <1>5 DEF Sums
<1>. QED
  BY <1>2, <1>6

\* Total is the last entry of the table.
LEMMA TotalIsSum == ASSUME NEW es PROVE Total(es) = Sums(es)[es]
BY Zenon DEF Total, MapThenSumSet, MapThenFoldSet, Sums, SumsOf, Pick

-----------------------------------------------------------------------------
\* The recursion that the fold stands for.
LEMMA TotalStep ==
    ASSUME NEW s \in Bundle
    PROVE  Total(s) = IF s = {} THEN 0
                      ELSE Sats[Pick(s)] + Total(s \ {Pick(s)})
<1>1. SumsOf(Sums(s), s)
  BY SumsExist
<1>2. Sums(s)[s] = IF s = {} THEN 0
                   ELSE Sats[Pick(s)] + Sums(s)[s \ {Pick(s)}]
  BY <1>1 DEF SumsOf
<1>3. CASE s = {}
  BY <1>2, <1>3, TotalIsSum
<1>4. CASE s # {}
  <2> DEFINE t == s \ {Pick(s)}
  <2>1. t \in Bundle /\ t \subseteq s
    BY <1>4, BundleParts
  <2>2. SumsOf(Sums(t), t)
    BY <2>1, SumsExist
  <2>3. Sums(s)[t] = Sums(t)[t]
    BY <1>1, <2>1, <2>2, SumsAgree
  <2>. QED
    BY <1>2, <1>4, <2>3, TotalIsSum
<1>. QED
  BY <1>3, <1>4

\* Nothing has been received from no payment.
LEMMA TotalOfNone == Total({}) = 0
<1>1. {} \in Bundle
  BY FS_EmptySet DEF Bundle, FiniteSubsetsOf
<1>. QED
  BY <1>1, TotalStep

\* The sum of a bundle is a number of satoshis.
LEMMA TotalType == ASSUME NEW s \in Bundle PROVE Total(s) \in Nat
<1> DEFINE T == {t \in Bundle : Total(t) \notin Nat}
<1>. SUFFICES ASSUME T # {} PROVE FALSE
  OBVIOUS
<1>1. PICK t \in T : \A u \in T : u \subseteq t => u = t
  <2>1. T \in SUBSET Bundle
    OBVIOUS
  <2>. HIDE DEF T
  <2>. QED
    BY <2>1, SmallestBundle
<1>2. t \in Bundle /\ Total(t) \notin Nat
  BY <1>1
<1>3. t # {}
  BY <1>2, TotalOfNone
<1>4. /\ Pick(t) \in t /\ Pick(t) \in Payments /\ t \ {Pick(t)} \in Bundle
  BY <1>2, <1>3, BundleParts
<1>5. Total(t \ {Pick(t)}) \in Nat
  BY <1>1, <1>4
<1>. QED
  BY <1>2, <1>3, <1>4, <1>5, TotalStep, PaymentsAssumption

\* Whichever payment is taken out, it leaves the rest: the order in which
\* they are summed up does not matter.
LEMMA TotalSplits ==
    ASSUME NEW s \in Bundle, NEW p \in s
    PROVE  Total(s) = Sats[p] + Total(s \ {p})
<1> DEFINE T == {t \in Bundle : \E q \in t : Total(t) # Sats[q] + Total(t \ {q})}
<1>. SUFFICES ASSUME T # {} PROVE FALSE
  OBVIOUS
<1>1. PICK t \in T : \A u \in T : u \subseteq t => u = t
  <2>1. T \in SUBSET Bundle
    OBVIOUS
  <2>. HIDE DEF T
  <2>. QED
    BY <2>1, SmallestBundle
<1>2. PICK q \in t : Total(t) # Sats[q] + Total(t \ {q})
  BY <1>1
<1>3. t \in Bundle
  BY <1>1
<1> DEFINE x == Pick(t)
<1>4. /\ x \in t /\ x \in Payments /\ q \in Payments
      /\ t \ {x} \in Bundle /\ t \ {q} \in Bundle
      /\ (t \ {x}) \ {q} \in Bundle
  BY <1>2, <1>3, BundleParts
<1>5. Total(t) = Sats[x] + Total(t \ {x})
  BY <1>2, <1>3, TotalStep
<1>. HIDE DEF x
<1>6. x # q
  BY <1>2, <1>5
<1>7. Total(t \ {x}) = Sats[q] + Total((t \ {x}) \ {q})
  <2>1. t \ {x} \notin T
    BY <1>1, <1>4
  <2>. QED
    BY <1>4, <1>6, <2>1
<1>8. Total(t \ {q}) = Sats[x] + Total((t \ {q}) \ {x})
  <2>1. t \ {q} \notin T
    BY <1>1, <1>2
  <2>. QED
    BY <1>4, <1>6, <2>1
<1>9. (t \ {x}) \ {q} = (t \ {q}) \ {x}
  OBVIOUS
<1>10. /\ Sats[x] \in Nat /\ Sats[q] \in Nat
       /\ Total((t \ {x}) \ {q}) \in Nat
  BY <1>4, TotalType, PaymentsAssumption
<1>11. Total(t \ {q}) = Sats[x] + Total((t \ {x}) \ {q})
  BY <1>8, <1>9
<1>12. Total(t) = Sats[q] + Total(t \ {q})
  <2> DEFINE rest == Total((t \ {x}) \ {q})
  <2>1. Total(t) = Sats[x] + (Sats[q] + rest)
    BY <1>5, <1>7
  <2>2. Total(t \ {q}) = Sats[x] + rest /\ rest \in Nat
    BY <1>10, <1>11
  <2>. HIDE DEF rest
  <2>. QED
    BY <1>10, <2>1, <2>2
<1>. QED
  BY <1>2, <1>12

\* A payment that is added adds what it pays.
LEMMA TotalAdds ==
    ASSUME NEW s \in Bundle, NEW p \in Payments, p \notin s
    PROVE  Total(s \cup {p}) = Total(s) + Sats[p]
<1>1. s \cup {p} \in Bundle
  BY BundleParts
<1>2. (s \cup {p}) \ {p} = s
  OBVIOUS
<1>3. Total(s \cup {p}) = Sats[p] + Total(s)
  BY <1>1, <1>2, TotalSplits
<1>. QED
  BY <1>3, TotalType, PaymentsAssumption

\* What is taken out and what is left make up the whole.
LEMMA TotalWithout ==
    ASSUME NEW s \in Bundle, NEW t \in SUBSET s
    PROVE  Total(s) = Total(s \ t) + Total(t)
<1> DEFINE T == {u \in Bundle : u \subseteq t
                                  /\ Total(s) # Total(s \ u) + Total(u)}
<1>. SUFFICES ASSUME T # {} PROVE FALSE
  BY BundleParts
<1>1. PICK u \in T : \A v \in T : v \subseteq u => v = u
  <2>1. T \in SUBSET Bundle
    OBVIOUS
  <2>. HIDE DEF T
  <2>. QED
    BY <2>1, SmallestBundle
<1>2. u \in Bundle /\ u \subseteq t /\ Total(s) # Total(s \ u) + Total(u)
  BY <1>1
<1>3. u # {}
  <2>1. Total(s) = Total(s) + Total({})
    BY TotalOfNone, TotalType
  <2>2. s \ {} = s
    OBVIOUS
  <2>. HIDE DEF T
  <2>. QED
    BY <1>2, <2>1, <2>2
<1>4. PICK p \in u : TRUE
  BY <1>3
<1> DEFINE v == u \ {p}
<1>5. /\ v \in Bundle /\ v \subseteq t /\ v # u /\ p \in s \ v
      /\ s \ v \in Bundle /\ s \ u \in Bundle /\ p \in Payments
  BY <1>2, <1>4, BundleParts
<1>6. Total(s) = Total(s \ v) + Total(v)
  <2>1. v \notin T
    BY <1>1, <1>5
  <2>. QED
    BY <1>5, <2>1
<1>7. Total(u) = Sats[p] + Total(v)
  BY <1>2, <1>4, TotalSplits
<1>8. (s \ v) \ {p} = s \ u
  BY <1>4
<1>. HIDE DEF v
<1>9. Total(s \ v) = Sats[p] + Total(s \ u)
  BY <1>5, <1>8, TotalSplits
<1>10. Total(v) \in Nat /\ Total(s \ u) \in Nat /\ Sats[p] \in Nat
  BY <1>5, TotalType, PaymentsAssumption
<1>. HIDE DEF T
<1>. QED
  BY <1>2, <1>6, <1>7, <1>9, <1>10
=============================================================================
