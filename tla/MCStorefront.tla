---------------------------- MODULE MCStorefront ----------------------------
(***************************************************************************)
(* Instances of Storefront for TLC.                                        *)
(***************************************************************************)
EXTENDS StorefrontProperties, TLC

CONSTANTS t1, t2, c1, c2, i1, i2, r1, n1, g1, p1, p2

TwoTerminals == {t1, t2}
TwoClaims == {c1, c2}
TwoCheckouts == {i1, i2}
OneSave == {r1}

\* The register has two descriptors to race for.
Wallets == [s \in Surfaces |-> IF s = "nym" THEN {n1}
                               ELSE IF s = "page" THEN {g1} ELSE {p1, p2}]

\* An invoice of the wallet has the first address of the page.
FirstIsTaken == {<<g1, 0>>}

Interchangeable ==
    Permutations(TwoTerminals) \cup Permutations(TwoClaims)
        \cup Permutations(TwoCheckouts) \cup Permutations({p1, p2})
=============================================================================
