---------------------------- MODULE SwapPromise ----------------------------
(***************************************************************************)
(* What a swap promises, reverse or chain, whatever the tasks that serve   *)
(* it do: the row's verdict and the invoice follow the money and never     *)
(* precede it.                                                             *)
(*                                                                         *)
(*   coin     Boltz's lockup: not funded, locked, spent to the merchant's  *)
(*            claim destination, or taken back by Boltz                    *)
(*   verdict  open, or the one final answer the row ever gives             *)
(*   paid     the payment event of the swap's invoice exists               *)
(*                                                                         *)
(* ReverseSwap and ChainSwap implement this specification, each under the  *)
(* substitution given with its properties (Promise).                       *)
(***************************************************************************)

VARIABLES coin, verdict, paid

vars == <<coin, verdict, paid>>

Coin == {"none", "locked", "ours", "refunded"}

Verdict == {"open", "claimed", "dead", "lost", "gave_up"}

Init == coin = "none" /\ verdict = "open" /\ paid = FALSE

\* Boltz funds the lockup, unless the swap was already declared dead.
Lock ==
    /\ coin = "none" /\ verdict # "dead"
    /\ coin' = "locked"
    /\ UNCHANGED <<verdict, paid>>

\* The lockup is spent once, by our claim or by Boltz's refund.
Spend ==
    /\ coin = "locked"
    /\ coin' \in {"ours", "refunded"}
    /\ UNCHANGED <<verdict, paid>>

\* A verdict is final and states a fact: claimed only of a coin that is
\* ours, lost only of one that was refunded, dead only of one that never was.
Decide ==
    /\ verdict = "open"
    /\ \/ verdict' = "claimed" /\ coin = "ours"
       \/ verdict' = "lost" /\ coin = "refunded"
       \/ verdict' = "dead" /\ coin = "none"
       \/ verdict' = "gave_up"
    /\ UNCHANGED <<coin, paid>>

\* The merchant is credited once, for a coin that is theirs.
Pay ==
    /\ ~paid /\ coin = "ours"
    /\ paid' = TRUE
    /\ UNCHANGED <<coin, verdict>>

Next == Lock \/ Spend \/ Decide \/ Pay

Spec == Init /\ [][Next]_vars
=============================================================================
