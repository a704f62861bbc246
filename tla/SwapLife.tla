------------------------------ MODULE SwapLife ------------------------------
(***************************************************************************)
(* What a purge, and the allocation of addresses, may take for granted     *)
(* about one swap of a Lightning Address: the phase its row is in, as far  *)
(* as purge_user tells statuses apart, and the address its claim pays.     *)
(* AddressBook keeps one such row per swap and lets it move freely within  *)
(* these steps; ReverseSwap has the tasks that really move it.  That both  *)
(* implement this module is what allows the first to stand for the second. *)
(***************************************************************************)
CONSTANT None   \* no address yet

VARIABLES phase, address

vars == <<phase, address>>

Init == phase \in {"absent", "pending"} /\ address = None

\* record_swap, and the deletion by a purge.
Record == phase = "absent" /\ phase' = "pending" /\ address' = None
Delete == phase = "done" /\ phase' = "absent" /\ address' = None

\* The lockup is seen; or it never comes.
See    == phase = "pending" /\ phase' = "claimable" /\ UNCHANGED address
Expire == phase = "pending" /\ phase' = "done" /\ UNCHANGED address

\* The destination is chosen once, and not before the lockup is seen; a row
\* that was given up under an attempt may still get one, a closed one not.
Choose == /\ phase \in {"claimable", "dead"}
          /\ address = None /\ address' # None
          /\ UNCHANGED phase

\* The claim has gone to the chosen address.
Claim  == /\ phase = "claimable" /\ address # None
          /\ phase' = "done" /\ UNCHANGED address

\* claim_stuck or lockup_refunded: no task looks at the row again.
GiveUp == /\ phase \in {"pending", "claimable"}
          /\ phase' = "dead" /\ UNCHANGED address

Next == Record \/ Delete \/ See \/ Expire \/ Choose \/ Claim \/ GiveUp

Spec == Init /\ [][Next]_vars
=============================================================================
