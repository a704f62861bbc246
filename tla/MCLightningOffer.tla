-------------------------- MODULE MCLightningOffer --------------------------
(***************************************************************************)
(* Instances of LightningOffer for TLC.                                    *)
(***************************************************************************)
EXTENDS LightningOfferProperties, TLC

CONSTANTS r1, r2, x, y

TwoRequests == {r1, r2}
TwoSessions == {x, y}
=============================================================================
