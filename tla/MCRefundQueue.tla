--------------------------- MODULE MCRefundQueue ---------------------------
(***************************************************************************)
(* Three cancelled caldrons for TLC, two of them owing to one user, who    *)
(* may fill a round of two.                                                *)
(***************************************************************************)
EXTENDS RefundQueue

CONSTANTS u1, u2

WhoPaid == <<{u1}, {u1}, {u2}>>

FairSpec == Spec /\ Fairness
=============================================================================
