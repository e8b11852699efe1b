------------------------------ MODULE MCCredit ------------------------------
(***************************************************************************)
(* Small instances of Credit for TLC.                                      *)
(***************************************************************************)
EXTENDS Credit

\* A request may name an amount that is not positive.
RequestedAmounts == {-1, 1, 3}
=============================================================================
