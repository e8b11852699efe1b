------------------------------ MODULE Amounts ------------------------------
(***************************************************************************)
(* Sums of money.  An amount is a natural number of indivisible units, so  *)
(* the SUM(value) of a SQL query over a set of rows is the number of units *)
(* those rows hold: unit <<r, i>> is the i-th unit of row r.  Defined by   *)
(* counting and not by recursion, a sum can be reasoned about with the     *)
(* theorems on finite sets (see AmountsProofs).                            *)
(***************************************************************************)
EXTENDS Integers, FiniteSets

\* The units held by the rows of S, where value[r] is what row r is worth.
Units(S, value) == UNION {{r} \X (1..value[r]) : r \in S}

\* SELECT COALESCE(SUM(value), 0) over the rows of S: zero when S is empty.
Total(S, value) == Cardinality(Units(S, value))
=============================================================================
