------------------------------- MODULE MCPots -------------------------------
(***************************************************************************)
(* Small instances of the caldrons and the shopping runs.  A behaviour is  *)
(* of one of them, chosen at the start; the others rest.                   *)
(***************************************************************************)
EXTENDS Pots, TLC

VARIABLE kind

mcvars == <<kind, pots>>

\* A seed whose first values for the winner are rejected or not, and the
\* streams that make shuffles of two products differ.
OneSeed    == {[winner |-> <<3, 0>>, gifts |-> <<1, 3>>]}
TwoStreams == {<<0, 3>>, <<1, 2>>}

TwoPrices == <<1, 2>>

MCInit ==
  /\ kind \in {"money", "gifts", "shopping"}
  /\ PotsInit
  /\ kind # "gifts" => prices = <<1, 1>>
  /\ kind # "shopping" => funds = 0

MCNext ==
  /\ UNCHANGED kind
  /\ \/ kind = "money" /\ CaldronStep
     \/ kind = "gifts" /\ DrawStep
     \/ kind = "shopping" /\ ShoppingStep

MCSpec == MCInit /\ [][MCNext]_mcvars

\* Workers are interchangeable, and so are the users who are not the creator.
Symmetry == Permutations(Workers) \cup Permutations(Users \ {Creator})

=============================================================================
