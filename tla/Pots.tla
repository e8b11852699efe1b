-------------------------------- MODULE Pots --------------------------------
(***************************************************************************)
(* The two kinds of caldron, that of money and that of gifts with its      *)
(* draw, and the shopping runs, which choose by the same rule as the draw. *)
(* They share nothing, and a step is a step of one of them.                *)
(***************************************************************************)
EXTENDS Caldron, Pick

CONSTANTS
  Products,                                         \* of both choices
  People, Host, Groups, Bringers, Prices, Fee, Seeds, Calls, \* the draw
  Runs, Price, Budgets, Streams, MaxItems, MaxFunds \* shopping

VARIABLES
  pot, gifts, prices, drawn, offered, gifted, call,
  run, purchases, bought, charged, funds

G == INSTANCE Draw WITH
  Users <- People, Creator <- Host, draw <- drawn, orders <- gifted

S == INSTANCE Shopaholic WITH orders <- bought

-----------------------------------------------------------------------------
(* What is known of the constants.                                         *)

\* Products and members have keys, and keys are ordered.
ASSUME KeysAssumption ==
  /\ Products \subseteq Int /\ IsFiniteSet(Products)
  /\ People \subseteq Int /\ 2^Width \in Nat \ {0}

\* Somebody has paid into a caldron that is drawn.
ASSUME GroupsAssumption ==
  \A members \in Groups : members \subseteq People /\ members # {} /\ IsFiniteSet(members)

\* The contribution of a member, and the prices of the marketplace, are
\* amounts; Validate refuses a budget that is not positive.
ASSUME PricesAssumption ==
  /\ Fee \in Nat /\ Prices \subseteq Nat
  /\ Price \in [Products -> Int] /\ Budgets \subseteq Nat \ {0}
  /\ MaxItems \in Nat /\ MaxFunds \in Nat

\* Streams do not end.
ASSUME StreamsAssumption ==
  /\ \A seed \in Seeds, members \in Groups :
       /\ Lasts(seed.winner, Cardinality(members))
       /\ Lasts(seed.gifts, Cardinality(Products))
  /\ \A stream \in Streams : Lasts(stream, MaxItems)

-----------------------------------------------------------------------------

drawVars     == <<pot, gifts, prices, drawn, offered, gifted, call>>
shoppingVars == <<run, purchases, bought, charged, funds>>

pots == <<vars, drawVars, shoppingVars>>

PotsInit == Init /\ G!Init /\ S!Init

\* A step of each, which leaves the others alone.
CaldronStep  == Next /\ UNCHANGED <<drawVars, shoppingVars>>
DrawStep     == G!Next /\ UNCHANGED <<vars, shoppingVars>>
ShoppingStep == S!Next /\ UNCHANGED <<vars, drawVars>>

PotsNext == CaldronStep \/ DrawStep \/ ShoppingStep

PotsSpec == PotsInit /\ [][PotsNext]_pots

-----------------------------------------------------------------------------

\* A recorded draw is what the seed makes of what one call has read.
DrawFollowsSeed == G!DrawFollowsSeed

\* No member is more likely than another to be drawn.
EveryMemberAlike == G!EveryMemberAlike

\* A run keeps to its budget and orders what it has paid for.
BudgetKept == S!BudgetKept

=============================================================================
