-------------------------------- MODULE Draw --------------------------------
(***************************************************************************)
(* The draw of a gift caldron that everybody has paid into: the lists of   *)
(* gifts, the prices that move on the marketplace meanwhile, the arbiter,  *)
(* and the calls that draw, which may overlap and stop anywhere.  The      *)
(* payout is the settlement of module Caldron; here it ends or it does not.*)
(***************************************************************************)
EXTENDS Pick, Amounts

CONSTANTS
  Users, Creator,     \* numbers; the creator pays in or only presides
  Groups,             \* of members
  Bringers,           \* bound: users who bring lists or are made arbiters
  Products, Prices,   \* on the marketplace, which may return a price of 0
  Fee,                \* the contribution of each member
  Seeds,              \* the streams of values of a seed, for either choice
  Calls

VARIABLES
  pot,      \* the caldron: its members, state, arbiter and seed
  gifts,    \* table gift: the list of each user, with the stored prices
  prices,   \* on the marketplace now
  draw,     \* table draw
  offered,  \* the list and the prices it was made from, which no table keeps
  orders,   \* how many times the drawn gifts were ordered on the marketplace
  call      \* the calls of Draw

vars == <<pot, gifts, prices, draw, offered, orders, call>>

NoDraw == [winner |-> 0]
NoCall == [at |-> "idle"]

Lists == UNION {[ps -> Prices \ {0}] : ps \in SUBSET Products}

Offers == UNION {[ps -> Prices] : ps \in SUBSET Products}

\* Of the list of the winner, only what was chosen is recorded, with its prices.
Draws == [winner : Users, chosen : Seq(Products), prices : Offers, total : Nat, payout : Nat]

Progress == {NoCall} \cup [at : {"begun", "saved", "payout"}]
            \cup [at : {"drawn"}, draw : Draws, offer : Offers]

TypeOK ==
  /\ pot \in [members : Groups, state : {"READY", "SETTLED", "CANCELLED"},
              arbiter : Users \cup {0}, seed : Seeds]
  /\ gifts \in [Users -> Lists] /\ prices \in [Products -> Prices]
  /\ draw = NoDraw \/ draw \in Draws
  /\ offered \in Offers
  /\ orders \in 0..Cardinality(Calls)
  /\ call \in [Calls -> Progress]

Init ==
  /\ pot \in [members : Groups, state : {"READY"},
              arbiter : {0}, seed : Seeds]
  /\ gifts = [u \in Users |-> <<>>]
  /\ prices \in [Products -> Prices]
  /\ draw = NoDraw /\ offered = <<>> /\ orders = 0
  /\ call = [p \in Calls |-> NoCall]

Collected == Fee * Cardinality(pot.members)

-----------------------------------------------------------------------------
(* Lists of gifts and the arbiter.                                         *)

MaySee(u) == u = Creator \/ u \in pot.members

Terminal == pot.state \in {"SETTLED", "CANCELLED"}

PriceOf(list) == Total(DOMAIN list, list)

ValidateGifts(list) ==
  /\ \A g \in DOMAIN list : list[g] > 0
  /\ PriceOf(list) <= Collected

FetchGift(g) == prices[g]

ReplaceGifts(u, list) == gifts' = [gifts EXCEPT ![u] = list]

\* The caldron is read before the prices are asked for, without a lock, and
\* its state is looked at no more: it may have ended before the list changes.
SetGifts(u, ps) ==
  /\ u \in pot.members
  /\ LET list == [g \in ps |-> FetchGift(g)] IN
       /\ ValidateGifts(list)
       /\ ReplaceGifts(u, list)
  /\ UNCHANGED <<pot, prices, draw, offered, orders, call>>

SetArbiter(u) ==
  /\ u \in pot.members
  /\ ~Terminal
  /\ pot' = [pot EXCEPT !.arbiter = u]
  /\ UNCHANGED <<gifts, prices, draw, offered, orders, call>>

\* Prices only rise: a bound.
PriceChanges(g, price) ==
  /\ price > prices[g]
  /\ prices' = [prices EXCEPT ![g] = price]
  /\ UNCHANGED <<pot, gifts, draw, offered, orders, call>>

-----------------------------------------------------------------------------
(* The draw.                                                               *)

CanDraw(u) == u = Creator \/ u = pot.arbiter

\* The members as they are read, in whatever order, and the index among them.
SelectWinner(stream, members) ==
  Canonical(members)[Index(Len(members), stream).at + 1]

SelectGifts(stream, items, price) == Within(stream, items, price, Collected)

\* Each price is the present one, or the stored one if the marketplace fails.
RefreshPrices(list, offer) ==
  /\ DOMAIN offer = DOMAIN list
  /\ \A g \in DOMAIN list : offer[g] \in {list[g], prices[g]}

Becomes(p, c) == call' = [call EXCEPT ![p] = c]

\* An earlier draw is only paid out; there is none of a caldron not ready.
Begin(p, u) ==
  /\ call[p] = NoCall
  /\ MaySee(u) /\ CanDraw(u)
  /\ IF draw # NoDraw THEN Becomes(p, [at |-> "payout"])
     ELSE pot.state = "READY" /\ Becomes(p, [at |-> "begun"])
  /\ UNCHANGED <<pot, gifts, prices, draw, offered, orders>>

\* The winner, the list of the winner and its prices now.
Choose(p) ==
  /\ call[p].at = "begun"
  /\ \E members \in SetToSeqs(pot.members) :
       LET winner == SelectWinner(pot.seed.winner, members) IN
       \E offer \in Offers, items \in SetToSeqs(DOMAIN gifts[winner]) :
         /\ RefreshPrices(gifts[winner], offer)
         /\ LET set == SelectGifts(pot.seed.gifts, items, offer) IN
            Becomes(p, [at |-> "drawn", offer |-> offer, draw |->
              [winner |-> winner, chosen |-> set.chosen,
               prices |-> [g \in ToSet(set.chosen) |-> offer[g]],
               total |-> set.total, payout |-> Collected - set.total]])
  /\ UNCHANGED <<pot, gifts, prices, draw, offered, orders>>

\* The first draw is kept: a second is answered with it.
SaveDraw(p) ==
  IF draw = NoDraw THEN draw' = call[p].draw /\ offered' = call[p].offer
  ELSE UNCHANGED <<draw, offered>>

Save(p) ==
  /\ call[p].at = "drawn"
  /\ SaveDraw(p)
  /\ Becomes(p, [at |-> "saved"])
  /\ UNCHANGED <<pot, gifts, prices, orders>>

\* A call that has drawn orders the recorded gifts, though it may have been
\* another call that recorded them; the marketplace may not support it.
Order(p) ==
  /\ call[p].at = "saved"
  /\ orders' \in {orders, orders + 1}
  /\ Becomes(p, [at |-> "payout"])
  /\ UNCHANGED <<pot, gifts, prices, draw, offered>>

\* The whole pot goes to the winner, once: another state is an error.
Payout(p) ==
  /\ call[p].at = "payout"
  /\ pot' = IF pot.state = "READY" THEN [pot EXCEPT !.state = "SETTLED"] ELSE pot
  /\ Becomes(p, NoCall)
  /\ UNCHANGED <<gifts, prices, draw, offered, orders>>

\* The service stops, or a call to another one fails.
Stop(p) ==
  /\ call[p] # NoCall
  /\ Becomes(p, NoCall)
  /\ UNCHANGED <<pot, gifts, prices, draw, offered, orders>>

Cancel ==
  /\ pot.state = "READY"
  /\ pot' = [pot EXCEPT !.state = "CANCELLED"]
  /\ UNCHANGED <<gifts, prices, draw, offered, orders, call>>

Next ==
  \/ \E u \in Bringers : SetArbiter(u) \/ \E ps \in SUBSET Products : SetGifts(u, ps)
  \/ \E g \in Products, price \in Prices : PriceChanges(g, price)
  \/ \E p \in Calls :
       \/ \E u \in Users \cup {Creator} : Begin(p, u)
       \/ Choose(p) \/ Save(p) \/ Order(p) \/ Payout(p) \/ Stop(p)
  \/ Cancel

Spec == Init /\ [][Next]_vars

-----------------------------------------------------------------------------

\* Every member wins as often as any other: the values that are not thrown
\* away fall to the members in equal parts.
EveryMemberAlike ==
  LET members == SetToSeq(pot.members)
      n       == Len(members)
      Heard   == {v \in Values : Accepted(n, v)}
      Winner  == [v \in Heard |-> SelectWinner(<<v>>, members)]
  IN \A u \in pot.members :
       n > 1 => n * Cardinality({v \in Heard : Winner[v] = u}) = Cardinality(Heard)

\* The recorded draw is what the seed makes of one reading, whichever call
\* recorded it and whatever has changed since: anybody who is given the seed
\* finds the winner, in whatever order the members are read; and the same
\* gifts come of the list that was read and its prices at that moment.  They
\* cost what is recorded, no more than was collected, and none that was left
\* out would still fit.  The prices of those left out are recorded nowhere
\* (SaveDraw), so that nobody else can repeat the choice of the gifts.
DrawFollowsSeed ==
  draw # NoDraw =>
    /\ \A members \in SetToSeqs(pot.members) :
         SelectWinner(pot.seed.winner, members) = draw.winner
    /\ \A items \in SetToSeqs(DOMAIN offered) :
         SelectGifts(pot.seed.gifts, items, offered).chosen = draw.chosen
    /\ draw.prices = [g \in ToSet(draw.chosen) |-> offered[g]]
    /\ draw.total = PriceOf(draw.prices) /\ draw.total <= Collected
    /\ draw.payout = Collected - draw.total
    /\ \A g \in DOMAIN offered \ ToSet(draw.chosen) :
         offered[g] = 0 \/ draw.total + offered[g] > Collected

=============================================================================
