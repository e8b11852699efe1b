------------------------------ MODULE Wishlist ------------------------------
(***************************************************************************)
(* The wishlist service: one item of somebody's list, from the moment it   *)
(* is shown to givers until it has been given or declined.                 *)
(*                                                                         *)
(* Every change of the item is one database transaction that locks the row *)
(* and checks the move against the table of transitions (db.Transition).   *)
(* What surrounds it is not under that lock: a call reads the item before, *)
(* pays or orders before, and publishes an event after.  A worker is a     *)
(* call between these steps; the other calls move meanwhile, and it may    *)
(* end at any of them for good (an error, a timeout, a crash).             *)
(*                                                                         *)
(* The wallet is seen through its Transfer (module Wallet): it looks the   *)
(* key up, and commits later.  The notify service is seen through the keys *)
(* by which it tells one event from another.                               *)
(***************************************************************************)
EXTENDS Integers, FiniteSets

CONSTANTS
  Users,      \* the owner of the list and those who may give
  Owner,
  NoOne,      \* NULL in giver_id
  ChargesFee, \* whether a fee is due and there is a wallet for it
  Workers,    \* calls served at the same time
  MaxCycles,  \* bound: how often the item is reserved
  MaxOrders   \* bound: how many orders the marketplace takes

ASSUME UsersAssumption == Owner \in Users /\ NoOne \notin Users
ASSUME BoundsAssumption ==
  ChargesFee \in BOOLEAN /\ MaxCycles \in Nat /\ MaxOrders \in Nat

VARIABLES
  item,    \* the row: kind, state, giver_id, order_id (0 for NULL)
  lapsed,  \* whether reserved_until is past
  by,      \* history: who moved the item last
  cycle,   \* how often the item has been reserved: updated_at of the last time
  gift,    \* transfers of the gift the wallet committed, by who paid
  fee,     \* transfers of the fee, likewise
  orders,  \* orders the marketplace took
  events,  \* events the notify service took
  job      \* what each worker is doing

vars == <<item, lapsed, by, cycle, gift, fee, orders, events, job>>

Kinds  == {"MONEY", "PRODUCT"}
States == {"VISIBLE", "HIDDEN", "CHOSEN", "CONFIRMED", "ACCEPTED", "REJECTED"}
Givers == Users \ {Owner}

\* A deduplication key: the reservation's time tells two reservations apart,
\* nothing tells two confirmations apart.
Event == [to : Users, type : {"reserved"}, of : 1..MaxCycles]
           \cup [to : Users, type : {"confirmed", "rejected", "gifted"}, of : {0}]

NoEvent == [to |-> NoOne, type |-> "none", of |-> 0]

Job == [at    : {"idle", "reserve", "gift key", "gift", "fee key", "fee",
                 "order", "accept", "publish"},
        giver : Users \cup {NoOne},
        order : 0..MaxOrders,
        event : Event \cup {NoEvent}]

Idle == [at |-> "idle", giver |-> NoOne, order |-> 0, event |-> NoEvent]

\* With the CHECK constraints of the table: a giver is there exactly while
\* somebody has chosen the item, and he is not its owner.
TypeOK ==
  /\ item \in [kind : Kinds, state : States \cup {"DELETED"},
               giver : Givers \cup {NoOne}, order : 0..MaxOrders]
  /\ item.giver = NoOne <=> item.state \in {"VISIBLE", "HIDDEN", "DELETED"}
  /\ lapsed \in BOOLEAN
  /\ lapsed => item.state = "CHOSEN"
  /\ by \in {"OWNER", "GIVER", "SYSTEM"}
  /\ cycle \in 0..MaxCycles
  /\ gift \in [Users -> Nat]
  /\ fee \in [Users -> Nat]
  /\ orders \in 0..MaxOrders
  /\ events \subseteq Event
  /\ job \in [Workers -> Job]

Init ==
  /\ item \in [kind : Kinds, state : {"VISIBLE"}, giver : {NoOne}, order : {0}]
  /\ lapsed = FALSE
  /\ by = "OWNER"
  /\ cycle = 0
  /\ gift = [u \in Users |-> 0]
  /\ fee = [u \in Users |-> 0]
  /\ orders = 0
  /\ events = {}
  /\ job = [w \in Workers |-> Idle]

-----------------------------------------------------------------------------
(* A move of the item, under the lock of its row.                          *)

\* The table of transitions: who may take the item from one state to another.
Actors(from, to) ==
  CASE <<from, to>> \in {<<"VISIBLE", "HIDDEN">>, <<"HIDDEN", "VISIBLE">>,
                         <<"CHOSEN", "CONFIRMED">>, <<"CHOSEN", "REJECTED">>} -> {"OWNER"}
    [] <<from, to>> \in {<<"VISIBLE", "CHOSEN">>, <<"CONFIRMED", "ACCEPTED">>,
                         <<"CONFIRMED", "VISIBLE">>} -> {"GIVER"}
    [] <<from, to>> = <<"CHOSEN", "VISIBLE">> -> {"GIVER", "SYSTEM"}
    [] OTHER -> {}

\* Mutant of MayMove: the table alone, not whose reservation it is.
InTable(actor, giver, to) == actor \in Actors(item.state, to)

\* A giver moves what nobody has reserved, or what he has.
MayMove(actor, giver, to) ==
  /\ actor \in Actors(item.state, to)
  /\ actor = "GIVER" /\ item.giver # NoOne => item.giver = giver

\* The row written: back in the list it is nobody's; otherwise it keeps its
\* giver and its order unless the move brings new ones.
Moved(giver, to, order) ==
  [item EXCEPT
     !.state = to,
     !.giver = IF to \in {"VISIBLE", "HIDDEN"} THEN NoOne
               ELSE IF giver # NoOne THEN giver ELSE item.giver,
     !.order = IF order = 0 THEN @ ELSE order]

Transition(actor, giver, to, order) ==
  /\ MayMove(actor, giver, to)
  /\ item' = Moved(giver, to, order)
  /\ lapsed' = FALSE
  /\ by' = actor

Starts(w, at, giver) == job' = [job EXCEPT ![w] = [Idle EXCEPT !.at = at, !.giver = giver]]
Goes(w, at)          == job' = [job EXCEPT ![w].at = at]
Ends(w)              == job' = [job EXCEPT ![w] = Idle]

\* The call ends by publishing an event.
Tells(w, user, type, of) ==
  job' = [job EXCEPT ![w] = [Idle EXCEPT !.at = "publish",
                                         !.event = [to |-> user, type |-> type, of |-> of]]]

-----------------------------------------------------------------------------
(* The owner's calls.                                                      *)

\* Show and Hide.
Show(to) ==
  /\ to \in {"VISIBLE", "HIDDEN"}
  /\ Transition("OWNER", NoOne, to, 0)
  /\ UNCHANGED <<cycle, gift, fee, orders, events, job>>

\* Confirm and Reject: the giver of the row that was written is told.
Decide(w, to) ==
  /\ job[w].at = "idle"
  /\ to \in {"CONFIRMED", "REJECTED"}
  /\ Transition("OWNER", NoOne, to, 0)
  /\ Tells(w, item.giver, IF to = "CONFIRMED" THEN "confirmed" ELSE "rejected", 0)
  /\ UNCHANGED <<cycle, gift, fee, orders, events>>

\* Only what nobody has chosen can be deleted.
Delete ==
  /\ item.state \in {"VISIBLE", "HIDDEN"}
  /\ item' = [item EXCEPT !.state = "DELETED"]
  /\ by' = "OWNER"
  /\ UNCHANGED <<lapsed, cycle, gift, fee, orders, events, job>>

-----------------------------------------------------------------------------
(* Reserve, and the end of a reservation.                                  *)

\* The item is read: it must be somebody else's, and visible.
Reserve(w, g) ==
  /\ job[w].at = "idle"
  /\ g # Owner
  /\ item.state = "VISIBLE"
  /\ Starts(w, "reserve", g)
  /\ UNCHANGED <<item, lapsed, by, cycle, gift, fee, orders, events>>

Choose(w) ==
  /\ job[w].at = "reserve"
  /\ cycle < MaxCycles
  /\ Transition("GIVER", job[w].giver, "CHOSEN", 0)
  /\ cycle' = cycle + 1
  /\ Tells(w, Owner, "reserved", cycle + 1)
  /\ UNCHANGED <<gift, fee, orders, events>>

Cancel(g) ==
  /\ Transition("GIVER", g, "VISIBLE", 0)
  /\ UNCHANGED <<cycle, gift, fee, orders, events, job>>

\* reserved_until passes.
Lapse ==
  /\ item.state = "CHOSEN"
  /\ ~lapsed
  /\ lapsed' = TRUE
  /\ UNCHANGED <<item, by, cycle, gift, fee, orders, events, job>>

\* Mutants of ReleaseExpired: the term is cleared, the state forgotten;
\* what was confirmed is released too.
ReleaseTerm ==
  /\ item.state = "CHOSEN"
  /\ lapsed
  /\ lapsed' = FALSE
  /\ UNCHANGED <<item, by, cycle, gift, fee, orders, events, job>>
ReleaseTaken ==
  /\ item.state \in {"CHOSEN", "CONFIRMED"}
  /\ item' = Moved(NoOne, "VISIBLE", 0)
  /\ lapsed' = FALSE
  /\ by' = "SYSTEM"
  /\ UNCHANGED <<cycle, gift, fee, orders, events, job>>

\* The background task: one UPDATE, whoever the giver is.
ReleaseExpired ==
  /\ item.state = "CHOSEN"
  /\ lapsed
  /\ item' = Moved(NoOne, "VISIBLE", 0)
  /\ lapsed' = FALSE
  /\ by' = "SYSTEM"
  /\ UNCHANGED <<cycle, gift, fee, orders, events, job>>

-----------------------------------------------------------------------------
(* Accept: the giver pays or orders, then the item moves.                  *)

\* Mutant of Accept: the item moves first.
AcceptFirst(w, g) ==
  /\ job[w].at = "idle"
  /\ item.giver = g
  /\ item.state = "CONFIRMED"
  /\ Starts(w, "accept", g)
  /\ UNCHANGED <<item, lapsed, by, cycle, gift, fee, orders, events>>

\* The item is read, not locked.
Accept(w, g) ==
  /\ job[w].at = "idle"
  /\ item.giver = g
  /\ item.state = "CONFIRMED"
  /\ Starts(w, IF item.kind = "MONEY" THEN "gift key" ELSE "order", g)
  /\ UNCHANGED <<item, lapsed, by, cycle, gift, fee, orders, events>>

\* The wallet's lookup: the key names the item and not who pays.  A used key
\* is answered as a success.
FindGiftKey(w) ==
  /\ job[w].at = "gift key"
  /\ Goes(w, IF \E u \in Users : gift[u] > 0 THEN "fee key" ELSE "gift")
  /\ UNCHANGED <<item, lapsed, by, cycle, gift, fee, orders, events>>

TransferGift(w) ==
  /\ job[w].at = "gift"
  /\ gift' = [gift EXCEPT ![job[w].giver] = @ + 1]
  /\ Goes(w, "fee key")
  /\ UNCHANGED <<item, lapsed, by, cycle, fee, orders, events>>

FindFeeKey(w) ==
  /\ job[w].at = "fee key"
  /\ Goes(w, IF ChargesFee /\ \A u \in Users : fee[u] = 0 THEN "fee" ELSE "accept")
  /\ UNCHANGED <<item, lapsed, by, cycle, gift, fee, orders, events>>

TransferFee(w) ==
  /\ job[w].at = "fee"
  /\ fee' = [fee EXCEPT ![job[w].giver] = @ + 1]
  /\ Goes(w, "accept")
  /\ UNCHANGED <<item, lapsed, by, cycle, gift, orders, events>>

\* The fee fails, or its lookup does: the gift is given all the same.
SkipFee(w) ==
  /\ job[w].at \in {"fee key", "fee"}
  /\ Goes(w, "accept")
  /\ UNCHANGED <<item, lapsed, by, cycle, gift, fee, orders, events>>

\* The marketplace takes the order; it knows no key to tell a repeat by.
PlaceOrder(w) ==
  /\ job[w].at = "order"
  /\ orders < MaxOrders
  /\ orders' = orders + 1
  /\ job' = [job EXCEPT ![w].at = "accept", ![w].order = orders + 1]
  /\ UNCHANGED <<item, lapsed, by, cycle, gift, fee, events>>

\* The marketplace is not configured or takes no orders: the giver will order.
LeaveOrder(w) ==
  /\ job[w].at = "order"
  /\ Goes(w, "accept")
  /\ UNCHANGED <<item, lapsed, by, cycle, gift, fee, orders, events>>

\* Mutant of Give: the event is published though the item did not move.
GiveAnyway(w) ==
  /\ job[w].at = "accept"
  /\ \/ Transition("GIVER", job[w].giver, "ACCEPTED", job[w].order)
     \/ /\ ~MayMove("GIVER", job[w].giver, "ACCEPTED")
        /\ UNCHANGED <<item, lapsed, by>>
  /\ Tells(w, Owner, "gifted", 0)
  /\ UNCHANGED <<cycle, gift, fee, orders, events>>

Give(w) ==
  /\ job[w].at = "accept"
  /\ Transition("GIVER", job[w].giver, "ACCEPTED", job[w].order)
  /\ Tells(w, Owner, "gifted", 0)
  /\ UNCHANGED <<cycle, gift, fee, orders, events>>

-----------------------------------------------------------------------------

\* The notify service takes the event, unless it knows its key already.
Publish(w) ==
  /\ job[w].at = "publish"
  /\ events' = events \cup {job[w].event}
  /\ Ends(w)
  /\ UNCHANGED <<item, lapsed, by, cycle, gift, fee, orders>>

\* The call ends early: a check fails, the wallet, the marketplace or the
\* notify service does not answer, the process stops.
Abort(w) ==
  /\ job[w].at # "idle"
  /\ Ends(w)
  /\ UNCHANGED <<item, lapsed, by, cycle, gift, fee, orders, events>>

Next ==
  \/ \E to \in States : Show(to)
  \/ Delete \/ Lapse \/ ReleaseExpired
  \/ \E g \in Users : Cancel(g)
  \/ \E w \in Workers :
       \/ \E to \in States : Decide(w, to)
       \/ \E g \in Users : Reserve(w, g) \/ Accept(w, g)
       \/ Choose(w) \/ Give(w)
       \/ FindGiftKey(w) \/ TransferGift(w)
       \/ FindFeeKey(w) \/ TransferFee(w) \/ SkipFee(w)
       \/ PlaceOrder(w) \/ LeaveOrder(w)
       \/ Publish(w) \/ Abort(w)

Spec == Init /\ [][Next]_vars

\* Time passes, and RunPeriodic keeps calling the task.
Fairness == WF_vars(Lapse) /\ WF_vars(ReleaseExpired)

-----------------------------------------------------------------------------
(* Properties.                                                             *)

\* A money gift that counts as given was transferred, and its fee is never
\* taken unless the gift was: whichever of the calls under way stop, are
\* repeated, or lose their reservation meanwhile.
GivenIsPaid ==
  LET paid == \E u \in Users : gift[u] > 0 IN
    /\ item.kind = "MONEY" /\ item.state = "ACCEPTED" => paid
    /\ (\E u \in Users : fee[u] > 0) => paid

\* An item goes from one giver to another only through the list, where all
\* can see it: no call that read the item before takes it from under whoever
\* has reserved it since.
OneGiverAtATime ==
  [][item.giver # NoOne /\ item'.giver # NoOne => item'.giver = item.giver]_vars

\* What the owner agreed to is undone by its giver alone: not by the release
\* task, which may come upon it at the end of its term, nor by another answer
\* of the owner's.  What is given, declined or deleted stays so.
ConfirmedIsKept ==
  [][/\ item.state = "CONFIRMED" /\ item' # item => by' = "GIVER"
     /\ item.state \in {"ACCEPTED", "REJECTED", "DELETED"} => item' = item]_vars

\* Nobody is told of what did not happen: the owner that a gift is given, a
\* giver that his gift is declined.
NewsIsTrue ==
  \A e \in events :
    /\ e.type = "gifted"   => item.state = "ACCEPTED" /\ e.to = Owner
    /\ e.type = "rejected" => item.state = "REJECTED" /\ e.to = item.giver

\* An abandoned reservation does not keep the item from the list for ever.
ReservationEnds == item.state = "CHOSEN" ~> item.state # "CHOSEN"

\* Accept says that after a transfer the item did not follow, a repeat takes
\* the same path: who has paid still holds the item.
PayerHoldsItem ==
  \A u \in Users : gift[u] > 0 => item.giver = u
=============================================================================
