--------------------------- MODULE MCReservations ---------------------------
(***************************************************************************)
(* Reservations of gifts and of money, which a task of either service      *)
(* releases when their term is over, and the feed, which a client polls.   *)
(* The three share nothing here, so a behaviour is of one of them, chosen  *)
(* at the start, while the others rest in their initial states.            *)
(***************************************************************************)
EXTENDS Wishlist

CONSTANTS a, k1, k2, k3, Requests

VARIABLES active,
          wallet, phase, call, began, row, until, now, before, late, \* Wallet
          feed, last, tx, flight, lost, reader, seen                 \* Feed

\* One wallet that is paid into, with a short and a long reservation.
On(op, value, key, ttl) ==
  [op |-> op, owner |-> a, named |-> FALSE, source |-> a, target |-> a,
   value |-> value, key |-> key, ttl |-> ttl]
TermCalls == {On("DEBIT", 3, k1, 0), On("RESERVE", 2, k2, 0), On("RESERVE", 1, k3, 2)}

W == INSTANCE Wallet WITH
  Users <- {a}, Keys <- {k1, k2, k3}, Calls <- TermCalls, Changes <- {},
  DefaultTTL <- 1, MaxBigint <- 3, MaxTime <- 3

F == INSTANCE Feed WITH
  Events <- {k1, k2}, Instances <- Workers, Readers <- {a}, Nothing <- NoOne, PageSize <- 1

\* Bound: Redis has the news of one message under way.
MaxFlight == 2

wvars  == <<wallet, phase, call, began, row, until, now, before, late>>
fvars  == <<feed, last, tx, flight, lost, reader, seen>>
mcvars == <<active, vars, wvars, fvars>>

MCInit ==
  /\ active \in {"wishlist", "wallet", "feed"}
  /\ Init /\ W!Init /\ F!Init
  /\ active # "wishlist" => item.kind = "PRODUCT"

MCNext ==
  /\ UNCHANGED active
  /\ \/ active = "wishlist" /\ Next /\ UNCHANGED <<wvars, fvars>>
     \/ active = "wallet" /\ W!Next /\ UNCHANGED <<vars, fvars>>
     \/ /\ active = "feed" /\ F!Next /\ UNCHANGED <<vars, wvars>>
        /\ Cardinality(flight') <= MaxFlight

\* Time passes and RunPeriodic keeps calling the task of the wallet; nobody is
\* obliged to send, to finish or to settle anything.
ReleaseFairness ==
  /\ WF_wvars(active = "wallet" /\ W!Tick)
  /\ WF_wvars(active = "wallet" /\ W!ReleaseExpired)

\* The client asks again and again, and every wait has an end.
FeedFairness ==
  /\ WF_fvars(active = "feed" /\ F!Poll(a))
  /\ WF_fvars(active = "feed" /\ F!Leave(a))

MCSpec ==
  MCInit /\ [][MCNext]_mcvars /\ Fairness /\ ReleaseFairness /\ FeedFairness

\* Every reservation of money is confirmed, rejected or released.
EveryReservationEnds == W!EveryReservationEnds

\* A client that goes on asking reads every message, whatever news are lost.
EveryMessageIsRead == F!EveryMessageIsRead
=============================================================================
