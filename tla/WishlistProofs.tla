--------------------------- MODULE WishlistProofs ---------------------------
(***************************************************************************)
(* Proofs about Wishlist, for any givers, any number of simultaneous calls *)
(* and any bounds.  The inductive invariant adds to the properties what a  *)
(* call under way has established, and relies on after others moved the    *)
(* item: the gift is paid before the item is accepted, and an event to be  *)
(* published tells of a state that cannot change any more.                 *)
(***************************************************************************)
EXTENDS Wishlist, TLAPS

Paid == \E u \in Users : gift[u] > 0

True(e) ==
  /\ e.type = "gifted"   => item.state = "ACCEPTED" /\ e.to = Owner
  /\ e.type = "rejected" => item.state = "REJECTED" /\ e.to = item.giver

Knows(w) ==
  /\ job[w].at \notin {"idle", "publish"} => job[w].giver \in Givers
  /\ job[w].at \in {"gift key", "gift"} => item.kind = "MONEY"
  /\ job[w].at = "order" => item.kind = "PRODUCT"
  /\ job[w].at \in {"fee key", "fee"} => Paid
  /\ job[w].at = "accept" /\ item.kind = "MONEY" => Paid
  /\ job[w].at = "publish" => job[w].event \in Event /\ True(job[w].event)

PaidInTime ==
  /\ item.kind = "MONEY" /\ item.state = "ACCEPTED" => Paid
  /\ (\E u \in Users : fee[u] > 0) => Paid

IInv ==
  /\ TypeOK
  /\ \A w \in Workers : Knows(w)
  /\ PaidInTime
  /\ \A e \in events : True(e)

\* What no step undoes.
Forward ==
  /\ item'.kind = item.kind
  /\ Paid => Paid'
  /\ item.state \in {"ACCEPTED", "REJECTED"} => item'.state = item.state /\ item'.giver = item.giver

LEMMA Successor == \A n \in Nat : n + 1 \in Nat
  OBVIOUS

USE UsersAssumption, BoundsAssumption

\* The bodies of calls other than w are left alone.
OthersStay(w) == \A v \in Workers : v # w => job'[v] = job[v]

\* A call that w does not serve still knows what it knew.
LEMMA KnowsStays ==
  ASSUME TypeOK, NEW v \in Workers, Knows(v), Forward, job'[v] = job[v]
  PROVE  Knows(v)'
  BY DEF TypeOK, Knows, Forward, True, Paid

\* Events that were true stay true.
LEMMA EventsStay ==
  ASSUME TypeOK, Forward, NEW e, True(e)
  PROVE  True(e)'
  BY DEF TypeOK, Forward, True

LEMMA IdleJob == Idle \in Job
  BY DEF Idle, Job

LEMMA InitIInv == Init => IInv
  <1> SUFFICES ASSUME Init PROVE IInv
    OBVIOUS
  <1>1. TypeOK
    <2>1. /\ item \in [kind : Kinds, state : States \cup {"DELETED"},
                        giver : Givers \cup {NoOne}, order : 0..MaxOrders]
          /\ item.giver = NoOne /\ item.state = "VISIBLE"
      BY DEF Init, States
    <2>2. job \in [Workers -> Job]
      BY IdleJob DEF Init
    <2>3. /\ lapsed \in BOOLEAN /\ ~lapsed /\ by \in {"OWNER", "GIVER", "SYSTEM"}
          /\ cycle \in 0..MaxCycles /\ orders \in 0..MaxOrders /\ events \subseteq Event
          /\ gift \in [Users -> Nat] /\ fee \in [Users -> Nat]
      <3>1. 0 \in 0..MaxCycles /\ 0 \in 0..MaxOrders
        BY SMT
      <3> QED
        BY <3>1 DEF Init
    <2> QED
      BY <2>1, <2>2, <2>3 DEF TypeOK
  <1>2. \A w \in Workers : Knows(w)
    BY DEF Init, Knows, Idle
  <1>3. PaidInTime
    BY DEF Init, PaidInTime
  <1> QED
    BY <1>1, <1>2, <1>3 DEF Init, IInv

\* A transition, whoever makes it: the row stays well formed, and an item at
\* an end of the table of transitions moves no more.
LEMMA TransitionType ==
  ASSUME TypeOK, NEW actor \in {"OWNER", "GIVER", "SYSTEM"}, NEW giver \in Givers \cup {NoOne},
         NEW to \in States, NEW order \in 0..MaxOrders,
         actor # "GIVER" => giver = NoOne,
         to = "CHOSEN" => giver # NoOne,
         Transition(actor, giver, to, order)
  PROVE  /\ item' \in [kind : Kinds, state : States \cup {"DELETED"},
                       giver : Givers \cup {NoOne}, order : 0..MaxOrders]
         /\ item'.giver = NoOne <=> item'.state \in {"VISIBLE", "HIDDEN", "DELETED"}
         /\ lapsed' = FALSE /\ by' = actor
         /\ item'.kind = item.kind /\ item'.state = to
         /\ item.state \notin {"ACCEPTED", "REJECTED", "DELETED"}
         /\ item.state = "CONFIRMED" => actor = "GIVER"
         /\ item.giver # NoOne /\ item'.giver # NoOne => item'.giver = item.giver
  <1>1. /\ actor \in Actors(item.state, to)
        /\ actor = "GIVER" /\ item.giver # NoOne => item.giver = giver
        /\ item' = Moved(giver, to, order)
        /\ lapsed' = FALSE /\ by' = actor
    BY DEF Transition, MayMove
  <1>2. /\ item.state \notin {"ACCEPTED", "REJECTED", "DELETED"}
        /\ to \in {"CONFIRMED", "REJECTED", "ACCEPTED"} => item.state \in {"CHOSEN", "CONFIRMED"}
        /\ to = "CHOSEN" => actor = "GIVER"
        /\ to = "ACCEPTED" => actor = "GIVER"
        /\ item.state = "CONFIRMED" => actor = "GIVER"
        /\ actor \in {"OWNER", "SYSTEM"} => to \in {"HIDDEN", "VISIBLE", "CONFIRMED", "REJECTED"}
    BY <1>1 DEF Actors, TypeOK, States
  <1>3. item \in [kind : Kinds, state : States \cup {"DELETED"},
                  giver : Givers \cup {NoOne}, order : 0..MaxOrders]
        /\ (item.giver = NoOne <=> item.state \in {"VISIBLE", "HIDDEN", "DELETED"})
    BY DEF TypeOK
  <1>4. CASE to \in {"VISIBLE", "HIDDEN"}
    <2>1. item' = [item EXCEPT !.state = to, !.giver = NoOne,
                               !.order = IF order = 0 THEN @ ELSE order]
      BY <1>1, <1>4 DEF Moved
    <2> QED
      BY <2>1, <1>1, <1>2, <1>3, <1>4
  <1>5. CASE to \notin {"VISIBLE", "HIDDEN"}
    <2> DEFINE g == IF giver # NoOne THEN giver ELSE item.giver
    <2>1. item' = [item EXCEPT !.state = to,
                               !.giver = g,
                               !.order = IF order = 0 THEN @ ELSE order]
      BY <1>1, <1>5 DEF Moved
    <2>2. to \in {"CHOSEN", "CONFIRMED", "ACCEPTED", "REJECTED"}
      BY <1>5 DEF States
    <2>6. /\ item.giver \in Givers \cup {NoOne}
          /\ item.state \in {"CHOSEN", "CONFIRMED"} => item.giver # NoOne
      BY <1>3
    <2>3. g \in Givers
      BY <1>2, <2>6, <2>2
    <2>4. item.giver # NoOne => g = item.giver
      BY <1>1
    <2>5. NoOne \notin Givers
      BY DEF Givers
    <2> QED
      BY <2>1, <2>2, <2>3, <2>4, <2>5, <1>1, <1>2, <1>3
  <1> QED
    BY <1>4, <1>5

-----------------------------------------------------------------------------
(* The invariant after a step, from what the step itself touches.          *)

\* A step that writes neither fees nor events and accepts nothing.
LEMMA Quiet ==
  ASSUME IInv, TypeOK', Forward, fee' = fee, events' = events,
         item'.state = "ACCEPTED" => item.state = "ACCEPTED",
         \A w \in Workers : Knows(w)'
  PROVE  IInv'
  <1>1. PaidInTime'
    BY DEF IInv, PaidInTime, Forward
  <1>2. \A e \in events' : True(e)'
    BY EventsStay DEF IInv
  <1> QED
    BY <1>1, <1>2 DEF IInv

\* What the calls know, when only call w moved.
LEMMA OneMoved ==
  ASSUME IInv, Forward, NEW w \in Workers, NEW j \in Job, job' = [job EXCEPT ![w] = j], Knows(w)'
  PROVE  \A v \in Workers : Knows(v)'
  <1>1. ASSUME NEW v \in Workers, v # w PROVE job'[v] = job[v]
    BY <1>1 DEF IInv, TypeOK
  <1> QED
    BY <1>1, KnowsStays DEF IInv

\* What the calls know, when no call moved.
LEMMA NoneMoved ==
  ASSUME IInv, Forward, job' = job
  PROVE  \A v \in Workers : Knows(v)'
  BY KnowsStays DEF IInv

\* A call's next record.
LEMMA JobType ==
  ASSUME TypeOK, NEW w \in Workers
  PROVE  /\ Idle \in Job
         /\ job[w] \in Job
         /\ \A at \in {"idle", "reserve", "gift key", "gift", "fee key", "fee",
                       "order", "accept", "publish"} :
              /\ [job[w] EXCEPT !.at = at] \in Job
              /\ \A u \in Users : [Idle EXCEPT !.at = at, !.giver = u] \in Job
              /\ \A n \in 0..MaxOrders : [job[w] EXCEPT !.at = at, !.order = n] \in Job
              /\ \A e \in Event : [Idle EXCEPT !.at = at, !.event = e] \in Job
  <1>1. job[w] \in Job
    BY DEF TypeOK
  <1>2. Idle \in Job
    BY IdleJob
  <1> QED
    BY <1>1, <1>2 DEF Job

LEMMA EventType ==
  ASSUME NEW u \in Users
  PROVE  /\ \A t \in {"confirmed", "rejected", "gifted"} : [to |-> u, type |-> t, of |-> 0] \in Event
         /\ \A n \in 1..MaxCycles : [to |-> u, type |-> "reserved", of |-> n] \in Event
  BY DEF Event

\* The steps of a call that touch nothing but its own record.
LEMMA OwnStep ==
  ASSUME IInv, NEW w \in Workers, NEW j \in Job, job' = [job EXCEPT ![w] = j],
         UNCHANGED <<item, lapsed, by, cycle, gift, fee, orders, events>>,
         /\ j.at \notin {"idle", "publish"} => j.giver \in Givers
         /\ j.at \in {"gift key", "gift"} => item.kind = "MONEY"
         /\ j.at = "order" => item.kind = "PRODUCT"
         /\ j.at \in {"fee key", "fee"} => Paid
         /\ j.at = "accept" /\ item.kind = "MONEY" => Paid
         /\ j.at # "publish"
  PROVE  IInv' /\ Forward
  <1>1. TypeOK'
    BY DEF IInv, TypeOK
  <1>2. Forward
    BY DEF Forward, Paid
  <1>3. job'[w] = j
    BY DEF IInv, TypeOK
  <1>4. Knows(w)'
    BY <1>3, <1>2 DEF Knows, Forward
  <1>5. \A v \in Workers : Knows(v)'
    BY <1>2, <1>4, OneMoved
  <1> QED
    BY <1>1, <1>2, <1>5, Quiet

-----------------------------------------------------------------------------
(* One lemma per action that moves the item or writes outside its call.    *)

\* What a move of the item keeps: OneGiverAtATime and ConfirmedIsKept.
Keeps ==
  /\ item.giver # NoOne /\ item'.giver # NoOne => item'.giver = item.giver
  /\ item.state = "CONFIRMED" /\ item' # item => by' = "GIVER"
  /\ item.state \in {"ACCEPTED", "REJECTED", "DELETED"} => item' = item

\* A transition to a state other than ACCEPTED, by a call that then does j, or
\* by nobody's call.
LEMMA Moves ==
  ASSUME IInv, NEW actor \in {"OWNER", "GIVER", "SYSTEM"}, NEW giver \in Givers \cup {NoOne},
         NEW to \in States, to # "ACCEPTED",
         actor # "GIVER" => giver = NoOne, to = "CHOSEN" => giver # NoOne,
         Transition(actor, giver, to, 0),
         cycle' \in 0..MaxCycles, UNCHANGED <<gift, fee, orders, events>>,
         job' \in [Workers -> Job]
  PROVE  /\ TypeOK' /\ Forward /\ Keeps
         /\ (\A w \in Workers : Knows(w)') => IInv'
  <1>0. 0 \in 0..MaxOrders
    BY SMT
  <1>1. /\ item' \in [kind : Kinds, state : States \cup {"DELETED"},
                       giver : Givers \cup {NoOne}, order : 0..MaxOrders]
        /\ item'.giver = NoOne <=> item'.state \in {"VISIBLE", "HIDDEN", "DELETED"}
        /\ lapsed' = FALSE /\ by' = actor
        /\ item'.kind = item.kind /\ item'.state = to
        /\ item.state \notin {"ACCEPTED", "REJECTED", "DELETED"}
        /\ item.state = "CONFIRMED" => actor = "GIVER"
        /\ item.giver # NoOne /\ item'.giver # NoOne => item'.giver = item.giver
    BY <1>0, TransitionType DEF IInv
  <1>2. TypeOK'
    BY <1>1 DEF IInv, TypeOK
  <1>3. Forward
    BY <1>1 DEF Forward, Paid
  <1>4. Keeps
    BY <1>1 DEF Keeps
  <1> QED
    BY <1>1, <1>2, <1>3, <1>4, Quiet

LEMMA ShowStep ==
  ASSUME IInv, NEW to \in States, Show(to)
  PROVE  IInv' /\ Keeps
  <1>1. /\ Transition("OWNER", NoOne, to, 0) /\ to \in {"VISIBLE", "HIDDEN"}
        /\ UNCHANGED <<cycle, gift, fee, orders, events, job>>
    BY DEF Show
  <1>2. job' \in [Workers -> Job] /\ cycle' \in 0..MaxCycles
    BY <1>1 DEF IInv, TypeOK
  <1>3. /\ TypeOK' /\ Forward /\ Keeps
        /\ (\A w \in Workers : Knows(w)') => IInv'
    BY <1>1, <1>2, Moves
  <1> QED
    BY <1>1, <1>3, NoneMoved

LEMMA CancelStep ==
  ASSUME IInv, NEW g \in Users, Cancel(g)
  PROVE  IInv' /\ Keeps
  <1>1. /\ Transition("GIVER", g, "VISIBLE", 0)
        /\ UNCHANGED <<cycle, gift, fee, orders, events, job>>
    BY DEF Cancel
  <1>2. job' \in [Workers -> Job] /\ cycle' \in 0..MaxCycles
    BY <1>1 DEF IInv, TypeOK
  <1>3. g = item.giver /\ g \in Givers
    BY <1>1 DEF Transition, MayMove, Actors, IInv, TypeOK
  <1>4. /\ TypeOK' /\ Forward /\ Keeps
        /\ (\A w \in Workers : Knows(w)') => IInv'
    BY <1>1, <1>2, <1>3, Moves DEF States
  <1> QED
    BY <1>1, <1>4, NoneMoved

LEMMA DecideStep ==
  ASSUME IInv, NEW w \in Workers, NEW to \in States, Decide(w, to)
  PROVE  IInv' /\ Keeps
  <1>1. /\ Transition("OWNER", NoOne, to, 0) /\ to \in {"CONFIRMED", "REJECTED"}
        /\ UNCHANGED <<cycle, gift, fee, orders, events>>
    BY DEF Decide
  <1>2. item.state = "CHOSEN" /\ item.giver \in Givers
    BY <1>1 DEF Transition, MayMove, Actors, IInv, TypeOK
  <1>3. PICK e \in Event :
          e = [to |-> item.giver,
               type |-> IF to = "CONFIRMED" THEN "confirmed" ELSE "rejected", of |-> 0]
    BY <1>2, EventType DEF Givers
  <1>4. PICK j \in Job : j = [Idle EXCEPT !.at = "publish", !.event = e]
    BY JobType DEF IInv
  <1>5. job' = [job EXCEPT ![w] = j]
    BY <1>3, <1>4 DEF Decide, Tells
  <1>6. /\ TypeOK' /\ Forward /\ Keeps
        /\ (\A v \in Workers : Knows(v)') => IInv'
    <2>1. job' \in [Workers -> Job] /\ cycle' \in 0..MaxCycles
      BY <1>1, <1>5 DEF IInv, TypeOK
    <2> QED
      BY <2>1, <1>1, Moves
  <1>7. True(e)'
    <2>1. item'.state = to /\ item'.giver = item.giver
      BY <1>1 DEF Transition, Moved, IInv, TypeOK
    <2> QED
      BY <2>1, <1>1, <1>3 DEF True
  <1>8. Knows(w)'
    <2>1. job'[w] = j /\ j.at = "publish" /\ j.event = e
      BY <1>4, <1>5 DEF IInv, TypeOK, Idle
    <2> QED
      BY <2>1, <1>7 DEF Knows, True
  <1> QED
    BY <1>5, <1>6, <1>8, OneMoved

LEMMA ChooseStep ==
  ASSUME IInv, NEW w \in Workers, Choose(w)
  PROVE  IInv' /\ Keeps
  <1>1. /\ Transition("GIVER", job[w].giver, "CHOSEN", 0)
        /\ cycle < MaxCycles /\ cycle' = cycle + 1
        /\ UNCHANGED <<gift, fee, orders, events>>
    BY DEF Choose
  <1>2. job[w].giver \in Givers /\ NoOne \notin Givers
    BY DEF Choose, IInv, Knows, Givers
  <1>3. cycle + 1 \in 1..MaxCycles
    BY <1>1 DEF IInv, TypeOK
  <1>4. PICK e \in Event : e = [to |-> Owner, type |-> "reserved", of |-> cycle + 1]
    BY <1>3, EventType
  <1>5. PICK j \in Job : j = [Idle EXCEPT !.at = "publish", !.event = e]
    BY JobType DEF IInv
  <1>6. job' = [job EXCEPT ![w] = j]
    BY <1>4, <1>5 DEF Choose, Tells
  <1>7. /\ TypeOK' /\ Forward /\ Keeps
        /\ (\A v \in Workers : Knows(v)') => IInv'
    <2>1. job' \in [Workers -> Job] /\ cycle' \in 0..MaxCycles
      BY <1>1, <1>3, <1>6 DEF IInv, TypeOK
    <2> QED
      BY <2>1, <1>1, <1>2, Moves DEF States
  <1>8. Knows(w)'
    <2>1. job'[w] = j /\ j.at = "publish" /\ j.event = e
      BY <1>5, <1>6 DEF IInv, TypeOK, Idle
    <2> QED
      BY <2>1, <1>4 DEF Knows, True
  <1> QED
    BY <1>6, <1>7, <1>8, OneMoved

\* The steps of nobody's call that leave money and events alone.
LEMMA BackStep ==
  ASSUME IInv, Delete \/ Lapse \/ ReleaseExpired
  PROVE  IInv' /\ Keeps
  <1>1. UNCHANGED <<cycle, gift, fee, orders, events, job>> /\ item'.kind = item.kind
    BY DEF Delete, Lapse, ReleaseExpired, Moved, IInv, TypeOK
  <1>2. item.state \notin {"ACCEPTED", "REJECTED"} \/ item' = item
    BY DEF Delete, Lapse, ReleaseExpired
  <1>3. Forward
    BY <1>1, <1>2 DEF Forward, Paid
  <1>4. TypeOK' /\ Keeps /\ (item'.state = "ACCEPTED" => item.state = "ACCEPTED")
    <2>1. item \in [kind : Kinds, state : States \cup {"DELETED"},
                    giver : Givers \cup {NoOne}, order : 0..MaxOrders]
      BY DEF IInv, TypeOK
    <2>2. CASE Delete
      <3>1. item' = [item EXCEPT !.state = "DELETED"] /\ item.state \in {"VISIBLE", "HIDDEN"}
            /\ lapsed' = lapsed /\ by' = "OWNER"
        BY <2>2 DEF Delete
      <3> QED
        BY <3>1, <2>1, <1>1 DEF IInv, TypeOK, Keeps
    <2>3. CASE Lapse
      BY <2>3, <1>1 DEF Lapse, IInv, TypeOK, Keeps
    <2>4. CASE ReleaseExpired
      <3>1. /\ item' = [item EXCEPT !.state = "VISIBLE", !.giver = NoOne, !.order = item.order]
            /\ item.state = "CHOSEN" /\ lapsed' = FALSE /\ by' = "SYSTEM"
        BY <2>4 DEF ReleaseExpired, Moved
      <3> QED
        BY <3>1, <2>1, <1>1 DEF IInv, TypeOK, Keeps, States
    <2> QED
      BY <2>2, <2>3, <2>4
  <1>5. \A w \in Workers : Knows(w)'
    BY <1>1, <1>3, NoneMoved
  <1> QED
    BY <1>1, <1>3, <1>4, <1>5, Quiet

LEMMA GiveStep ==
  ASSUME IInv, NEW w \in Workers, Give(w)
  PROVE  IInv' /\ Keeps
  <1>1. /\ Transition("GIVER", job[w].giver, "ACCEPTED", job[w].order)
        /\ job[w].at = "accept"
        /\ UNCHANGED <<cycle, gift, fee, orders, events>>
    BY DEF Give
  <1>2. job[w].giver \in Givers /\ job[w].order \in 0..MaxOrders
    <2>1. job[w].giver \in Givers
      BY <1>1 DEF IInv, Knows
    <2>2. job[w] \in Job
      BY JobType DEF IInv
    <2> QED
      BY <2>1, <2>2 DEF Job
  <1>3. PICK e \in Event : e = [to |-> Owner, type |-> "gifted", of |-> 0]
    BY EventType
  <1>4. PICK j \in Job : j = [Idle EXCEPT !.at = "publish", !.event = e]
    BY JobType DEF IInv
  <1>5. job' = [job EXCEPT ![w] = j]
    BY <1>3, <1>4 DEF Give, Tells
  <1>6. /\ item' \in [kind : Kinds, state : States \cup {"DELETED"},
                       giver : Givers \cup {NoOne}, order : 0..MaxOrders]
        /\ item'.giver = NoOne <=> item'.state \in {"VISIBLE", "HIDDEN", "DELETED"}
        /\ lapsed' = FALSE /\ by' = "GIVER"
        /\ item'.kind = item.kind /\ item'.state = "ACCEPTED"
        /\ item.state \notin {"ACCEPTED", "REJECTED", "DELETED"}
        /\ item.giver # NoOne /\ item'.giver # NoOne => item'.giver = item.giver
    BY <1>1, <1>2, TransitionType DEF IInv, States
  <1>7. TypeOK'
    BY <1>1, <1>5, <1>6 DEF IInv, TypeOK
  <1>8. Forward /\ Keeps
    BY <1>1, <1>6 DEF Forward, Keeps, Paid
  <1>9. \A v \in Workers : Knows(v)'
    <2>1. job'[w] = j /\ j.at = "publish" /\ j.event = e
      BY <1>4, <1>5 DEF IInv, TypeOK, Idle
    <2>2. Knows(w)'
      BY <2>1, <1>3, <1>6 DEF Knows, True
    <2> QED
      BY <2>2, <1>5, <1>8, OneMoved
  <1>10. PaidInTime'
    <2>1. item.kind = "MONEY" => Paid
      BY <1>1 DEF IInv, Knows
    <2>2. Paid' <=> Paid
      BY <1>1 DEF Paid
    <2> QED
      BY <2>1, <2>2, <1>1, <1>6 DEF IInv, PaidInTime
  <1>11. \A f \in events' : True(f)'
    BY <1>1, <1>8, EventsStay DEF IInv
  <1> QED
    BY <1>7, <1>8, <1>9, <1>10, <1>11 DEF IInv

-----------------------------------------------------------------------------
(* The steps inside a call.                                                *)

LEMMA ReadStep ==
  ASSUME IInv, NEW w \in Workers, NEW g \in Users, Reserve(w, g) \/ Accept(w, g)
  PROVE  IInv' /\ Forward
  <1>1. g \in Givers
    BY DEF Reserve, Accept, IInv, TypeOK, Givers
  <1>2. CASE Reserve(w, g)
    <2>1. PICK j \in Job : j = [Idle EXCEPT !.at = "reserve", !.giver = g]
      BY JobType DEF IInv
    <2> QED
      BY <2>1, <1>1, <1>2, OwnStep DEF Reserve, Starts, Idle
  <1>3. CASE Accept(w, g)
    <2>1. item.kind \in {"MONEY", "PRODUCT"}
      BY DEF IInv, TypeOK, Kinds
    <2>2. CASE item.kind = "MONEY"
      <3>1. PICK j \in Job : j = [Idle EXCEPT !.at = "gift key", !.giver = g]
        BY JobType DEF IInv
      <3> QED
        BY <3>1, <2>2, <1>1, <1>3, OwnStep DEF Accept, Starts, Idle
    <2>3. CASE item.kind = "PRODUCT"
      <3>1. PICK j \in Job : j = [Idle EXCEPT !.at = "order", !.giver = g]
        BY JobType DEF IInv
      <3> QED
        BY <3>1, <2>3, <1>1, <1>3, OwnStep DEF Accept, Starts, Idle
    <2> QED
      BY <2>1, <2>2, <2>3
  <1> QED
    BY <1>2, <1>3

\* A call goes on to another step with what it has.
LEMMA GoesStep ==
  ASSUME IInv, NEW w \in Workers, NEW at \in {"gift", "fee key", "fee", "accept"},
         Goes(w, at), UNCHANGED <<item, lapsed, by, cycle, gift, fee, orders, events>>,
         job[w].at \notin {"idle", "publish"},
         at = "gift" => item.kind = "MONEY",
         at \in {"fee key", "fee"} => Paid,
         at = "accept" /\ item.kind = "MONEY" => Paid
  PROVE  IInv' /\ Forward
  <1>1. PICK j \in Job : j = [job[w] EXCEPT !.at = at]
    BY JobType DEF IInv
  <1>2. job' = [job EXCEPT ![w] = j]
    BY <1>1 DEF Goes, IInv, TypeOK
  <1>3. job[w] \in Job /\ job[w].giver \in Givers
    BY JobType DEF IInv, Knows
  <1>4. j.at = at /\ j.giver = job[w].giver
    BY <1>1, <1>3 DEF Job
  <1> QED
    BY <1>2, <1>3, <1>4, OwnStep

LEMMA KeyStep ==
  ASSUME IInv, NEW w \in Workers, FindGiftKey(w) \/ FindFeeKey(w) \/ SkipFee(w) \/ LeaveOrder(w)
  PROVE  IInv' /\ Forward
  <1>1. CASE FindGiftKey(w)
    <2>1. item.kind = "MONEY"
      BY <1>1 DEF FindGiftKey, IInv, Knows
    <2>2. CASE Paid
      BY <2>1, <2>2, <1>1, GoesStep DEF FindGiftKey, Paid
    <2>3. CASE ~Paid
      BY <2>1, <2>3, <1>1, GoesStep DEF FindGiftKey, Paid
    <2> QED
      BY <2>2, <2>3
  <1>2. CASE FindFeeKey(w)
    <2>1. Paid
      BY <1>2 DEF FindFeeKey, IInv, Knows
    <2>2. Goes(w, "fee") \/ Goes(w, "accept")
      BY <1>2 DEF FindFeeKey
    <2> QED
      BY <2>1, <2>2, <1>2, GoesStep DEF FindFeeKey
  <1>3. CASE SkipFee(w)
    <2>1. Paid
      BY <1>3 DEF SkipFee, IInv, Knows
    <2> QED
      BY <2>1, <1>3, GoesStep DEF SkipFee
  <1>4. CASE LeaveOrder(w)
    <2>1. item.kind = "PRODUCT"
      BY <1>4 DEF LeaveOrder, IInv, Knows
    <2> QED
      BY <2>1, <1>4, GoesStep DEF LeaveOrder
  <1> QED
    BY <1>1, <1>2, <1>3, <1>4

LEMMA AbortStep ==
  ASSUME IInv, NEW w \in Workers, Abort(w)
  PROVE  IInv' /\ Forward
  BY IdleJob, OwnStep DEF Abort, Ends, Idle

\* The wallet commits: the gift, or the fee of a gift that is paid.
LEMMA TransferStep ==
  ASSUME IInv, NEW w \in Workers, TransferGift(w) \/ TransferFee(w)
  PROVE  IInv' /\ Forward
  <1>1. /\ job[w] \in Job /\ job[w].giver \in Givers
        /\ gift \in [Users -> Nat] /\ fee \in [Users -> Nat] /\ Givers \subseteq Users
    BY JobType DEF TransferGift, TransferFee, IInv, Knows, TypeOK, Givers
  <1>2. Paid'
    <2>1. CASE TransferGift(w)
      <3>1. gift'[job[w].giver] = gift[job[w].giver] + 1
        BY <2>1, <1>1 DEF TransferGift
      <3>2. gift'[job[w].giver] > 0 /\ job[w].giver \in Users
        BY <3>1, <1>1
      <3> QED
        BY <3>2 DEF Paid
    <2>2. CASE TransferFee(w)
      BY <2>2 DEF TransferFee, IInv, Knows, Paid
    <2> QED
      BY <2>1, <2>2
  <1>3. PICK at \in {"fee key", "accept"} : Goes(w, at)
    BY DEF TransferGift, TransferFee
  <1>4. PICK j \in Job : j = [job[w] EXCEPT !.at = at]
    BY JobType DEF IInv
  <1>5. job' = [job EXCEPT ![w] = j] /\ j.at = at /\ j.giver = job[w].giver
    BY <1>1, <1>3, <1>4 DEF Goes, IInv, TypeOK, Job
  <1>6. UNCHANGED <<item, lapsed, by, cycle, orders, events>>
    BY DEF TransferGift, TransferFee
  <1>7. gift' \in [Users -> Nat] /\ fee' \in [Users -> Nat]
    <2> DEFINE g == job[w].giver
    <2>1. g \in Users /\ gift[g] + 1 \in Nat /\ fee[g] + 1 \in Nat
      <3>1. g \in Users
        BY <1>1
      <3> HIDE DEF g
      <3>2. gift[g] \in Nat /\ fee[g] \in Nat
        BY <3>1, <1>1
      <3> QED
        BY <3>1, <3>2, Successor, Zenon
    <2>2. CASE TransferGift(w)
      <3>1. gift' = [gift EXCEPT ![g] = gift[g] + 1] /\ fee' = fee
        BY <2>2 DEF TransferGift
      <3> HIDE DEF g
      <3> QED
        BY <3>1, <2>1, <1>1
    <2>3. CASE TransferFee(w)
      <3>1. fee' = [fee EXCEPT ![g] = fee[g] + 1] /\ gift' = gift
        BY <2>3 DEF TransferFee
      <3> HIDE DEF g
      <3> QED
        BY <3>1, <2>1, <1>1
    <2> QED
      BY <2>2, <2>3
  <1>8. TypeOK'
    BY <1>5, <1>6, <1>7 DEF IInv, TypeOK
  <1>9. Forward
    BY <1>2, <1>6 DEF Forward
  <1>10. \A v \in Workers : Knows(v)'
    <2>1. job'[w] = j
      BY <1>5 DEF IInv, TypeOK
    <2>2. Knows(w)'
      BY <2>1, <1>1, <1>2, <1>5 DEF Knows
    <2> QED
      BY <2>2, <1>5, <1>9, OneMoved
  <1>11. PaidInTime'
    BY <1>2 DEF PaidInTime
  <1>12. \A e \in events' : True(e)'
    BY <1>6, <1>9, EventsStay DEF IInv
  <1> QED
    BY <1>8, <1>9, <1>10, <1>11, <1>12 DEF IInv

LEMMA OrderStep ==
  ASSUME IInv, NEW w \in Workers, PlaceOrder(w)
  PROVE  IInv' /\ Forward
  <1>1. orders + 1 \in 0..MaxOrders
    BY DEF PlaceOrder, IInv, TypeOK
  <1>2. job[w] \in Job /\ job[w].giver \in Givers /\ item.kind = "PRODUCT"
    BY JobType DEF PlaceOrder, IInv, Knows
  <1>3. PICK j \in Job : j = [job[w] EXCEPT !.at = "accept", !.order = orders + 1]
    BY <1>1, JobType DEF IInv
  <1>4. job' = [job EXCEPT ![w] = j] /\ j.at = "accept" /\ j.giver = job[w].giver
    BY <1>2, <1>3 DEF PlaceOrder, IInv, TypeOK, Job
  <1>5. TypeOK' /\ job'[w] = j
    BY <1>1, <1>4 DEF PlaceOrder, IInv, TypeOK
  <1>6. Forward
    BY DEF PlaceOrder, Forward, Paid
  <1>7. Knows(w)'
    BY <1>2, <1>4, <1>5, <1>6 DEF Knows, Forward
  <1> QED
    BY <1>4, <1>5, <1>6, <1>7, OneMoved, Quiet DEF PlaceOrder

LEMMA PublishStep ==
  ASSUME IInv, NEW w \in Workers, Publish(w)
  PROVE  IInv' /\ Forward
  <1>1. job[w].event \in Event /\ True(job[w].event)
    BY DEF Publish, IInv, Knows
  <1>2. TypeOK' /\ job'[w] = Idle
    BY <1>1, IdleJob DEF Publish, Ends, IInv, TypeOK
  <1>3. Forward
    BY DEF Publish, Forward, Paid
  <1>4. \A v \in Workers : Knows(v)'
    <2>1. Knows(w)'
      BY <1>2 DEF Knows, Idle
    <2> QED
      BY <2>1, <1>3, IdleJob, OneMoved DEF Publish, Ends
  <1>5. PaidInTime'
    BY DEF Publish, PaidInTime, Paid, IInv
  <1>6. \A e \in events' : True(e)'
    BY <1>1 DEF Publish, True, IInv
  <1> QED
    BY <1>2, <1>3, <1>4, <1>5, <1>6 DEF IInv

-----------------------------------------------------------------------------
(* The theorems.                                                           *)

LEMMA NextIInv == IInv /\ [Next]_vars => IInv' /\ Keeps
  <1> SUFFICES ASSUME IInv, [Next]_vars PROVE IInv' /\ Keeps
    OBVIOUS
  <1>1. CASE UNCHANGED vars
    BY <1>1 DEF vars, IInv, TypeOK, Knows, True, Paid, PaidInTime, Keeps
  <1>2. ASSUME NEW to \in States, Show(to) PROVE IInv' /\ Keeps
    BY <1>2, ShowStep
  <1>3. CASE Delete \/ Lapse \/ ReleaseExpired
    BY <1>3, BackStep
  <1>4. ASSUME NEW g \in Users, Cancel(g) PROVE IInv' /\ Keeps
    BY <1>4, CancelStep
  <1>5. ASSUME NEW w \in Workers, \/ \E to \in States : Decide(w, to)
                                  \/ Choose(w) \/ Give(w)
        PROVE  IInv' /\ Keeps
    BY <1>5, DecideStep, ChooseStep, GiveStep
  <1>6. ASSUME NEW w \in Workers,
               \/ \E g \in Users : Reserve(w, g) \/ Accept(w, g)
               \/ FindGiftKey(w) \/ TransferGift(w)
               \/ FindFeeKey(w) \/ TransferFee(w) \/ SkipFee(w)
               \/ PlaceOrder(w) \/ LeaveOrder(w)
               \/ Publish(w) \/ Abort(w)
        PROVE  IInv' /\ Keeps
    <2>1. IInv'
      BY <1>6, ReadStep, KeyStep, TransferStep, OrderStep, PublishStep, AbortStep
    <2>2. item' = item
      BY <1>6 DEF Reserve, Accept, FindGiftKey, TransferGift, FindFeeKey, TransferFee, SkipFee,
                  PlaceOrder, LeaveOrder, Publish, Abort
    <2> QED
      BY <2>1, <2>2 DEF Keeps
  <1> QED
    BY <1>1, <1>2, <1>3, <1>4, <1>5, <1>6 DEF Next

\* The invariant of the wishlist: what a call under way has established still
\* holds when it goes on (gifts.go, Accept, and db.go, Transition).
THEOREM Invariance == Spec => []IInv
  BY InitIInv, NextIInv, PTL DEF Spec

\* Every variable keeps its type, and the row the CHECK constraints of its
\* table: a giver is there exactly while the item is taken.
THEOREM TypeCorrect == Spec => []TypeOK
  <1>1. IInv => TypeOK
    BY DEF IInv
  <1> QED
    BY <1>1, Invariance, PTL

\* An accepted money gift was transferred, and no fee is taken without it
\* (gifts.go, transfer).
THEOREM GiftsArePaid == Spec => []GivenIsPaid
  <1>1. IInv => GivenIsPaid
    BY DEF IInv, PaidInTime, GivenIsPaid, Paid
  <1> QED
    BY <1>1, Invariance, PTL

\* Events tell of what has happened (gifts.go, publish).
THEOREM EventsAreTrue == Spec => []NewsIsTrue
  <1>1. IInv => NewsIsTrue
    BY DEF IInv, True, NewsIsTrue
  <1> QED
    BY <1>1, Invariance, PTL

\* The item is never taken from under its giver (db.go, Transition).
THEOREM ReservedForOne == Spec => OneGiverAtATime
  <1>1. IInv /\ [Next]_vars
          => [item.giver # NoOne /\ item'.giver # NoOne => item'.giver = item.giver]_vars
    BY NextIInv DEF Keeps
  <1> QED
    BY <1>1, Invariance, PTL DEF Spec, OneGiverAtATime

\* What the owner confirmed is undone by its giver alone, and ends are final
\* (models.go, transitions, and db.go, ReleaseExpired).
THEOREM ConfirmationsHold == Spec => ConfirmedIsKept
  <1>1. IInv /\ [Next]_vars
          => [/\ item.state = "CONFIRMED" /\ item' # item => by' = "GIVER"
              /\ item.state \in {"ACCEPTED", "REJECTED", "DELETED"} => item' = item]_vars
    BY NextIInv DEF Keeps
  <1> QED
    BY <1>1, Invariance, PTL DEF Spec, ConfirmedIsKept
=============================================================================
