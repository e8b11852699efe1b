-------------------------------- MODULE Feed --------------------------------
(***************************************************************************)
(* The feed of messages of one user, which the notify service keeps in its *)
(* database, and the clients that follow it by a cursor.                   *)
(*                                                                         *)
(* An instance of the service appends the message of an event in one       *)
(* transaction: it looks for the message, takes the next number, whose row *)
(* it then holds locked, and inserts.  After the commit it tells the other *)
(* instances through Redis, and each of them wakes the long polls that     *)
(* wait in its hub.  A long poll reads, subscribes, reads again and waits. *)
(*                                                                         *)
(* What hands events to the instances is the queue of module Delivery: it  *)
(* may hand one event to two of them, and again after a failure.           *)
(***************************************************************************)
EXTENDS Integers, FiniteSets

CONSTANTS
  Events,
  Instances,
  Readers,
  Nothing,   \* no event; no instance
  PageSize   \* the limit of a request

ASSUME PageAssumption == PageSize \in Nat \ {0}
ASSUME NothingAssumption == Nothing \notin Events \cup Instances

VARIABLES
  feed,    \* the table message, as committed
  last,    \* last_seq, as committed
  tx,      \* the message each instance is appending
  flight,  \* what Redis has not brought to an instance yet
  lost,    \* history: events of which some instance will not hear
  reader,  \* the request of each client, its hub and its cursor
  seen     \* history: what each client was answered with

vars == <<feed, last, tx, flight, lost, reader, seen>>

Message == [of : Events, seq : Nat]
Tx      == [at : {"idle", "number", "insert", "push"}, of : Events \cup {Nothing}, seq : Nat]
NoTx    == [at |-> "idle", of |-> Nothing, seq |-> 0]
Request == [at : {"idle", "empty", "subscribed", "waiting"}, hub : Instances \cup {Nothing},
            woken : BOOLEAN, cursor : Nat]

TypeOK ==
  /\ feed \subseteq Message
  /\ IsFiniteSet(feed)
  /\ last \in Nat
  /\ tx \in [Instances -> Tx]
  /\ flight \subseteq Instances \X Events
  /\ lost \subseteq Events
  /\ reader \in [Readers -> Request]
  /\ \A r \in Readers : reader[r].hub = Nothing <=> reader[r].at \in {"idle", "empty"}
  /\ seen \in [Readers -> SUBSET Events]

Init ==
  /\ feed = {}
  /\ last = 0
  /\ tx = [i \in Instances |-> NoTx]
  /\ flight = {}
  /\ lost = {}
  /\ reader = [r \in Readers |->
                 [at |-> "idle", hub |-> Nothing, woken |-> FALSE, cursor |-> 0]]
  /\ seen = [r \in Readers |-> {}]

-----------------------------------------------------------------------------
(* AppendMessage and what follows it.                                      *)

Goes(i, at) == tx' = [tx EXCEPT ![i].at = at]

\* A message there already is told of once more.
AppendMessage(i, e) ==
  /\ tx[i].at = "idle"
  /\ tx' = [tx EXCEPT ![i] = [NoTx EXCEPT
                                !.at = IF \E m \in feed : m.of = e THEN "push" ELSE "number",
                                !.of = e]]
  /\ UNCHANGED <<feed, last, flight, lost, reader, seen>>

\* Mutant of Number: a sequence, which locks nothing.
NumberFreely(i) ==
  /\ tx[i].at = "number"
  /\ last' = last + 1
  /\ tx' = [tx EXCEPT ![i].at = "insert", ![i].seq = last + 1]
  /\ UNCHANGED <<feed, flight, lost, reader, seen>>

\* The row of the user's number is locked until the transaction ends.
Number(i) ==
  /\ tx[i].at = "number"
  /\ \A j \in Instances : tx[j].at # "insert"
  /\ tx' = [tx EXCEPT ![i].at = "insert", ![i].seq = last + 1]
  /\ UNCHANGED <<feed, last, flight, lost, reader, seen>>

\* The insertion, unless the event has its message by now, and the commit.
Insert(i) ==
  /\ tx[i].at = "insert"
  /\ \A m \in feed : m.of # tx[i].of
  /\ feed' = feed \cup {[of |-> tx[i].of, seq |-> tx[i].seq]}
  /\ last' = tx[i].seq
  /\ Goes(i, "push")
  /\ UNCHANGED <<flight, lost, reader, seen>>

\* Nothing of it remains, and the lock is free.
Rollback(i) ==
  /\ tx[i].at \in {"number", "insert"}
  /\ tx' = [tx EXCEPT ![i] = NoTx]
  /\ UNCHANGED <<feed, last, flight, lost, reader, seen>>

\* Those who wait in a hub are told; one who is reading will find it.
Woken(i) ==
  [r \in Readers |-> IF reader[r].hub = i THEN [reader[r] EXCEPT !.woken = TRUE] ELSE reader[r]]

\* Redis takes the message for every instance.
Publish(i) ==
  /\ tx[i].at = "push"
  /\ flight' = flight \cup (Instances \X {tx[i].of})
  /\ tx' = [tx EXCEPT ![i] = NoTx]
  /\ UNCHANGED <<feed, last, lost, reader, seen>>

\* There is no Redis, or it fails: only this instance is told.
PublishHere(i) ==
  /\ tx[i].at = "push"
  /\ reader' = Woken(i)
  /\ lost' = lost \cup {tx[i].of}
  /\ tx' = [tx EXCEPT ![i] = NoTx]
  /\ UNCHANGED <<feed, last, flight, seen>>

Deliver(i, e) ==
  /\ <<i, e>> \in flight
  /\ flight' = flight \ {<<i, e>>}
  /\ reader' = Woken(i)
  /\ UNCHANGED <<feed, last, tx, lost, seen>>

\* Redis keeps nothing for an instance that is not listening just then.
Drop(i, e) ==
  /\ <<i, e>> \in flight
  /\ flight' = flight \ {<<i, e>>}
  /\ lost' = lost \cup {e}
  /\ UNCHANGED <<feed, last, tx, reader, seen>>

-----------------------------------------------------------------------------
(* A client's request.                                                     *)

\* The messages behind the cursor, as many as a page holds.
Page(cursor) ==
  {m \in feed : /\ m.seq > cursor
                /\ Cardinality({n \in feed : n.seq > cursor /\ n.seq <= m.seq}) <= PageSize}

\* Mutant of Ends: the cursor moves to the newest number.
EndsNewest(r, page) ==
  /\ seen' = [seen EXCEPT ![r] = @ \cup {m.of : m \in page}]
  /\ reader' = [reader EXCEPT ![r] = [at |-> "idle", hub |-> Nothing, woken |-> FALSE,
                                      cursor |-> last]]

\* The answer: the client goes on from the last message of the page.
Ends(r, page) ==
  /\ seen' = [seen EXCEPT ![r] = @ \cup {m.of : m \in page}]
  /\ \E cursor \in IF page = {} THEN {reader[r].cursor} ELSE {m.seq : m \in page} :
       /\ \A m \in page : m.seq <= cursor
       /\ reader' = [reader EXCEPT ![r] = [at |-> "idle", hub |-> Nothing, woken |-> FALSE,
                                           cursor |-> cursor]]

\* The first reading; without wait an empty page is an answer too.
Poll(r) ==
  /\ reader[r].at = "idle"
  /\ LET page == Page(reader[r].cursor) IN
       IF page = {} THEN reader' = [reader EXCEPT ![r].at = "empty"] /\ UNCHANGED seen
                    ELSE Ends(r, page)
  /\ UNCHANGED <<feed, last, tx, flight, lost>>

Subscribe(r, i) ==
  /\ reader[r].at = "empty"
  /\ reader' = [reader EXCEPT ![r].at = "subscribed", ![r].hub = i]
  /\ UNCHANGED <<feed, last, tx, flight, lost, seen>>

\* Mutant of Reread: the request waits without reading again.
WaitAtOnce(r) ==
  /\ reader[r].at = "subscribed"
  /\ reader' = [reader EXCEPT ![r].at = "waiting"]
  /\ UNCHANGED <<feed, last, tx, flight, lost, seen>>

Reread(r) ==
  /\ reader[r].at = "subscribed"
  /\ LET page == Page(reader[r].cursor) IN
       IF page = {} THEN reader' = [reader EXCEPT ![r].at = "waiting"] /\ UNCHANGED seen
                    ELSE Ends(r, page)
  /\ UNCHANGED <<feed, last, tx, flight, lost>>

\* Woken, it reads the feed once more.
Wake(r) ==
  /\ reader[r].at = "waiting"
  /\ reader[r].woken
  /\ Ends(r, Page(reader[r].cursor))
  /\ UNCHANGED <<feed, last, tx, flight, lost>>

\* The wait is over, or the client has gone: nothing was read.
Leave(r) ==
  /\ reader[r].at # "idle"
  /\ Ends(r, {})
  /\ UNCHANGED <<feed, last, tx, flight, lost>>

-----------------------------------------------------------------------------

\* An instance stops: its transaction is rolled back, its requests end, and
\* what it has not pushed it never will.
Stop(i) ==
  /\ tx' = [tx EXCEPT ![i] = NoTx]
  /\ lost' = IF tx[i].at = "push" THEN lost \cup {tx[i].of} ELSE lost
  /\ flight' = {f \in flight : f[1] # i}
  /\ reader' = [r \in Readers |-> IF reader[r].hub = i
                                  THEN [at |-> "idle", hub |-> Nothing, woken |-> FALSE,
                                        cursor |-> reader[r].cursor]
                                  ELSE reader[r]]
  /\ UNCHANGED <<feed, last, seen>>

Serve(r) == (\E i \in Instances : Subscribe(r, i)) \/ Reread(r) \/ Wake(r)

Next ==
  \/ \E i \in Instances :
       \/ \E e \in Events : AppendMessage(i, e) \/ Deliver(i, e) \/ Drop(i, e)
       \/ Number(i) \/ Insert(i) \/ Rollback(i) \/ Publish(i) \/ PublishHere(i) \/ Stop(i)
  \/ \E r \in Readers : Poll(r) \/ Serve(r) \/ Leave(r)

Spec == Init /\ [][Next]_vars

\* A client asks again and again, and every wait has an end.
Fairness == \A r \in Readers : WF_vars(Poll(r)) /\ WF_vars(Leave(r))

-----------------------------------------------------------------------------

\* An event has one message, and the numbers have neither gaps nor repeats.
FeedIsNumbered ==
  /\ \A m, n \in feed : m.of = n.of \/ m.seq = n.seq => m = n
  /\ {m.seq : m \in feed} = 1..last

\* What is behind a client's cursor, the client has been answered with: no
\* message appears below a number that was readable.
CursorMissesNothing ==
  \A r \in Readers, m \in feed : m.seq <= reader[r].cursor => m.of \in seen[r]

\* Nobody sleeps over a message: a request that waits while there is something
\* for it is woken, or will be, or the news was lost on the way.
SleepersAreWoken ==
  \A r \in Readers, m \in feed :
    reader[r].at = "waiting" /\ m.seq > reader[r].cursor =>
      \/ reader[r].woken
      \/ \E i \in Instances : tx[i].at = "push" /\ tx[i].of = m.of
      \/ <<reader[r].hub, m.of>> \in flight
      \/ m.of \in lost

\* Every message is read by every client that goes on asking, whatever is
\* lost between the instances.
EveryMessageIsRead ==
  \A r \in Readers, e \in Events : (\E m \in feed : m.of = e) ~> e \in seen[r]

=============================================================================
