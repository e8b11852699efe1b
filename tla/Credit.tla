------------------------------- MODULE Credit -------------------------------
(***************************************************************************)
(* Credits and their payments.  A payment is charged to the wallet of the  *)
(* borrower, in another service, and then recorded here, in a transaction  *)
(* of its own; the service may stop in between, and the client repeats the *)
(* request with its idempotency key.                                       *)
(***************************************************************************)
EXTENDS Integers, FiniteSets, Amounts

CONSTANTS
  Users, Operators,   \* operators may issue a credit to another user
  Credits, Keys, Calls,
  Amounts,            \* of requests; not positive ones among them
  Width,              \* of an unsigned integer, in bits
  MaxMonth            \* bound of the term and of the time, in months

VARIABLES
  credits,   \* table credit
  payments,  \* table payment
  charges,   \* operations of the wallet service, with the credit they name
  asked,     \* requests that passed the check so far; recorded nowhere
  pay,       \* the request each call serves
  month      \* the time

vars == <<credits, payments, charges, asked, pay, month>>

NoCredit == [balance |-> 0]
NoCall   == [at |-> "idle"]

\* passed: the spans of thirty days between created and lastPaid.
CreditRow == [owner : Users, creator : Users, kind : {"ANN", "DYN"}, balance : Nat,
              initial : Nat, paid : Nat, term : 0..MaxMonth,
              created : 0..MaxMonth, lastPaid : -1..MaxMonth, passed : Nat]

Request == [user : Users, key : Keys, value : Amounts, credit : Credits]

TypeOK ==
  /\ credits \in [Credits -> {NoCredit} \cup CreditRow]
  /\ payments \subseteq [credit : Credits, key : Keys, amount : Amounts]
  /\ charges \subseteq Request /\ asked \subseteq Request
  /\ pay \in [Calls -> {NoCall} \cup
       [at : {"checked", "charged"}, user : Users, credit : Credits, key : Keys, amount : Amounts]]
  /\ month \in 0..MaxMonth

Init ==
  /\ credits = [c \in Credits |-> NoCredit]
  /\ payments = {} /\ charges = {} /\ asked = {}
  /\ pay = [p \in Calls |-> NoCall]
  /\ month = 0

Exists(c) == credits[c] # NoCredit

-----------------------------------------------------------------------------
(* A new credit, part of which may be paid already.                        *)

Validate(r) ==
  /\ r.balance > 0
  /\ r.paid >= 0 /\ r.paid < r.balance
  /\ r.term > 1 /\ r.term <= MaxMonth

CanActOnBehalfOf(u, owner) == u = owner \/ u \in Operators

Create(c, u, r) ==
  /\ ~Exists(c)
  /\ credits' = [credits EXCEPT ![c] =
       [owner |-> r.owner, creator |-> u, kind |-> r.kind, balance |-> r.balance,
        initial |-> r.paid, paid |-> r.paid, term |-> r.term,
        created |-> month, lastPaid |-> -1, passed |-> 0]]

CreateCredit(c, u, r) ==
  /\ Validate(r) /\ CanActOnBehalfOf(u, r.owner)
  /\ Create(c, u, r)
  /\ UNCHANGED <<payments, charges, asked, pay, month>>

-----------------------------------------------------------------------------
(* The schedule of what is left to pay.  The value of an instalment is     *)
(* left out; the number of instalments is an unsigned difference.          *)

MayRead(c, u) ==
  /\ Exists(c)
  /\ CanActOnBehalfOf(u, credits[c].owner) \/ credits[c].creator = u

\* Whole months back are counted as spans of thirty days: after a February
\* there may be one fewer than months, later one more.  (Bound: after six
\* years the count is further ahead.)
Spans(months) == {n \in 0..months + 1 : n >= months - 1}

PaidMonth(r) == r.passed

\* Mutant of TermIsOver: the last month still counts.
TermHasPassed(r) == PaidMonth(r) > r.term
TermIsOver(r) == PaidMonth(r) >= r.term

HasSchedule(r) ==
  /\ r.kind = "ANN" /\ r.term \in 1..MaxMonth
  /\ r.paid < r.balance
  /\ ~TermIsOver(r)

Instalments(r) == (r.term - PaidMonth(r)) % 2^Width

\* The first is due on the day of the last payment, or now if there is none;
\* from there on months are those of the calendar.
LastDue(r) == (IF r.lastPaid < 0 THEN month ELSE r.lastPaid) + Instalments(r) - 1

-----------------------------------------------------------------------------
(* A payment: the check, the charge and the record are steps of their own. *)

Begin(p, c, u, key, amount) ==
  /\ pay[p] = NoCall
  /\ amount > 0
  /\ Exists(c) /\ credits[c].owner = u
  /\ amount <= credits[c].balance - credits[c].paid
  /\ pay' = [pay EXCEPT ![p] =
       [at |-> "checked", user |-> u, credit |-> c, key |-> key, amount |-> amount]]
  /\ asked' = asked \cup {[user |-> u, key |-> key, value |-> amount, credit |-> c]}
  /\ UNCHANGED <<credits, payments, charges, month>>

\* What the call asks of the wallet.
Debit(p) ==
  [user |-> pay[p].user, key |-> pay[p].key, value |-> pay[p].amount, credit |-> pay[p].credit]

Charged(u, key) == \E h \in charges : h.user = u /\ h.key = key

\* The wallet finds the key or charges the amount, unless there are no funds.
WalletCredit(p) ==
  /\ pay[p].at = "checked"
  /\ charges' = IF Charged(pay[p].user, pay[p].key) THEN charges ELSE charges \cup {Debit(p)}
  /\ pay' = [pay EXCEPT ![p].at = "charged"]
  /\ UNCHANGED <<credits, payments, asked, month>>

\* Refused by the wallet, unanswered, or the service stops: the client may
\* repeat the request, whether or not it was charged.
GiveUp(p) ==
  /\ pay[p] # NoCall
  /\ pay' = [pay EXCEPT ![p] = NoCall]
  /\ UNCHANGED <<credits, payments, asked, month>>
  /\ \/ UNCHANGED charges
     \/ /\ pay[p].at = "checked" /\ ~Charged(pay[p].user, pay[p].key)
        /\ charges' = charges \cup {Debit(p)}

AlreadyRecorded(key) == \E r \in payments : r.key = key

\* CHECK (already_paid < balance).
PaidValid(c, amount) == credits[c].paid + amount < credits[c].balance

\* Mutant of RecordPayment: the debt goes down before the key is looked at.
RecordFirst(p) ==
  /\ pay[p].at = "charged"
  /\ PaidValid(pay[p].credit, pay[p].amount)
  /\ payments' = IF AlreadyRecorded(pay[p].key) THEN payments ELSE
       payments \cup {[credit |-> pay[p].credit, key |-> pay[p].key, amount |-> pay[p].amount]}
  /\ credits' = [credits EXCEPT ![pay[p].credit].paid = @ + pay[p].amount]

\* One transaction: the payment with its unique key, and the credit.
RecordPayment(p) ==
  /\ pay[p].at = "charged"
  /\ ~AlreadyRecorded(pay[p].key)
  /\ PaidValid(pay[p].credit, pay[p].amount)
  /\ payments' = payments \cup
       {[credit |-> pay[p].credit, key |-> pay[p].key, amount |-> pay[p].amount]}
  /\ \E passed \in Spans(month - credits[pay[p].credit].created) :
       credits' = [credits EXCEPT ![pay[p].credit].paid = @ + pay[p].amount,
                                  ![pay[p].credit].lastPaid = month,
                                  ![pay[p].credit].passed = passed]

\* The answer is the same if the key was recorded before.
PayCredit(p) ==
  /\ \/ RecordPayment(p)
     \/ /\ pay[p].at = "charged" /\ AlreadyRecorded(pay[p].key)
        /\ UNCHANGED <<credits, payments>>
  /\ pay' = [pay EXCEPT ![p] = NoCall]
  /\ UNCHANGED <<charges, asked, month>>

Tick ==
  /\ month < MaxMonth /\ month' = month + 1
  /\ UNCHANGED <<credits, payments, charges, asked, pay>>

Requests == [owner : Users, kind : {"ANN", "DYN"}, balance : Amounts,
             paid : Amounts \cup {0}, term : 0..MaxMonth]

Next ==
  \/ \E c \in Credits, u \in Users, r \in Requests : CreateCredit(c, u, r)
  \/ \E p \in Calls :
       \/ \E c \in Credits, u \in Users, key \in Keys, amount \in Amounts :
            Begin(p, c, u, key, amount)
       \/ WalletCredit(p) \/ GiveUp(p) \/ PayCredit(p)
  \/ Tick

Spec == Init /\ [][Next]_vars

-----------------------------------------------------------------------------

PaymentsOf(c) == {r \in payments : r.credit = c}

\* A client that names two requests by one key.
KeyIsReused(u, key) ==
  \E a, b \in asked : a # b /\ {a.user, b.user} = {u} /\ {a.key, b.key} = {key}

\* What a credit says is paid is what its payments add up to, and the wallet
\* of its borrower was charged for each of them, once, with that amount and
\* for that credit, however requests overlap, repeat and stop.  Excepted is a
\* key that names two requests: the wallet answers the second with the charge
\* of the first, and the second's own amount is recorded.
DebtFollowsCharges ==
  /\ \A r, s \in payments : r.key = s.key => r = s
  /\ \A c \in Credits : Exists(c) =>
       /\ credits[c].paid
            = credits[c].initial + Total(PaymentsOf(c), [r \in PaymentsOf(c) |-> r.amount])
       /\ \A r \in PaymentsOf(c) : \E h \in charges :
            /\ h.user = credits[c].owner /\ h.key = r.key
            /\ (h.value = r.amount /\ h.credit = c) \/ KeyIsReused(h.user, h.key)

\* A schedule has an instalment and no more of them than the term has months:
\* the unsigned difference does not wrap.  Once something was paid, the last
\* one is due before the term has ended or in the month it ends, though the
\* months behind are counted by thirty days.  (A schedule of a credit that
\* nothing was paid of begins whenever it is asked for.)
ScheduleFitsTerm ==
  \A c \in Credits, u \in Users :
    MayRead(c, u) /\ HasSchedule(credits[c]) =>
      /\ Instalments(credits[c]) \in 1..credits[c].term
      /\ credits[c].lastPaid >= 0
           => LastDue(credits[c]) <= credits[c].created + credits[c].term

\* A charge that is not recorded yet can be recorded by a repeat.  (The code
\* breaks it: a payment of the whole debt is charged and never recorded.)
ChargedCanBeRecorded ==
  \A h \in charges : AlreadyRecorded(h.key) \/ PaidValid(h.credit, h.value)

=============================================================================
