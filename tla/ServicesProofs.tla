--------------------------- MODULE ServicesProofs ---------------------------
(***************************************************************************)
(* Proofs about the parts of Services, for any sets of users, calls, codes *)
(* and accounts.  A section for each part: what is known of its tables and *)
(* of the calls on their way, that its steps keep it, and what follows.    *)
(***************************************************************************)
EXTENDS Services, AmountsProofs, WellFoundedInduction

\* A step of the services is a step of each part, or leaves it alone.
LEMMA StepOfEach ==
  ASSUME [ServicesNext]_services
  PROVE  /\ [R!Next]_creditVars /\ [T!Next]_tokensVars /\ [K!Next]_keysVars
         /\ [C!Next]_contactsVars /\ [I!Next]_identitiesVars
         /\ [B!Next]_bindingsVars /\ [N!Next]_preferencesVars /\ [L!Next]_locksVars
         /\ [Next]_vars
<1> USE DEF CreditStep, TokensStep, KeysStep, ContactsStep, IdentitiesStep,
            BindingsStep, PreferencesStep, LocksStep, FeedStep
<1>1. CASE ServicesNext
  BY <1>1, Zenon DEF ServicesNext
<1>2. CASE UNCHANGED services
  BY <1>2, Zenon DEF services
<1> QED
  BY <1>1, <1>2

-----------------------------------------------------------------------------
(* Credits.  A payment is of a credit that exists, under a key its owner   *)
(* was charged with, and a call that was checked knows the owner.  Calls,  *)
(* charges and payments are all of requests that were asked.               *)

Lent == [owner : Users, creator : Users, kind : {"ANN", "DYN"}, balance : Nat,
         initial : Nat, paid : Nat, term : 0..MaxMonth,
         created : 0..MaxMonth, lastPaid : -1..MaxMonth, passed : Nat]

PayCall == [at : {"checked", "charged"}, user : Users, credit : Credits, key : PaymentKeys, amount : Sums]

PaidTo(c) == {r \in payments : r.credit = c}

CreditKnown(c) ==
  credits[c] # R!NoCredit =>
    /\ credits[c].balance > 0
    /\ credits[c].created <= month
    /\ credits[c].lastPaid = -1 \/ credits[c].created + credits[c].passed + 1 >= credits[c].lastPaid
    /\ credits[c].paid
         = credits[c].initial + Total(PaidTo(c), [r \in PaidTo(c) |-> r.amount])

\* The request that a payment was made for.
RequestOf(r) ==
  [user |-> credits[r.credit].owner, key |-> r.key, value |-> r.amount, credit |-> r.credit]

PaymentKnown(r) ==
  /\ r.amount > 0
  /\ credits[r.credit] # R!NoCredit
  /\ R!Charged(credits[r.credit].owner, r.key)
  /\ RequestOf(r) \in asked

PayKnown(p) ==
  pay[p] # R!NoCall =>
    /\ pay[p].amount > 0
    /\ credits[pay[p].credit] # R!NoCredit
    /\ credits[pay[p].credit].owner = pay[p].user
    /\ R!Debit(p) \in asked
    /\ pay[p].at = "charged" => R!Charged(pay[p].user, pay[p].key)

CreditInv ==
  /\ R!TypeOK /\ IsFiniteSet(payments)
  /\ charges \subseteq asked
  /\ \A r, s \in payments : r.key = s.key => r = s
  /\ \A c \in Credits : CreditKnown(c)
  /\ \A r \in payments : PaymentKnown(r)
  /\ \A p \in Calls : PayKnown(p)

\* No credit has been issued yet.
LEMMA CreditStart == R!Init => CreditInv
<1> SUFFICES ASSUME R!Init PROVE CreditInv
  OBVIOUS
<1>1. R!TypeOK
  BY CreditAssumption DEF R!Init, R!TypeOK, R!Request
<1>2. IsFiniteSet(payments)
  BY FS_EmptySet DEF R!Init
<1>3. /\ \A c \in Credits : CreditKnown(c)
      /\ \A r \in payments : PaymentKnown(r)
      /\ \A p \in Calls : PayKnown(p)
      /\ charges \subseteq asked /\ \A r, s \in payments : r.key = s.key => r = s
  BY DEF R!Init, CreditKnown, PaymentKnown, PayKnown
<1> QED
  BY <1>1, <1>2, <1>3 DEF CreditInv

\* The sum of the credit's module is the sum of Amounts.
LEMMA SameTotal == \A set, value : R!Total(set, value) = Total(set, value)
BY DEF R!Total, R!Units, R!Cardinality, Total, Units, Cardinality

\* Of the charge under the key of a payment: it is of the same request, or the
\* key names two.
LEMMA ChargeOfPayment ==
  ASSUME CreditInv, NEW r \in payments
  PROVE  \E h \in charges :
           /\ h.user = credits[r.credit].owner /\ h.key = r.key
           /\ (h.value = r.amount /\ h.credit = r.credit) \/ R!KeyIsReused(h.user, h.key)
<1>1. PaymentKnown(r) /\ charges \subseteq asked
  BY DEF CreditInv
<1>2. PICK h \in charges : h.user = credits[r.credit].owner /\ h.key = r.key
  BY <1>1 DEF PaymentKnown, R!Charged
<1>3. PICK q : q = RequestOf(r)
  OBVIOUS
<1>4. /\ q \in asked /\ h \in asked
      /\ q.user = h.user /\ q.key = h.key /\ q.value = r.amount /\ q.credit = r.credit
  BY <1>1, <1>2, <1>3 DEF PaymentKnown, RequestOf
<1>5. h = q \/ R!KeyIsReused(h.user, h.key)
  BY <1>4 DEF R!KeyIsReused
<1> QED
  BY <1>2, <1>4, <1>5

\* What a credit is worth is what was lent, less what was charged and recorded.
LEMMA CreditAddsUp == CreditInv => DebtFollowsCharges
<1> SUFFICES ASSUME CreditInv PROVE R!DebtFollowsCharges
  BY DEF DebtFollowsCharges
<1>1. ASSUME NEW c \in Credits, R!Exists(c)
      PROVE  /\ credits[c].paid = credits[c].initial
                  + R!Total(R!PaymentsOf(c), [r \in R!PaymentsOf(c) |-> r.amount])
             /\ \A r \in R!PaymentsOf(c) : \E h \in charges :
                  /\ h.user = credits[c].owner /\ h.key = r.key
                  /\ (h.value = r.amount /\ h.credit = c) \/ R!KeyIsReused(h.user, h.key)
  <2>1. CreditKnown(c)
    BY DEF CreditInv
  <2>2. R!PaymentsOf(c) = PaidTo(c)
    BY DEF R!PaymentsOf, PaidTo
  <2>3. R!Total(PaidTo(c), [r \in PaidTo(c) |-> r.amount]) = Total(PaidTo(c), [r \in PaidTo(c) |-> r.amount])
    BY SameTotal
  <2>4. \A r \in PaidTo(c) : r \in payments /\ r.credit = c
    BY DEF PaidTo
  <2>5. \A r \in PaidTo(c) : \E h \in charges :
          /\ h.user = credits[c].owner /\ h.key = r.key
          /\ (h.value = r.amount /\ h.credit = c) \/ R!KeyIsReused(h.user, h.key)
    BY <2>4, ChargeOfPayment
  <2> QED
    BY <1>1, <2>1, <2>2, <2>3, <2>5 DEF CreditKnown, R!Exists
<1>2. \A r, s \in payments : r.key = s.key => r = s
  BY DEF CreditInv
<1> QED
  BY <1>1, <1>2 DEF R!DebtFollowsCharges

\* A remainder that is smaller than what is divided by.
LEMMA SmallRemainder ==
  ASSUME NEW a \in Nat, NEW b \in Nat, a < b
  PROVE  a % b = a
OBVIOUS

\* The instalments of a schedule end with the term.
LEMMA CreditFitsTerm == CreditInv => ScheduleFitsTerm
<1> SUFFICES ASSUME CreditInv, NEW c \in Credits, R!Exists(c), R!HasSchedule(credits[c])
             PROVE  /\ R!Instalments(credits[c]) \in 1..credits[c].term
                    /\ credits[c].lastPaid >= 0
                         => R!LastDue(credits[c]) <= credits[c].created + credits[c].term
  BY DEF ScheduleFitsTerm, R!ScheduleFitsTerm, R!MayRead
<1> DEFINE r == credits[c]
<1>1. r \in Lent /\ CreditKnown(c) /\ r # R!NoCredit
  BY DEF CreditInv, R!TypeOK, R!Exists, R!CreditRow, Lent
<1>2. MaxMonth \in Nat /\ 2^Width \in Nat /\ MaxMonth < 2^Width
  BY CreditAssumption
<1>3. /\ r.term \in 1..MaxMonth /\ r.lastPaid \in -1..MaxMonth /\ r.created \in 0..MaxMonth
      /\ r.passed \in Nat
  BY <1>1 DEF R!HasSchedule, Lent
<1>4. R!PaidMonth(r) \in Nat /\ R!PaidMonth(r) < r.term
  <2>1. R!PaidMonth(r) \in Nat
    BY <1>3 DEF R!PaidMonth
  <2> QED
    BY <1>2, <1>3, <2>1 DEF R!HasSchedule, R!TermIsOver
<1>5. /\ r.term - R!PaidMonth(r) \in 1..r.term /\ r.term - R!PaidMonth(r) \in Nat
      /\ r.term - R!PaidMonth(r) < 2^Width
  BY <1>2, <1>3, <1>4
<1>6. R!Instalments(r) = r.term - R!PaidMonth(r)
  <2> HIDE DEF r
  <2> QED
    BY <1>2, <1>5, SmallRemainder DEF R!Instalments
<1>7. ASSUME r.lastPaid >= 0 PROVE R!LastDue(r) <= r.created + r.term
  <2>1. r.created + r.passed + 1 >= r.lastPaid
    BY <1>1, <1>3, <1>7 DEF CreditKnown
  <2>2. R!LastDue(r) = r.lastPaid + (r.term - r.passed) - 1
    BY <1>6, <1>7, <1>3 DEF R!LastDue, R!PaidMonth
  <2> HIDE DEF r
  <2> QED
    BY <1>2, <1>3, <2>1, <2>2
<1> QED
  BY <1>5, <1>6, <1>7

\* Amounts of requests are numbers, whatever their sign.
LEMMA RequestsAreInts ==
  ASSUME NEW r \in R!Requests
  PROVE  r.balance \in Int /\ r.paid \in Int
<1>1. r.balance \in Sums /\ r.paid \in Sums \cup {0}
  BY DEF R!Requests
<1>2. \A x \in Sums : x \in Int
  BY CreditAssumption
<1> QED
  BY <1>1, <1>2

\* Rows and calls keep their types: what is charged was positive and at most the debt.
LEMMA CreditTyped ==
  ASSUME CreditInv, [R!Next]_creditVars
  PROVE  R!TypeOK' /\ IsFiniteSet(payments')
<1>1. /\ credits \in [Credits -> {R!NoCredit} \cup Lent]
      /\ payments \subseteq [credit : Credits, key : PaymentKeys, amount : Sums]
      /\ charges \subseteq R!Request /\ asked \subseteq R!Request
      /\ pay \in [Calls -> {R!NoCall} \cup PayCall]
      /\ month \in 0..MaxMonth /\ IsFiniteSet(payments)
      /\ MaxMonth \in Nat /\ Sums \subseteq Int
  BY CreditAssumption DEF CreditInv, R!TypeOK, R!CreditRow, Lent, PayCall
<1>2. ASSUME credits' \in [Credits -> {R!NoCredit} \cup Lent],
             payments' \subseteq [credit : Credits, key : PaymentKeys, amount : Sums],
             charges' \subseteq R!Request, asked' \subseteq R!Request,
             pay' \in [Calls -> {R!NoCall} \cup PayCall],
             month' \in 0..MaxMonth
      PROVE  R!TypeOK'
  BY <1>2 DEF R!TypeOK, R!CreditRow, Lent, PayCall
<1>3. ASSUME NEW p \in Calls, NEW c \in {R!NoCall} \cup PayCall, pay' = [pay EXCEPT ![p] = c]
      PROVE  pay' \in [Calls -> {R!NoCall} \cup PayCall]
  BY <1>1, <1>3
<1>4. CASE UNCHANGED creditVars
  BY <1>1, <1>2, <1>4 DEF creditVars
<1>5. ASSUME NEW c \in Credits, NEW u \in Users, NEW r \in R!Requests, R!CreateCredit(c, u, r)
      PROVE  R!TypeOK' /\ IsFiniteSet(payments')
  <2>1. r.balance \in Nat /\ r.paid \in Nat
    <3>1. r.balance \in Int /\ r.paid \in Int
      BY RequestsAreInts
    <3>2. r.balance > 0 /\ r.paid >= 0
      BY <1>5 DEF R!CreateCredit, R!Validate
    <3> QED
      BY <3>1, <3>2
  <2>2. [owner |-> r.owner, creator |-> u, kind |-> r.kind, balance |-> r.balance,
         initial |-> r.paid, paid |-> r.paid, term |-> r.term,
         created |-> month, lastPaid |-> -1, passed |-> 0] \in Lent
    BY <1>1, <2>1 DEF Lent, R!Requests
  <2>3. credits' \in [Credits -> {R!NoCredit} \cup Lent]
    BY <1>1, <1>5, <2>2 DEF R!CreateCredit, R!Create
  <2> QED
    BY <1>1, <1>2, <1>5, <2>3 DEF R!CreateCredit
<1>6. ASSUME NEW p \in Calls, NEW c \in Credits, NEW u \in Users, NEW key \in PaymentKeys,
             NEW amount \in Sums, R!Begin(p, c, u, key, amount)
      PROVE  R!TypeOK' /\ IsFiniteSet(payments')
  <2>1. [at |-> "checked", user |-> u, credit |-> c, key |-> key, amount |-> amount] \in PayCall
    BY DEF PayCall
  <2>2. [user |-> u, key |-> key, value |-> amount, credit |-> c] \in R!Request
    BY DEF R!Request
  <2>3. asked' \subseteq R!Request
    BY <1>1, <1>6, <2>2 DEF R!Begin
  <2> QED
    BY <1>1, <1>2, <1>3, <1>6, <2>1, <2>3 DEF R!Begin
<1>7. ASSUME NEW p \in Calls, pay[p] # R!NoCall
      PROVE  pay[p] \in PayCall
  BY <1>1, <1>7
<1>8. ASSUME NEW p \in Calls, R!WalletCredit(p) PROVE R!TypeOK' /\ IsFiniteSet(payments')
  <2>1. pay[p] \in PayCall
    BY <1>7, <1>8 DEF R!WalletCredit, R!NoCall
  <2>2. [pay[p] EXCEPT !.at = "charged"] \in PayCall
    BY <2>1 DEF PayCall
  <2>3. R!Debit(p) \in R!Request
    BY <2>1 DEF PayCall, R!Debit, R!Request
  <2>4. charges' \subseteq R!Request
    BY <1>1, <1>8, <2>3 DEF R!WalletCredit
  <2>5. pay' \in [Calls -> {R!NoCall} \cup PayCall]
    BY <1>3, <1>8, <2>2 DEF R!WalletCredit
  <2> QED
    BY <1>1, <1>2, <1>8, <2>4, <2>5 DEF R!WalletCredit
<1>9. ASSUME NEW p \in Calls, R!GiveUp(p) PROVE R!TypeOK' /\ IsFiniteSet(payments')
  <2>1. pay[p] \in PayCall
    BY <1>7, <1>9 DEF R!GiveUp
  <2>2. R!Debit(p) \in R!Request
    BY <2>1 DEF PayCall, R!Debit, R!Request
  <2>3. charges' \subseteq R!Request
    BY <1>1, <1>9, <2>2 DEF R!GiveUp
  <2>4. pay' \in [Calls -> {R!NoCall} \cup PayCall]
    BY <1>3, <1>9 DEF R!GiveUp
  <2> QED
    BY <1>1, <1>2, <1>9, <2>3, <2>4 DEF R!GiveUp
<1>10. ASSUME NEW p \in Calls, R!PayCredit(p) PROVE R!TypeOK' /\ IsFiniteSet(payments')
  <2>1. pay[p] \in PayCall /\ pay[p].at = "charged"
    BY <1>7, <1>10 DEF R!PayCredit, R!RecordPayment, R!NoCall
  <2>2. /\ pay' \in [Calls -> {R!NoCall} \cup PayCall]
        /\ charges' = charges /\ asked' = asked /\ month' = month
    BY <1>3, <1>10 DEF R!PayCredit
  <2>3. CASE UNCHANGED <<credits, payments>>
    BY <1>1, <1>2, <2>2, <2>3
  <2>4. CASE R!RecordPayment(p)
    <3> DEFINE row == [credit |-> pay[p].credit, key |-> pay[p].key, amount |-> pay[p].amount]
    <3>1. row \in [credit : Credits, key : PaymentKeys, amount : Sums]
      BY <2>1 DEF PayCall
    <3>2. payments' = payments \cup {row}
      BY <2>4 DEF R!RecordPayment
    <3>3. IsFiniteSet(payments')
      BY <1>1, <3>2, FS_AddElement
    <3>4. PICK c \in Credits, a \in Sums : c = pay[p].credit /\ a = pay[p].amount
      BY <2>1 DEF PayCall
    <3>5. credits[c] \in Lent /\ a > 0
      BY <1>1, <2>1, <3>4 DEF CreditInv, PayKnown, R!NoCall
    <3>6. credits[c].paid + a \in Nat
      BY <1>1, <3>5 DEF Lent
    <3>10. PICK passed \in R!Spans(month - credits[c].created) :
             credits' = [credits EXCEPT ![c].paid = @ + a, ![c].lastPaid = month, ![c].passed = passed]
      BY <2>4, <3>4 DEF R!RecordPayment
    <3>11. passed \in Nat
      BY <1>1, <3>5 DEF R!Spans, Lent
    <3>7. [credits[c] EXCEPT !.paid = @ + a, !.lastPaid = month, !.passed = passed] \in Lent
      <4>1. month \in -1..MaxMonth
        BY <1>1
      <4>2. PICK m : m = [credits[c] EXCEPT !.paid = @ + a]
        OBVIOUS
      <4>3. m \in Lent
        BY <3>5, <3>6, <4>2 DEF Lent
      <4>4. PICK n : n = [m EXCEPT !.lastPaid = month]
        OBVIOUS
      <4>5. n \in Lent
        BY <4>1, <4>3, <4>4 DEF Lent
      <4>6. [n EXCEPT !.passed = passed] \in Lent
        BY <3>11, <4>5 DEF Lent
      <4> QED
        BY <4>2, <4>4, <4>6
    <3>8. credits' = [credits EXCEPT ![c] =
            [credits[c] EXCEPT !.paid = @ + a, !.lastPaid = month, !.passed = passed]]
      BY <1>1, <3>10
    <3>9. credits' \in [Credits -> {R!NoCredit} \cup Lent]
      BY <1>1, <3>7, <3>8
    <3> QED
      BY <1>1, <1>2, <2>2, <3>1, <3>2, <3>3, <3>9
  <2> QED
    BY <1>10, <2>3, <2>4 DEF R!PayCredit
<1>11. CASE R!Tick
  BY <1>1, <1>2, <1>11 DEF R!Tick
<1> QED
  BY <1>4, <1>5, <1>6, <1>8, <1>9, <1>10, <1>11 DEF R!Next

\* Requests and charges are never forgotten.
Grown == charges \subseteq charges' /\ asked \subseteq asked'

\* What is charged was asked, and a key is recorded once.
LEMMA CreditKeys ==
  ASSUME CreditInv, [R!Next]_creditVars
  PROVE  charges' \subseteq asked' /\ \A r, s \in payments' : r.key = s.key => r = s
<1>1. /\ charges \subseteq asked /\ \A r, s \in payments : r.key = s.key => r = s
      /\ \A p \in Calls : pay[p] # R!NoCall => R!Debit(p) \in asked
  BY DEF CreditInv, PayKnown
<1>2. CASE UNCHANGED <<payments, charges, asked>>
  BY <1>1, <1>2
<1>3. ASSUME NEW p \in Calls, NEW c \in Credits, NEW u \in Users, NEW key \in PaymentKeys,
             NEW amount \in Sums, R!Begin(p, c, u, key, amount)
      PROVE  charges' \subseteq asked' /\ UNCHANGED payments
  BY <1>1, <1>3 DEF R!Begin
<1>4. ASSUME NEW p \in Calls, R!WalletCredit(p) \/ R!GiveUp(p)
      PROVE  charges' \subseteq asked' /\ UNCHANGED payments
  <2>1. pay[p] # R!NoCall /\ UNCHANGED <<payments, asked>>
    BY <1>4 DEF R!WalletCredit, R!GiveUp, R!NoCall
  <2>2. charges' \subseteq charges \cup {R!Debit(p)}
    BY <1>4 DEF R!WalletCredit, R!GiveUp
  <2> QED
    BY <1>1, <2>1, <2>2
<1>5. ASSUME NEW p \in Calls, R!PayCredit(p)
      PROVE  charges' \subseteq asked' /\ \A r, s \in payments' : r.key = s.key => r = s
  <2>1. UNCHANGED <<charges, asked>>
    BY <1>5 DEF R!PayCredit
  <2>2. CASE R!RecordPayment(p)
    <3>1. PICK row : row = [credit |-> pay[p].credit, key |-> pay[p].key, amount |-> pay[p].amount]
      OBVIOUS
    <3>2. payments' = payments \cup {row} /\ \A r \in payments : r.key # row.key
      BY <2>2, <3>1 DEF R!RecordPayment, R!AlreadyRecorded
    <3> QED
      BY <1>1, <2>1, <3>2
  <2> QED
    BY <1>1, <1>5, <2>1, <2>2 DEF R!PayCredit
<1>6. ASSUME NEW c \in Credits, NEW u \in Users, NEW r \in R!Requests, R!CreateCredit(c, u, r)
      PROVE  UNCHANGED <<payments, charges, asked>>
  BY <1>6 DEF R!CreateCredit
<1>7. ASSUME R!Tick \/ UNCHANGED creditVars PROVE UNCHANGED <<payments, charges, asked>>
  BY <1>7 DEF R!Tick, creditVars
<1> QED
  BY <1>1, <1>2, <1>3, <1>4, <1>5, <1>6, <1>7 DEF R!Next

\* The rest of the invariant, step by step.
LEMMA CreditStands ==
  ASSUME CreditInv, [R!Next]_creditVars
  PROVE  /\ \A c \in Credits : CreditKnown(c)'
         /\ \A r \in payments' : PaymentKnown(r)'
         /\ \A p \in Calls : PayKnown(p)'
<1> USE DEF Grown
<1>1. /\ credits \in [Credits -> {R!NoCredit} \cup Lent]
      /\ payments \subseteq [credit : Credits, key : PaymentKeys, amount : Sums]
      /\ pay \in [Calls -> {R!NoCall} \cup PayCall]
      /\ month \in 0..MaxMonth /\ IsFiniteSet(payments)
      /\ MaxMonth \in Nat /\ Sums \subseteq Int
      /\ \A c \in Credits : CreditKnown(c)
      /\ \A r \in payments : PaymentKnown(r)
      /\ \A p \in Calls : PayKnown(p)
  BY CreditAssumption DEF CreditInv, R!TypeOK, R!CreditRow, Lent, PayCall
\* What charges grow by leaves them.
<1>2. ASSUME Grown, NEW u, NEW key, R!Charged(u, key)
      PROVE  R!Charged(u, key)'
  BY <1>2 DEF R!Charged
<1>3. ASSUME NEW c \in Credits, credits'[c] = credits[c], payments' = payments, month <= month',
             month' \in 0..MaxMonth
      PROVE  CreditKnown(c)'
  <2>1. PaidTo(c)' = PaidTo(c)
    BY <1>3 DEF PaidTo
  <2>2. credits[c] # R!NoCredit => credits[c].created \in Int
    BY <1>1 DEF Lent
  <2> QED
    BY <1>1, <1>3, <2>1, <2>2 DEF CreditKnown
<1>4. ASSUME Grown, NEW r \in payments, credits'[r.credit] = credits[r.credit]
      PROVE  PaymentKnown(r)'
  BY <1>1, <1>2, <1>4 DEF PaymentKnown, RequestOf
<1>5. ASSUME Grown, NEW p \in Calls, pay'[p] = pay[p],
             pay[p] # R!NoCall => credits'[pay[p].credit] = credits[pay[p].credit]
      PROVE  PayKnown(p)'
  BY <1>1, <1>2, <1>5 DEF PayKnown, R!Debit
<1>6. ASSUME NEW p \in Calls, pay'[p] = R!NoCall PROVE PayKnown(p)'
  BY <1>6 DEF PayKnown
<1>7. CASE UNCHANGED creditVars
  BY <1>1, <1>3, <1>4, <1>5, <1>7 DEF creditVars
<1>8. ASSUME NEW c \in Credits, NEW u \in Users, NEW r \in R!Requests, R!CreateCredit(c, u, r)
      PROVE  /\ \A d \in Credits : CreditKnown(d)'
             /\ \A s \in payments' : PaymentKnown(s)'
             /\ \A p \in Calls : PayKnown(p)'
  <2>1. /\ credits[c] = R!NoCredit /\ r.balance > 0 /\ r.paid \in Nat
        /\ UNCHANGED <<payments, charges, asked, pay, month>>
        /\ \A d \in Credits : d # c => credits'[d] = credits[d]
        /\ credits'[c] = [owner |-> r.owner, creator |-> u, kind |-> r.kind, balance |-> r.balance,
             initial |-> r.paid, paid |-> r.paid, term |-> r.term, created |-> month, lastPaid |-> -1,
             passed |-> 0]
    <3>1. r.paid \in Int
      BY RequestsAreInts
    <3>2. /\ credits[c] = R!NoCredit /\ r.balance > 0 /\ r.paid >= 0
          /\ UNCHANGED <<payments, charges, asked, pay, month>>
      BY <1>8 DEF R!CreateCredit, R!Create, R!Exists, R!Validate
    <3>3. credits' = [credits EXCEPT ![c] =
            [owner |-> r.owner, creator |-> u, kind |-> r.kind, balance |-> r.balance,
             initial |-> r.paid, paid |-> r.paid, term |-> r.term, created |-> month, lastPaid |-> -1,
             passed |-> 0]]
      BY <1>8 DEF R!CreateCredit, R!Create
    <3> QED
      BY <1>1, <3>1, <3>2, <3>3
  <2>2. PaidTo(c)' = {}
    BY <1>1, <2>1 DEF PaidTo, PaymentKnown
  <2>3. Total(PaidTo(c)', [s \in PaidTo(c)' |-> s.amount]) = 0
    BY <2>2, TotalEmpty
  <2>4. CreditKnown(c)'
    BY <1>1, <2>1, <2>3 DEF CreditKnown
  <2>5. \A d \in Credits : CreditKnown(d)'
    BY <1>1, <1>3, <2>1, <2>4
  <2>6. \A s \in payments : s.credit # c /\ s.credit \in Credits
    BY <1>1, <2>1 DEF PaymentKnown
  <2>7. \A s \in payments' : PaymentKnown(s)'
    BY <1>4, <2>1, <2>6
  <2>8. \A p \in Calls : pay[p] # R!NoCall => pay[p].credit # c /\ pay[p].credit \in Credits
    BY <1>1, <2>1 DEF PayKnown, PayCall
  <2>9. \A p \in Calls : PayKnown(p)'
    BY <1>5, <2>1, <2>8
  <2> QED
    BY <2>5, <2>7, <2>9
<1>9. ASSUME NEW p \in Calls, NEW n, pay' = [pay EXCEPT ![p] = n], PayKnown(p)',
             UNCHANGED <<credits, payments, month>>, Grown
      PROVE  /\ \A d \in Credits : CreditKnown(d)'
             /\ \A s \in payments' : PaymentKnown(s)'
             /\ \A q \in Calls : PayKnown(q)'
  <2>1. \A q \in Calls : q # p => pay'[q] = pay[q]
    BY <1>1, <1>9
  <2>2. \A q \in Calls : PayKnown(q)'
    BY <1>5, <1>9, <2>1
  <2>3. \A d \in Credits : CreditKnown(d)'
    BY <1>1, <1>3, <1>9
  <2>4. \A s \in payments' : PaymentKnown(s)'
    BY <1>4, <1>9
  <2> QED
    BY <2>2, <2>3, <2>4
<1>10. ASSUME NEW p \in Calls, NEW c \in Credits, NEW u \in Users, NEW key \in PaymentKeys,
             NEW amount \in Sums, R!Begin(p, c, u, key, amount)
       PROVE  /\ \A d \in Credits : CreditKnown(d)'
              /\ \A s \in payments' : PaymentKnown(s)'
              /\ \A q \in Calls : PayKnown(q)'
  <2>1. /\ pay' = [pay EXCEPT ![p] =
             [at |-> "checked", user |-> u, credit |-> c, key |-> key, amount |-> amount]]
        /\ UNCHANGED <<credits, payments, charges, month>>
        /\ asked' = asked \cup {[user |-> u, key |-> key, value |-> amount, credit |-> c]}
        /\ amount > 0 /\ credits[c] # R!NoCredit /\ credits[c].owner = u
    BY <1>10 DEF R!Begin, R!Exists
  <2>2. pay'[p] = [at |-> "checked", user |-> u, credit |-> c, key |-> key, amount |-> amount]
    BY <1>1, <2>1
  <2>3. PayKnown(p)'
    BY <2>1, <2>2 DEF PayKnown, R!Debit
  <2> QED
    BY <1>9, <2>1, <2>3
<1>11. ASSUME NEW p \in Calls, R!WalletCredit(p)
       PROVE  /\ \A d \in Credits : CreditKnown(d)'
              /\ \A s \in payments' : PaymentKnown(s)'
              /\ \A q \in Calls : PayKnown(q)'
  <2>1. pay[p] \in PayCall /\ pay[p].at = "checked" /\ pay[p] # R!NoCall
    BY <1>1, <1>11 DEF R!WalletCredit, R!NoCall
  <2>2. PICK r \in PayCall : r = pay[p]
    BY <2>1
  <2>3. PICK n : n = [r EXCEPT !.at = "charged"]
    OBVIOUS
  <2>4. n.user = r.user /\ n.key = r.key /\ n.amount = r.amount /\ n.credit = r.credit
    BY <2>3 DEF PayCall
  <2>5. /\ pay' = [pay EXCEPT ![p] = n] /\ pay'[p] = n /\ UNCHANGED <<credits, payments, asked, month>>
        /\ charges' = IF R!Charged(r.user, r.key) THEN charges
                      ELSE charges \cup {[user |-> r.user, key |-> r.key,
                                          value |-> r.amount, credit |-> r.credit]}
    BY <1>1, <1>11, <2>2, <2>3 DEF R!WalletCredit, R!Debit
  <2>6. Grown /\ R!Charged(r.user, r.key)'
    <3>1. CASE R!Charged(r.user, r.key)
      BY <2>5, <3>1 DEF R!Charged
    <3>2. CASE ~R!Charged(r.user, r.key)
      <4>1. PICK h : h = [user |-> r.user, key |-> r.key, value |-> r.amount, credit |-> r.credit]
        OBVIOUS
      <4>2. h.user = r.user /\ h.key = r.key /\ charges' = charges \cup {h}
        BY <2>5, <3>2, <4>1
      <4>3. asked' = asked
        BY <2>5
      <4>4. h \in charges' /\ charges \subseteq charges'
        BY <4>2
      <4> QED
        BY <4>2, <4>3, <4>4 DEF R!Charged
    <3> QED
      BY <3>1, <3>2
  <2>7. PayKnown(p)'
    BY <1>1, <2>1, <2>2, <2>4, <2>5, <2>6 DEF PayKnown, R!Debit
  <2> QED
    BY <1>9, <2>5, <2>6, <2>7
<1>12. ASSUME NEW p \in Calls, R!GiveUp(p)
       PROVE  /\ \A d \in Credits : CreditKnown(d)'
              /\ \A s \in payments' : PaymentKnown(s)'
              /\ \A q \in Calls : PayKnown(q)'
  <2>1. /\ pay' = [pay EXCEPT ![p] = R!NoCall] /\ UNCHANGED <<credits, payments, month>>
        /\ Grown
    BY <1>12 DEF R!GiveUp
  <2>2. PayKnown(p)'
    BY <1>1, <1>6, <2>1
  <2> QED
    BY <1>9, <2>1, <2>2
<1>13. ASSUME NEW p \in Calls, R!PayCredit(p)
       PROVE  /\ \A d \in Credits : CreditKnown(d)'
              /\ \A s \in payments' : PaymentKnown(s)'
              /\ \A q \in Calls : PayKnown(q)'
  <2>1. /\ pay[p] \in PayCall /\ pay[p].at = "charged" /\ pay[p] # R!NoCall
        /\ pay' = [pay EXCEPT ![p] = R!NoCall] /\ UNCHANGED <<charges, asked, month>>
    BY <1>1, <1>13 DEF R!PayCredit, R!RecordPayment, R!NoCall
  <2>2. CASE UNCHANGED <<credits, payments>>
    BY <1>1, <1>6, <1>9, <2>1, <2>2
  <2>3. CASE R!RecordPayment(p)
    <3>1. PICK c \in Credits, a \in Sums, key \in PaymentKeys :
            c = pay[p].credit /\ a = pay[p].amount /\ key = pay[p].key
      BY <2>1 DEF PayCall
    <3>2. /\ credits[c] # R!NoCredit /\ credits[c] \in Lent /\ a > 0 /\ a \in Nat
          /\ R!Charged(credits[c].owner, key)
          /\ [user |-> credits[c].owner, key |-> key, value |-> a, credit |-> c] \in asked
      <4>1. PayKnown(p)
        BY <1>1
      <4>2. /\ credits[c] # R!NoCredit /\ a > 0 /\ credits[c].owner = pay[p].user
            /\ R!Charged(credits[c].owner, key) /\ R!Debit(p) \in asked
        BY <2>1, <3>1, <4>1 DEF PayKnown
      <4>3. R!Debit(p) = [user |-> credits[c].owner, key |-> key, value |-> a, credit |-> c]
        BY <3>1, <4>2 DEF R!Debit
      <4> QED
        BY <1>1, <4>2, <4>3
    <3>16. PICK passed \in R!Spans(month - credits[c].created) :
             credits' = [credits EXCEPT ![c].paid = @ + a, ![c].lastPaid = month, ![c].passed = passed]
      BY <2>3, <3>1 DEF R!RecordPayment
    <3>17. passed \in Nat /\ passed >= (month - credits[c].created) - 1
      BY <1>1, <3>2, <3>16 DEF R!Spans, Lent
    <3>3. PICK n : n = [credits[c] EXCEPT !.paid = credits[c].paid + a, !.lastPaid = month,
                                          !.passed = passed]
      OBVIOUS
    <3>4. /\ n.balance = credits[c].balance /\ n.created = credits[c].created
          /\ n.owner = credits[c].owner /\ n.initial = credits[c].initial
          /\ n.paid = credits[c].paid + a /\ n.lastPaid = month /\ n.passed = passed
      <4>1. PICK m : m = [credits[c] EXCEPT !.paid = credits[c].paid + a]
        OBVIOUS
      <4>2. /\ m \in Lent /\ m.balance = credits[c].balance /\ m.created = credits[c].created
            /\ m.owner = credits[c].owner /\ m.initial = credits[c].initial
            /\ m.paid = credits[c].paid + a
        BY <3>2, <4>1 DEF Lent
      <4>3. PICK k : k = [m EXCEPT !.lastPaid = month]
        OBVIOUS
      <4>4. /\ k \in Lent /\ k.balance = m.balance /\ k.created = m.created
            /\ k.owner = m.owner /\ k.initial = m.initial /\ k.paid = m.paid /\ k.lastPaid = month
        BY <1>1, <4>2, <4>3 DEF Lent
      <4>5. n = [k EXCEPT !.passed = passed]
        BY <3>3, <4>1, <4>3
      <4> QED
        BY <4>2, <4>4, <4>5 DEF Lent
    <3>5. n.balance > 0 /\ n # R!NoCredit
      <4>1. n.balance > 0
        BY <1>1, <3>2, <3>4 DEF CreditKnown
      <4>2. R!NoCredit.balance = 0
        BY DEF R!NoCredit
      <4> QED
        BY <4>1, <4>2
    <3>6. credits' = [credits EXCEPT ![c] = n]
      BY <1>1, <3>3, <3>16
    <3>7. credits'[c] = n /\ \A d \in Credits : d # c => credits'[d] = credits[d]
      BY <1>1, <3>6
    <3>8. PICK row : row = [credit |-> c, key |-> key, amount |-> a]
      OBVIOUS
    <3>9. payments' = payments \cup {row} /\ row \notin payments
      BY <2>3, <3>1, <3>8 DEF R!RecordPayment, R!AlreadyRecorded
    <3>10. CreditKnown(c)'
      <4> DEFINE old == PaidTo(c)
                 worth == [r \in old \cup {row} |-> r.amount]
      <4>1. IsFiniteSet(old) /\ row \notin old /\ PaidTo(c)' = old \cup {row}
        <5>1. old \subseteq payments
          BY DEF PaidTo
        <5> QED
          BY <1>1, <3>8, <3>9, <5>1, FS_Subset DEF PaidTo
      <4>2. \A r \in old \cup {row} : worth[r] \in Nat
        <5>1. \A r \in old : r.amount \in Nat
          <6>1. \A r \in payments : r.amount \in Int /\ r.amount > 0
            BY <1>1 DEF PaymentKnown
          <6> QED
            BY <6>1 DEF PaidTo
        <5> QED
          BY <3>2, <3>8, <5>1
      <4>3. Total(old \cup {row}, worth) = Total(old, worth) + a
        <5>1. worth[row] = a
          BY <3>8
        <5> HIDE DEF old, worth
        <5> QED
          BY <4>1, <4>2, <5>1, TotalAdd
      <4>4. Total(old, worth) = Total(old, [r \in old |-> r.amount])
        BY TotalSame
      <4>5. Total(old, worth) \in Nat
        <5> HIDE DEF old, worth
        <5> QED
          BY <4>1, <4>2, TotalIsNat
      <4>6. credits'[c].paid = credits'[c].initial + Total(PaidTo(c)', [r \in PaidTo(c)' |-> r.amount])
        <5>1. credits[c].paid = credits[c].initial + Total(old, [r \in old |-> r.amount])
          BY <1>1, <3>2 DEF CreditKnown
        <5>2. credits[c].initial \in Nat
          BY <3>2 DEF Lent
        <5>3. Total(PaidTo(c)', [r \in PaidTo(c)' |-> r.amount]) = Total(old \cup {row}, worth)
          BY <4>1
        <5>4. PICK x : x = Total(old, worth)
          OBVIOUS
        <5> HIDE DEF old, worth
        <5> QED
          BY <3>2, <3>4, <3>7, <4>3, <4>4, <4>5, <5>1, <5>2, <5>3
      <4>7. n.created <= month' /\ n.created + n.passed + 1 >= n.lastPaid
        <5>1. credits[c].created \in Nat /\ month \in Nat /\ credits[c].created <= month
          <6>1. CreditKnown(c)
            BY <1>1
          <6>2. credits[c].created \in Nat
            BY <3>2 DEF Lent
          <6>3. credits[c].created <= month
            BY <3>2, <6>1 DEF CreditKnown
          <6> QED
            BY <1>1, <6>2, <6>3
        <5>2. n.created = credits[c].created /\ n.passed = passed /\ n.lastPaid = month /\ month' = month
          BY <2>1, <3>4
        <5> QED
          BY <3>17, <5>1, <5>2
      <4> QED
        BY <3>5, <3>7, <4>6, <4>7 DEF CreditKnown
    <3>11. ASSUME NEW d \in Credits PROVE CreditKnown(d)'
      <4>1. CASE d = c
        BY <3>10, <4>1
      <4>2. CASE d # c
        <5>1. PaidTo(d)' = PaidTo(d)
          BY <3>8, <3>9, <4>2 DEF PaidTo
        <5> QED
          BY <1>1, <2>1, <3>7, <4>2, <5>1 DEF CreditKnown
      <4> QED
        BY <4>1, <4>2
    <3>12. \A u, k : R!Charged(u, k) => R!Charged(u, k)'
      BY <1>2, <2>1
    <3>13. \A d \in Credits : credits[d] # R!NoCredit =>
             credits'[d] # R!NoCredit /\ credits'[d].owner = credits[d].owner
      BY <3>4, <3>5, <3>7
    <3>14. ASSUME NEW r \in payments' PROVE PaymentKnown(r)'
      <4>1. CASE r = row
        <5>1. RequestOf(r)' = [user |-> credits[c].owner, key |-> key, value |-> a, credit |-> c]
          BY <3>4, <3>7, <3>8, <4>1 DEF RequestOf
        <5> QED
          BY <2>1, <3>2, <3>4, <3>5, <3>7, <3>8, <3>12, <4>1, <5>1 DEF PaymentKnown
      <4>2. CASE r \in payments
        BY <1>1, <2>1, <3>12, <3>13, <4>2 DEF PaymentKnown, RequestOf
      <4> QED
        BY <3>9, <4>1, <4>2
    <3>15. ASSUME NEW q \in Calls PROVE PayKnown(q)'
      <4>1. CASE q = p
        BY <1>1, <1>6, <2>1, <4>1
      <4>2. CASE q # p
        <5>1. pay'[q] = pay[q] /\ (pay[q] # R!NoCall => pay[q].credit \in Credits)
          BY <1>1, <2>1, <4>2 DEF PayCall
        <5> QED
          BY <1>1, <2>1, <3>12, <3>13, <5>1 DEF PayKnown, R!Debit
      <4> QED
        BY <4>1, <4>2
    <3> QED
      BY <3>11, <3>14, <3>15
  <2> QED
    BY <1>13, <2>2, <2>3 DEF R!PayCredit
<1>14. CASE R!Tick
  <2>1. /\ UNCHANGED <<credits, payments, charges, asked, pay>> /\ month <= month' /\ month' \in 0..MaxMonth
    BY <1>1, <1>14 DEF R!Tick
  <2> QED
    BY <1>3, <1>4, <1>5, <2>1
<1> QED
  BY <1>7, <1>8, <1>10, <1>11, <1>12, <1>13, <1>14 DEF R!Next

\* The invariant of the credits holds throughout.
LEMMA CreditInvariant == ServicesSpec => []CreditInv
<1>1. ServicesInit => CreditInv
  BY CreditStart DEF ServicesInit
<1>2. CreditInv /\ [ServicesNext]_services => CreditInv'
  BY StepOfEach, CreditTyped, CreditKeys, CreditStands DEF CreditInv
<1> QED
  BY <1>1, <1>2, PTL DEF ServicesSpec

\* What a credit counts as paid is the sum of its payments, each of which the
\* wallet of its owner was charged for with the same amount, unless the key of
\* the payment named two requests; though a payment is charged in one service
\* and recorded in another, by calls that overlap, repeat and stop in between.
THEOREM DebtIsWhatIsLeft == ServicesSpec => []DebtFollowsCharges
  BY CreditInvariant, CreditAddsUp, PTL

\* A schedule never has more instalments than the term has months, and once
\* something was paid the last of them is due by the end of the term, though
\* the months behind are counted by thirty days (monthPaymentCalculation).
THEOREM SchedulesEnd == ServicesSpec => []ScheduleFitsTerm
  BY CreditInvariant, CreditFitsTerm, PTL

-----------------------------------------------------------------------------
(* Tokens.  A session whose code was answered has no code left that is not *)
(* used, only such sessions have refresh tokens, and a pair being made is  *)
(* one nobody refreshes yet.                                               *)

Dead(s) == \A t \in tokens : t.session = s /\ t.kind = "code" => t.used

RowsKnown ==
  /\ \A t \in tokens :
       t.pair <= pairs /\ t.from <= pairs /\ (t.kind = "refresh" => t.session \in spent)
  /\ \A s \in spent : Dead(s)

NothingReplacedServes ==
  \A new, old \in tokens :
    (new.from # 0 /\ old.session = new.session /\ old.pair = new.from)
      => old.kind \notin {"access", "refresh"}

\* What is known of a request.
Knows(r) ==
  /\ r.from <= pairs
  /\ r.at \in {"handled", "found", "checked", "fetched", "reused", "reusedAccess"} => r.from = 0
  /\ r.late => r.at \in {"handled", "found", "checked"} /\ r.session \in spent
  /\ r.at \in {"refreshing", "refetched", "revoked"} => r.session \in spent
  /\ r.at \in {"issue", "access"} => Dead(r.session)
  /\ r.at = "access" => r.pair \in 1..pairs

\* Of the pair that a request replaces, what it has revoked is gone.
Gone(r) ==
  r.from # 0 =>
    \A t \in tokens : t.session = r.session /\ t.pair = r.from =>
      /\ r.at \in {"revoked", "issue", "access"} => t.kind # "refresh"
      /\ r.at \in {"issue", "access"} => t.kind # "access"

\* Nobody has refreshed the pair yet.
Fresh(pair) ==
  \A t \in tokens : t.from # pair /\ ~(t.kind = "refresh" /\ t.pair = pair)

RequestKnown(q) ==
  request[q] # T!NoRequest =>
    /\ Knows(request[q]) /\ Gone(request[q])
    /\ request[q].at = "access" => Fresh(request[q].pair)

PairsApart ==
  \A q, o \in Calls : request[q].at = "access" =>
    /\ request[o] # T!NoRequest => request[o].from # request[q].pair
    /\ o # q /\ request[o].at = "access" => request[o].pair # request[q].pair

TokensInv ==
  /\ T!TypeOK /\ RowsKnown /\ NothingReplacedServes
  /\ \A q \in Calls : RequestKnown(q)
  /\ PairsApart

\* No session has been opened yet.
LEMMA TokensStart == T!Init => TokensInv
<1> SUFFICES ASSUME T!Init PROVE TokensInv
  OBVIOUS
<1>1. T!TypeOK
  BY BoundsAssumption DEF T!Init, T!TypeOK
<1>2. RowsKnown /\ NothingReplacedServes
  BY DEF T!Init, RowsKnown, NothingReplacedServes
<1>3. \A q \in Calls : RequestKnown(q)
  BY DEF T!Init, RequestKnown
<1>4. PairsApart
  BY DEF T!Init, PairsApart, T!NoRequest
<1> QED
  BY <1>1, <1>2, <1>3, <1>4 DEF TokensInv

\* A code that was answered and a pair that was refreshed are of no use any more.
LEMMA TokensUseUp == TokensInv => UsedUpIsDead
<1> SUFFICES ASSUME TokensInv PROVE UsedUpIsDead
  OBVIOUS
<1>1. T!SpentCodeIsDead
  BY DEF TokensInv, T!SpentCodeIsDead, RequestKnown, Knows
<1>2. T!OldPairIsGone
  BY DEF TokensInv, T!OldPairIsGone, T!Introspected, NothingReplacedServes
<1> QED
  BY <1>1, <1>2 DEF UsedUpIsDead, T!UsedUpIsDead

-----------------------------------------------------------------------------

\* What the statements do to rows.
LEMMA TokensTyped ==
  ASSUME T!TypeOK, [T!Next]_tokensVars
  PROVE  T!TypeOK'
<1>1. /\ tokens \subseteq T!Row /\ pairs \in 0..MaxPairs /\ pairs \in Nat /\ MaxPairs \in Nat
      /\ request \in [Calls -> {T!NoRequest} \cup T!RequestRow]
      /\ \A q \in Calls : request[q] # T!NoRequest => request[q] \in T!RequestRow
      /\ \A q \in Calls : request[q].at # "idle" => request[q] \in T!RequestRow
  BY BoundsAssumption DEF T!TypeOK, T!NoRequest
<1>2. ASSUME tokens' \subseteq T!Row, pairs' \in 0..MaxPairs, spent' \subseteq Sessions,
             request' \in [Calls -> {T!NoRequest} \cup T!RequestRow]
      PROVE  T!TypeOK'
  BY <1>2 DEF T!TypeOK
<1>3. ASSUME NEW q \in Calls, NEW r \in {T!NoRequest} \cup T!RequestRow,
             request' = [request EXCEPT ![q] = r]
      PROVE  request' \in [Calls -> {T!NoRequest} \cup T!RequestRow]
  BY <1>1, <1>3
<1>4. ASSUME NEW q \in Calls,
             NEW at \in {"found", "checked", "fetched", "issue", "refreshing", "refetched",
                        "revoked", "reused", "reusedAccess"},
             request[q] \in T!RequestRow, T!Becomes(q, at)
      PROVE  request' \in [Calls -> {T!NoRequest} \cup T!RequestRow]
  <2>1. [request[q] EXCEPT !.at = at] \in T!RequestRow
    BY <1>4 DEF T!RequestRow
  <2> QED
    BY <1>1, <1>3, <1>4, <2>1 DEF T!Becomes
<1>5. ASSUME NEW q \in Calls, NEW s \in Sessions, NEW from \in 0..MaxPairs,
             NEW at \in {"handled", "refreshing", "reused"}, T!Serve(q, at, s, from)
      PROVE  request' \in [Calls -> {T!NoRequest} \cup T!RequestRow]
  <2>1. [at |-> at, session |-> s, from |-> from, pair |-> 0,
         late |-> (at = "handled" /\ s \in spent)] \in T!RequestRow
    BY <1>1 DEF T!RequestRow
  <2> QED
    BY <1>3, <1>5, <2>1 DEF T!Serve
<1>6. spent \subseteq Sessions
  BY DEF T!TypeOK
<1>7. CASE UNCHANGED tokensVars
  BY <1>1, <1>2, <1>6, <1>7 DEF tokensVars
<1>8. ASSUME NEW s \in Sessions, NEW pkce \in BOOLEAN, T!Authorization(s, pkce) PROVE T!TypeOK'
  <2>1. \A c \in {"code", "pkce"} : T!NewRow(s, c, 0, 0, pkce) \in T!Row
    BY <1>1 DEF T!NewRow, T!Row, T!RowKinds
  <2>2. T!NewRow(s, "pkce", 0, 0, TRUE) \in T!Row
    BY <1>1 DEF T!NewRow, T!Row, T!RowKinds
  <2>3. tokens' \subseteq T!Row
    BY <1>1, <1>8, <2>1, <2>2 DEF T!Authorization
  <2> QED
    BY <1>1, <1>2, <1>6, <1>8, <2>3 DEF T!Authorization
<1>9. ASSUME NEW q \in Calls, NEW s \in Sessions,
             T!HandleCode(q, s) \/ T!HandleUsedCode(q, s) \/ T!HandleRevoke(q, s)
      PROVE  T!TypeOK'
  BY <1>1, <1>2, <1>5, <1>6, <1>9 DEF T!HandleCode, T!HandleUsedCode, T!HandleRevoke
<1>10. ASSUME NEW q \in Calls, NEW s \in Sessions, NEW pair \in 1..MaxPairs, T!HandleRefresh(q, s, pair)
      PROVE  T!TypeOK'
  BY <1>1, <1>2, <1>5, <1>6, <1>10 DEF T!HandleRefresh
<1>11. ASSUME NEW q \in Calls,
              \/ T!FetchCode(q) \/ T!FetchRefresh(q) \/ T!Rotate(q) \/ T!RotateAccess(q)
              \/ T!RevokeReused(q)
       PROVE  T!TypeOK'
  <2>1. request[q] \in T!RequestRow
    BY <1>1, <1>11 DEF T!FetchCode, T!FetchRefresh, T!Rotate, T!RotateAccess, T!RevokeReused
  <2> QED
    BY <1>1, <1>2, <1>4, <1>6, <1>11, <2>1 DEF T!FetchCode, T!FetchRefresh, T!Rotate, T!RotateAccess,
       T!RevokeReused, T!RevokeRefreshToken, T!RevokeAccessToken
<1>18. ASSUME NEW q \in Calls, T!FindChallenge(q) \/ T!AnswerChallenge(q) PROVE T!TypeOK'
  <2>1. request[q] \in T!RequestRow
    BY <1>1, <1>18 DEF T!FindChallenge, T!AnswerChallenge
  <2> QED
    BY <1>1, <1>2, <1>4, <1>6, <1>18, <2>1 DEF T!FindChallenge, T!AnswerChallenge
<1>12. ASSUME NEW q \in Calls, T!InvalidateCode(q) PROVE T!TypeOK'
  <2>1. request[q] \in T!RequestRow
    BY <1>1, <1>12 DEF T!InvalidateCode
  <2>2. \A t \in T!Row : [t EXCEPT !.used = TRUE] \in T!Row
    BY DEF T!Row
  <2>3. tokens' \subseteq T!Row
    BY <1>1, <1>12, <2>2 DEF T!InvalidateCode, T!Invalidate, T!OfKind
  <2> QED
    BY <1>1, <1>2, <1>4, <1>6, <1>12, <2>1, <2>3 DEF T!InvalidateCode
<1>13. ASSUME NEW q \in Calls, T!CreateAccess(q) PROVE T!TypeOK'
  <2>1. request[q] \in T!RequestRow /\ pairs + 1 \in 0..MaxPairs
    BY <1>1, <1>13 DEF T!CreateAccess
  <2>2. T!NewRow(request[q].session, "access", pairs + 1, request[q].from, FALSE) \in T!Row
    BY <2>1 DEF T!NewRow, T!Row, T!RowKinds, T!RequestRow
  <2>3. [request[q] EXCEPT !.at = "access", !.pair = pairs + 1] \in T!RequestRow
    BY <2>1 DEF T!RequestRow
  <2>4. request' = [request EXCEPT ![q] = [request[q] EXCEPT !.at = "access", !.pair = pairs + 1]]
    BY <1>1, <1>13 DEF T!CreateAccess
  <2> QED
    BY <1>1, <1>2, <1>3, <1>6, <1>13, <2>1, <2>2, <2>3, <2>4 DEF T!CreateAccess, T!CreateTokenSession
<1>14. ASSUME NEW q \in Calls, T!CreateRefresh(q) PROVE T!TypeOK'
  <2>1. request[q] \in T!RequestRow
    BY <1>1, <1>14 DEF T!CreateRefresh
  <2>2. T!NewRow(request[q].session, "refresh", request[q].pair, request[q].from, FALSE) \in T!Row
    BY <2>1 DEF T!NewRow, T!Row, T!RowKinds, T!RequestRow
  <2>3. request[q].session \in Sessions
    BY <2>1 DEF T!RequestRow
  <2> QED
    BY <1>1, <1>2, <1>3, <1>6, <1>14, <2>2, <2>3 DEF T!CreateRefresh, T!CreateTokenSession
<1>15. ASSUME NEW q \in Calls, T!RevokeReusedRefresh(q) \/ T!Abandon(q) PROVE T!TypeOK'
  BY <1>1, <1>2, <1>3, <1>6, <1>15 DEF T!RevokeReusedRefresh, T!RevokeRefreshToken, T!Abandon
<1>16. ASSUME NEW t \in tokens, T!Lapse(t) PROVE T!TypeOK'
  <2>1. [t EXCEPT !.expired = TRUE] \in T!Row
    BY <1>1 DEF T!Row
  <2> QED
    BY <1>1, <1>2, <1>6, <1>16, <2>1 DEF T!Lapse
<1>17. CASE T!DeleteExpiredTokens
  BY <1>1, <1>2, <1>6, <1>17 DEF T!DeleteExpiredTokens
<1> QED
  BY <1>7, <1>8, <1>9, <1>10, <1>11, <1>12, <1>13, <1>14, <1>15, <1>16, <1>17, <1>18 DEF T!Next

\* Rows may go, lapse and be used; none comes.
RowsFewer ==
  /\ \A t \in tokens' : \E u \in tokens :
       /\ t.session = u.session /\ t.kind = u.kind /\ t.pair = u.pair /\ t.from = u.from
       /\ u.used => t.used
  /\ pairs' = pairs /\ spent' = spent

\* Rows that are deleted, and codes that become used, disturb nothing.
LEMMA FewerKeeps ==
  ASSUME RowsFewer
  PROVE  /\ RowsKnown => RowsKnown'
         /\ NothingReplacedServes => NothingReplacedServes'
         /\ \A r : Knows(r) => Knows(r)'
         /\ \A r : Gone(r) => Gone(r)'
         /\ \A pair : Fresh(pair) => Fresh(pair)'
<1>1. ASSUME NEW s, Dead(s) PROVE Dead(s)'
  BY <1>1 DEF RowsFewer, Dead
<1>2. RowsKnown => RowsKnown'
  BY <1>1 DEF RowsFewer, RowsKnown
<1>3. ASSUME NothingReplacedServes PROVE NothingReplacedServes'
  <2> SUFFICES ASSUME NEW new \in tokens', NEW old \in tokens',
                      new.from # 0, old.session = new.session, old.pair = new.from
               PROVE  old.kind \notin {"access", "refresh"}
    BY DEF NothingReplacedServes
  <2>1. PICK n \in tokens : n.session = new.session /\ n.from = new.from
    BY DEF RowsFewer
  <2>2. PICK o \in tokens : o.session = old.session /\ o.pair = old.pair /\ o.kind = old.kind
    BY DEF RowsFewer
  <2> QED
    BY <1>3, <2>1, <2>2 DEF NothingReplacedServes
<1>4. \A r : Knows(r) => Knows(r)'
  BY <1>1 DEF RowsFewer, Knows
<1>5. ASSUME NEW r, Gone(r) PROVE Gone(r)'
  BY <1>5 DEF RowsFewer, Gone
<1>6. ASSUME NEW pair, Fresh(pair) PROVE Fresh(pair)'
  BY <1>6 DEF RowsFewer, Fresh
<1> QED
  BY <1>2, <1>3, <1>4, <1>5, <1>6

\* The same of a step that does no more than that.
LEMMA FewerRows ==
  ASSUME tokens \subseteq T!Row, UNCHANGED <<pairs, spent>>,
         \/ tokens' \subseteq tokens
         \/ \E s : T!Invalidate(s)
         \/ \E t \in tokens : tokens' = (tokens \ {t}) \cup {[t EXCEPT !.expired = TRUE]}
  PROVE  RowsFewer
<1>1. CASE tokens' \subseteq tokens
  BY <1>1 DEF RowsFewer
<1>2. ASSUME NEW s, T!Invalidate(s) PROVE RowsFewer
  <2>1. ASSUME NEW t \in tokens, NEW u, u = [t EXCEPT !.used = TRUE]
        PROVE  /\ u.session = t.session /\ u.kind = t.kind /\ u.pair = t.pair /\ u.from = t.from
               /\ u.used = TRUE
    BY <2>1 DEF T!Row
  <2>2. tokens' = (tokens \ T!OfKind(s, "code"))
                    \cup {[t EXCEPT !.used = TRUE] : t \in T!OfKind(s, "code")}
    BY <1>2 DEF T!Invalidate
  <2>3. ASSUME NEW u \in tokens', u \notin tokens
        PROVE  \E t \in tokens :
                 /\ u.session = t.session /\ u.kind = t.kind /\ u.pair = t.pair /\ u.from = t.from
                 /\ u.used = TRUE
    <3>1. PICK t \in T!OfKind(s, "code") : u = [t EXCEPT !.used = TRUE]
      BY <2>2, <2>3
    <3>2. t \in tokens
      BY DEF T!OfKind
    <3> QED
      BY <2>1, <3>1, <3>2
  <2> QED
    BY <2>3 DEF RowsFewer
<1>3. ASSUME NEW t \in tokens, tokens' = (tokens \ {t}) \cup {[t EXCEPT !.expired = TRUE]}
      PROVE  RowsFewer
  <2>1. ASSUME NEW u, u = [t EXCEPT !.expired = TRUE]
        PROVE  /\ u.session = t.session /\ u.kind = t.kind /\ u.pair = t.pair /\ u.from = t.from
               /\ u.used = t.used
    BY <2>1 DEF T!Row
  <2> QED
    BY <1>3, <2>1 DEF RowsFewer
<1> QED
  BY <1>1, <1>2, <1>3

-----------------------------------------------------------------------------

\* A step of one request that brings no rows: it is enough to know the
\* request it leaves, and that nobody is making the pair it refreshes.
LEMMA RequestMoves ==
  ASSUME TokensInv, RowsFewer, NEW q \in Calls, NEW r,
         request' = [request EXCEPT ![q] = r],
         r # T!NoRequest =>
           /\ r.at # "access" /\ Knows(r)' /\ Gone(r)'
           /\ \A o \in Calls : request[o].at = "access" => request[o].pair # r.from
  PROVE  /\ RowsKnown' /\ NothingReplacedServes' /\ PairsApart'
         /\ \A o \in Calls : RequestKnown(o)'
<1>1. request \in [Calls -> {T!NoRequest} \cup T!RequestRow]
  BY DEF TokensInv, T!TypeOK
<1>2. /\ RowsKnown' /\ NothingReplacedServes'
      /\ \A x : Knows(x) => Knows(x)'
      /\ \A x : Gone(x) => Gone(x)'
      /\ \A pair : Fresh(pair) => Fresh(pair)'
  BY FewerKeeps, Zenon DEF TokensInv
<1>3. /\ request'[q] = r
      /\ \A o \in Calls \ {q} : request'[o] = request[o]
  BY <1>1
<1>4. ASSUME NEW o \in Calls PROVE RequestKnown(o)'
  <2>1. CASE o = q
    BY <1>3, <2>1 DEF RequestKnown, Knows, Gone, Dead
  <2>2. CASE o # q
    <3>1. PICK x : x = request[o]
      OBVIOUS
    <3>2. x = request'[o]
      BY <1>3, <2>2, <3>1
    <3>3. x # T!NoRequest => Knows(x)' /\ Gone(x)' /\ (x.at = "access" => Fresh(x.pair)')
      BY <1>2, <3>1 DEF TokensInv, RequestKnown
    <3> QED
      BY <3>2, <3>3 DEF RequestKnown, Knows, Gone, Fresh, Dead
  <2> QED
    BY <2>1, <2>2
<1>5. PairsApart'
  <2> SUFFICES ASSUME NEW p \in Calls, NEW o \in Calls, request'[p].at = "access"
               PROVE  /\ request'[o] # T!NoRequest => request'[o].from # request'[p].pair
                      /\ o # p /\ request'[o].at = "access" => request'[o].pair # request'[p].pair
    BY DEF PairsApart
  <2>1. request'[p] = request[p] /\ p # q
    BY <1>3 DEF T!NoRequest
  <2>2. CASE o = q
    BY <1>3, <2>1, <2>2 DEF T!NoRequest
  <2>3. CASE o # q
    BY <1>3, <2>1, <2>3 DEF TokensInv, PairsApart
  <2> QED
    BY <2>2, <2>3
<1> QED
  BY <1>2, <1>4, <1>5

\* Nobody makes a pair that has a refresh token, and none is numbered 0.
LEMMA NotInTheMaking ==
  ASSUME TokensInv, NEW o \in Calls, request[o].at = "access"
  PROVE  /\ request[o].pair # 0
         /\ \A t \in tokens : t.kind = "refresh" => t.pair # request[o].pair
         /\ \A q \in Calls : request[q] # T!NoRequest => request[q].from # request[o].pair
<1>1. request[o] # T!NoRequest
  BY DEF T!NoRequest
<1>2. RequestKnown(o) /\ PairsApart /\ pairs \in Nat
  BY BoundsAssumption DEF TokensInv, T!TypeOK
<1> QED
  BY <1>1, <1>2 DEF RequestKnown, Knows, Fresh, PairsApart

\* The relational part of the invariant, after a step.
TokensRelated == RowsKnown /\ NothingReplacedServes /\ PairsApart /\ \A q \in Calls : RequestKnown(q)

\* A request that ends, or is refused, disturbs nothing.
LEMMA RequestsServed ==
  ASSUME TokensInv, NEW q \in Calls, NEW s \in Sessions, NEW pair,
         \/ T!HandleCode(q, s) \/ T!HandleUsedCode(q, s) \/ T!HandleRevoke(q, s)
         \/ T!HandleRefresh(q, s, pair) /\ pair \in 1..MaxPairs
  PROVE  TokensRelated'
<1>1. tokens \subseteq T!Row /\ pairs \in Nat /\ RowsFewer
  <2>1. tokens \subseteq T!Row /\ pairs \in Nat
    BY BoundsAssumption DEF TokensInv, T!TypeOK
  <2>2. UNCHANGED <<pairs, spent>> /\ tokens' \subseteq tokens
    BY DEF T!HandleCode, T!HandleUsedCode, T!HandleRevoke, T!HandleRefresh
  <2> QED
    BY <2>1, <2>2, FewerRows
<1>2. PICK r : r = request'[q]
  OBVIOUS
<1>3. request \in [Calls -> {T!NoRequest} \cup T!RequestRow]
  BY DEF TokensInv, T!TypeOK
<1>4. CASE T!HandleCode(q, s) \/ T!HandleUsedCode(q, s) \/ T!HandleRevoke(q, s)
  <2>1. /\ request' = [request EXCEPT ![q] = r] /\ r.session = s /\ r.from = 0
        /\ r.at \in {"handled", "reused"} /\ (r.late => r.at = "handled" /\ s \in spent)
    <3>1. PICK at \in {"handled", "reused"} : T!Serve(q, at, s, 0)
      BY <1>4 DEF T!HandleCode, T!HandleUsedCode, T!HandleRevoke
    <3>2. request' = [request EXCEPT ![q] =
            [at |-> at, session |-> s, from |-> 0, pair |-> 0,
             late |-> (at = "handled" /\ s \in spent)]]
      BY <3>1 DEF T!Serve
    <3>3. r = [at |-> at, session |-> s, from |-> 0, pair |-> 0,
               late |-> (at = "handled" /\ s \in spent)]
      BY <1>2, <1>3, <3>2
    <3>4. r.session = s /\ r.from = 0 /\ r.at = at
      BY <3>3
    <3>5. r.late = (at = "handled" /\ s \in spent)
      BY <3>3, Zenon
    <3> QED
      BY <3>1, <3>2, <3>3, <3>4, <3>5
  <2>2. spent' = spent /\ pairs' = pairs
    BY <1>1 DEF RowsFewer
  <2>3. Knows(r)' /\ Gone(r)'
    BY <1>1, <2>1, <2>2 DEF Knows, Gone
  <2> QED
    BY <1>1, <2>1, <2>3, RequestMoves, NotInTheMaking DEF TokensRelated
<1>5. CASE T!HandleRefresh(q, s, pair) /\ pair \in 1..MaxPairs
  <2>1. /\ request' = [request EXCEPT ![q] = r] /\ r.session = s /\ r.from = pair
        /\ r.at = "refreshing" /\ ~r.late
    BY <1>2, <1>3, <1>5 DEF T!HandleRefresh, T!Serve
  <2>2. PICK t \in tokens : t.session = s /\ t.kind = "refresh" /\ t.pair = pair
    BY <1>5 DEF T!HandleRefresh, T!GetRefresh, T!OfKind
  <2>3. spent' = spent /\ pairs' = pairs
    BY <1>1 DEF RowsFewer
  <2>4. Knows(r)' /\ Gone(r)'
    BY <1>1, <2>1, <2>2, <2>3 DEF Knows, Gone, TokensInv, RowsKnown
  <2> QED
    BY <1>1, <2>1, <2>2, <2>4, RequestMoves, NotInTheMaking DEF TokensRelated
<1> QED
  BY <1>4, <1>5

\* Requests that read and revoke: each of them knows a little more afterwards.
LEMMA RequestsGoOn ==
  ASSUME TokensInv, NEW q \in Calls,
         \/ T!FindChallenge(q) \/ T!AnswerChallenge(q) \/ T!FetchCode(q) \/ T!InvalidateCode(q)
         \/ T!FetchRefresh(q) \/ T!Rotate(q) \/ T!RotateAccess(q)
         \/ T!RevokeReused(q) \/ T!RevokeReusedRefresh(q) \/ T!Abandon(q)
  PROVE  TokensRelated'
<1>1. tokens \subseteq T!Row /\ pairs \in Nat
  BY BoundsAssumption DEF TokensInv, T!TypeOK
<1>2. RowsFewer
  BY <1>1, FewerRows DEF T!FindChallenge, T!AnswerChallenge, T!FetchCode, T!InvalidateCode, T!FetchRefresh, T!Rotate, T!RotateAccess,
     T!RevokeReused, T!RevokeReusedRefresh, T!Abandon, T!RevokeRefreshToken, T!RevokeAccessToken
<1>3. request \in [Calls -> {T!NoRequest} \cup T!RequestRow] /\ request[q] # T!NoRequest
  BY DEF TokensInv, T!TypeOK, T!FindChallenge, T!AnswerChallenge, T!FetchCode, T!InvalidateCode, T!FetchRefresh, T!Rotate, T!RotateAccess,
     T!RevokeReused, T!RevokeReusedRefresh, T!Abandon, T!NoRequest
<1>4. PICK r : r = request[q]
  OBVIOUS
<1>5. r \in T!RequestRow /\ Knows(r) /\ Gone(r)
  BY <1>3, <1>4 DEF TokensInv, RequestKnown
<1>6. Knows(r)' /\ Gone(r)'
  BY <1>2, <1>5, FewerKeeps
<1>7. \A o \in Calls : request[o].at = "access" => request[o].pair # r.from
  BY <1>3, <1>4, NotInTheMaking
<1>8. ASSUME request' = [request EXCEPT ![q] = T!NoRequest] PROVE TokensRelated'
  BY <1>2, <1>8, RequestMoves DEF TokensRelated
<1>9. ASSUME NEW at, T!Becomes(q, at), at # "access",
             NEW n, n = [r EXCEPT !.at = at], Knows(n)', Gone(n)'
      PROVE  TokensRelated'
  <2>1. request' = [request EXCEPT ![q] = n] /\ n.at = at /\ n.from = r.from
    BY <1>3, <1>4, <1>5, <1>9 DEF T!Becomes, T!RequestRow
  <2> QED
    BY <1>2, <1>7, <1>9, <2>1, RequestMoves DEF TokensRelated
<1>10. ASSUME NEW at
       PROVE  \E n : /\ n = [r EXCEPT !.at = at] /\ n.at = at /\ n.session = r.session
                     /\ n.from = r.from /\ n.late = r.late
  <2>1. /\ [r EXCEPT !.at = at].at = at /\ [r EXCEPT !.at = at].session = r.session
        /\ [r EXCEPT !.at = at].from = r.from /\ [r EXCEPT !.at = at].late = r.late
    BY <1>5 DEF T!RequestRow
  <2> QED
    BY <2>1
<1>11. pairs' = pairs /\ spent' = spent
  BY <1>2 DEF RowsFewer
<1>12. CASE T!FetchCode(q)
  <2>1. PICK n : n = [r EXCEPT !.at = "fetched"] /\ n.at = "fetched" /\ n.session = r.session
                 /\ n.from = r.from /\ n.late = r.late
    BY <1>10, Zenon
  <2>2. r.at \in {"handled", "checked"} /\ T!CodeIsValid(r.session)
    BY <1>4, <1>12 DEF T!FetchCode
  <2>3. ~Dead(r.session)
    BY <2>2 DEF T!CodeIsValid, T!CodeIsUsed, T!OfKind, Dead
  <2>4. ~r.late
    BY <1>5, <2>3 DEF Knows, TokensInv, RowsKnown
  <2>5. Knows(n)' /\ Gone(n)'
    BY <1>5, <1>11, <2>1, <2>2, <2>4 DEF Knows, Gone
  <2> QED
    BY <1>9, <1>12, <2>1, <2>5 DEF T!FetchCode
<1>13. CASE T!InvalidateCode(q)
  <2>1. PICK n : n = [r EXCEPT !.at = "issue"] /\ n.at = "issue" /\ n.session = r.session
                 /\ n.from = r.from /\ n.late = r.late
    BY <1>10, Zenon
  <2>2. r.at = "fetched" /\ T!Invalidate(r.session) /\ T!Becomes(q, "issue")
    BY <1>4, <1>13 DEF T!InvalidateCode
  <2>3. \A t \in T!OfKind(r.session, "code") : [t EXCEPT !.used = TRUE].used
    BY <1>1 DEF T!OfKind, T!Row
  <2>4. Dead(r.session)'
    BY <2>2, <2>3 DEF T!Invalidate, T!OfKind, Dead
  <2>5. Knows(n)' /\ Gone(n)'
    BY <1>5, <1>11, <2>1, <2>2, <2>4 DEF Knows, Gone
  <2> QED
    BY <1>9, <2>1, <2>2, <2>5
<1>14. CASE T!FetchRefresh(q)
  <2>1. PICK n : n = [r EXCEPT !.at = "refetched"] /\ n.at = "refetched" /\ n.session = r.session
                 /\ n.from = r.from /\ n.late = r.late
    BY <1>10, Zenon
  <2>2. r.at = "refreshing" /\ T!Becomes(q, "refetched")
    BY <1>4, <1>14 DEF T!FetchRefresh
  <2>3. Knows(n)' /\ Gone(n)'
    BY <1>5, <1>11, <2>1, <2>2 DEF Knows, Gone
  <2> QED
    BY <1>9, <2>1, <2>2, <2>3
<1>15. CASE T!Rotate(q)
  <2>1. PICK n : n = [r EXCEPT !.at = "revoked"] /\ n.at = "revoked" /\ n.session = r.session
                 /\ n.from = r.from /\ n.late = r.late
    BY <1>10, Zenon
  <2>2. /\ r.at = "refetched" /\ T!Becomes(q, "revoked")
        /\ tokens' = tokens \ T!OfKind(r.session, "refresh")
    BY <1>4, <1>15 DEF T!Rotate, T!RevokeRefreshToken
  <2>3. Knows(n)' /\ Gone(n)'
    BY <1>5, <1>11, <2>1, <2>2 DEF Knows, Gone, T!OfKind
  <2> QED
    BY <1>9, <2>1, <2>2, <2>3
<1>16. CASE T!RotateAccess(q)
  <2>1. PICK n : n = [r EXCEPT !.at = "issue"] /\ n.at = "issue" /\ n.session = r.session
                 /\ n.from = r.from /\ n.late = r.late
    BY <1>10, Zenon
  <2>2. /\ r.at = "revoked" /\ T!Becomes(q, "issue")
        /\ tokens' = tokens \ T!OfKind(r.session, "access")
    BY <1>4, <1>16 DEF T!RotateAccess, T!RevokeAccessToken
  <2>3. Dead(r.session)
    BY <1>5, <2>2 DEF Knows, TokensInv, RowsKnown
  <2>4. Dead(n.session)'
    BY <2>1, <2>2, <2>3 DEF Dead
  <2>5. Knows(n)' /\ Gone(n)'
    BY <1>5, <1>11, <2>1, <2>2, <2>4 DEF Knows, Gone, T!OfKind
  <2> QED
    BY <1>9, <2>1, <2>2, <2>5
<1>17. CASE T!RevokeReused(q)
  <2>1. PICK n : n = [r EXCEPT !.at = "reusedAccess"] /\ n.at = "reusedAccess" /\ n.session = r.session
                 /\ n.from = r.from /\ n.late = r.late
    BY <1>10, Zenon
  <2>2. r.at = "reused" /\ T!Becomes(q, "reusedAccess")
    BY <1>4, <1>17 DEF T!RevokeReused
  <2>3. Knows(n)' /\ Gone(n)'
    BY <1>5, <1>11, <2>1, <2>2 DEF Knows, Gone
  <2> QED
    BY <1>9, <2>1, <2>2, <2>3
<1>18. CASE T!RevokeReusedRefresh(q) \/ T!Abandon(q)
  BY <1>8, <1>18 DEF T!RevokeReusedRefresh, T!Abandon
<1>19. CASE T!FindChallenge(q)
  <2>1. PICK n : n = [r EXCEPT !.at = "found"] /\ n.at = "found" /\ n.session = r.session
                 /\ n.from = r.from /\ n.late = r.late
    BY <1>10, Zenon
  <2>2. r.at = "handled" /\ T!Becomes(q, "found")
    BY <1>4, <1>19 DEF T!FindChallenge
  <2>3. Knows(n)' /\ Gone(n)'
    BY <1>5, <1>11, <2>1, <2>2 DEF Knows, Gone
  <2> QED
    BY <1>9, <2>1, <2>2, <2>3
<1>20. CASE T!AnswerChallenge(q)
  <2>1. PICK n : n = [r EXCEPT !.at = "checked"] /\ n.at = "checked" /\ n.session = r.session
                 /\ n.from = r.from /\ n.late = r.late
    BY <1>10, Zenon
  <2>2. r.at = "found" /\ T!Becomes(q, "checked")
    BY <1>4, <1>20 DEF T!AnswerChallenge
  <2>3. Knows(n)' /\ Gone(n)'
    BY <1>5, <1>11, <2>1, <2>2 DEF Knows, Gone
  <2> QED
    BY <1>9, <2>1, <2>2, <2>3
<1> QED
  BY <1>12, <1>13, <1>14, <1>15, <1>16, <1>17, <1>18, <1>19, <1>20

\* A new code: nobody works for its session, which has never been answered.
LEMMA CodesComeFirst ==
  ASSUME TokensInv, NEW s \in Sessions, NEW pkce \in BOOLEAN, T!Authorization(s, pkce)
  PROVE  TokensRelated'
<1>1. /\ s \notin spent /\ UNCHANGED <<pairs, spent, request>> /\ pairs \in Nat
      /\ \A q \in Calls : request[q] # T!NoRequest => request[q].session # s
  BY BoundsAssumption DEF T!Authorization, TokensInv, T!TypeOK
<1>2. \A t \in tokens' : t \in tokens \/ ( /\ t.session = s /\ t.pair = 0 /\ t.from = 0
                                          /\ t.kind \in {"code", "pkce"})
  BY DEF T!Authorization, T!NewRow
<1>3. ASSUME NEW o, o # s, Dead(o) PROVE Dead(o)'
  BY <1>2, <1>3 DEF Dead
<1>4. RowsKnown'
  BY <1>1, <1>2, <1>3 DEF TokensInv, RowsKnown
<1>5. NothingReplacedServes'
  BY <1>2 DEF TokensInv, NothingReplacedServes
<1>6. PairsApart'
  BY <1>1 DEF TokensInv, PairsApart
<1>7. ASSUME NEW q \in Calls PROVE RequestKnown(q)'
  <2>1. CASE request[q] = T!NoRequest
    BY <1>1, <2>1 DEF RequestKnown
  <2>2. CASE request[q] # T!NoRequest
    <3>1. Knows(request[q]) /\ Gone(request[q]) /\ (request[q].at = "access" => Fresh(request[q].pair))
      BY <2>2 DEF TokensInv, RequestKnown
    <3>2. PICK r : r = request[q]
      OBVIOUS
    <3>3. Knows(r)'
      BY <1>1, <1>3, <2>2, <3>1, <3>2 DEF Knows
    <3>4. Gone(r)'
      BY <1>2, <3>1, <3>2 DEF Gone
    <3>5. r.at = "access" => Fresh(r.pair)'
      BY <1>1, <1>2, <3>1, <3>2 DEF Fresh, Knows
    <3> QED
      BY <1>1, <3>2, <3>3, <3>4, <3>5 DEF RequestKnown, Knows, Gone, Fresh, Dead
  <2> QED
    BY <2>1, <2>2
<1> QED
  BY <1>4, <1>5, <1>6, <1>7 DEF TokensRelated

\* A new pair: its number is nobody's yet.
LEMMA PairsAreNew ==
  ASSUME TokensInv, NEW q \in Calls, T!CreateAccess(q)
  PROVE  TokensRelated'
<1>1. /\ pairs \in Nat /\ request \in [Calls -> {T!NoRequest} \cup T!RequestRow]
      /\ request[q].at = "issue" /\ pairs' = pairs + 1 /\ spent' = spent
  BY BoundsAssumption DEF T!CreateAccess, TokensInv, T!TypeOK
<1>2. PICK r : r = request[q]
  OBVIOUS
<1>3. r # T!NoRequest /\ r \in T!RequestRow /\ Knows(r) /\ Gone(r) /\ r.at = "issue"
  BY <1>1, <1>2 DEF T!NoRequest, TokensInv, RequestKnown
<1>4. PICK row : row = T!NewRow(r.session, "access", pairs + 1, r.from, FALSE)
  OBVIOUS
<1>5. /\ row.session = r.session /\ row.kind = "access" /\ row.pair = pairs + 1 /\ row.from = r.from
      /\ tokens' = tokens \cup {row}
  BY <1>1, <1>2, <1>4 DEF T!CreateAccess, T!NewRow, T!CreateTokenSession
<1>6. PICK n : n = [r EXCEPT !.at = "access", !.pair = pairs + 1]
  OBVIOUS
<1>7. /\ n.at = "access" /\ n.pair = pairs + 1 /\ n.session = r.session /\ n.from = r.from
      /\ n.late = r.late /\ n # T!NoRequest
      /\ request' = [request EXCEPT ![q] = n]
  BY <1>1, <1>2, <1>3, <1>6 DEF T!RequestRow, T!CreateAccess, T!NoRequest
<1>8. r.from \in 0..pairs /\ ~r.late /\ Dead(r.session)
  BY <1>1, <1>3 DEF Knows, T!RequestRow
<1>9. \A t \in tokens : t.pair <= pairs /\ t.from <= pairs /\ t \in T!Row
  BY DEF TokensInv, RowsKnown, T!TypeOK
<1>10. \A s : Dead(s) => Dead(s)'
  BY <1>5 DEF Dead
<1>11. RowsKnown'
  BY <1>1, <1>5, <1>8, <1>9, <1>10 DEF RowsKnown, TokensInv, T!Row
<1>12. NothingReplacedServes'
  <2> SUFFICES ASSUME NEW new \in tokens', NEW old \in tokens',
                      new.from # 0, old.session = new.session, old.pair = new.from
               PROVE  old.kind \notin {"access", "refresh"}
    BY DEF NothingReplacedServes
  <2>1. old \in tokens
    BY <1>1, <1>5, <1>8, <1>9 DEF T!Row
  <2>2. CASE new \in tokens
    BY <2>1, <2>2 DEF TokensInv, NothingReplacedServes
  <2>3. CASE new = row
    BY <1>3, <1>5, <2>1, <2>3 DEF Gone
  <2> QED
    BY <1>5, <2>2, <2>3
<1>13. \A x : Knows(x) /\ x \in T!RequestRow => Knows(x)'
  BY <1>1, <1>10 DEF Knows, T!RequestRow
<1>14. \A x : Knows(x) /\ Gone(x) /\ x \in T!RequestRow => Gone(x)'
  BY <1>1, <1>5 DEF Knows, Gone, T!RequestRow
<1>15. \A pair \in 0..pairs : Fresh(pair) /\ pair # r.from => Fresh(pair)'
  BY <1>1, <1>5 DEF Fresh
<1>16. Fresh(n.pair)'
  BY <1>1, <1>5, <1>7, <1>8, <1>9 DEF Fresh, T!Row
<1>17. Knows(n)' /\ Gone(n)'
  BY <1>1, <1>3, <1>5, <1>7, <1>8, <1>10 DEF Knows, Gone
<1>18. ASSUME NEW o \in Calls PROVE RequestKnown(o)'
  <2>1. CASE o = q
    <3>1. n = request'[o]
      BY <1>1, <1>7, <2>1
    <3> QED
      BY <1>16, <1>17, <3>1 DEF RequestKnown, Knows, Gone, Fresh, Dead
  <2>2. CASE o # q
    <3>1. PICK x : x = request[o]
      OBVIOUS
    <3>2. x = request'[o]
      BY <1>1, <1>7, <2>2, <3>1
    <3>3. CASE x = T!NoRequest
      BY <3>2, <3>3 DEF RequestKnown
    <3>4. CASE x # T!NoRequest
      <4>1. x \in T!RequestRow /\ Knows(x) /\ Gone(x) /\ (x.at = "access" => Fresh(x.pair))
        BY <1>1, <3>1, <3>4 DEF TokensInv, RequestKnown
      <4>2. x.at = "access" => x.pair # r.from
        BY <1>2, <1>3, <3>1, NotInTheMaking
      <4>3. x.at = "access" => Fresh(x.pair)'
        BY <1>1, <1>15, <4>1, <4>2 DEF Knows
      <4> QED
        BY <1>13, <1>14, <3>2, <4>1, <4>3 DEF RequestKnown, Knows, Gone, Fresh, Dead
    <3> QED
      BY <3>3, <3>4
  <2> QED
    BY <2>1, <2>2
<1>19. PairsApart'
  <2> SUFFICES ASSUME NEW p \in Calls, NEW o \in Calls, request'[p].at = "access"
               PROVE  /\ request'[o] # T!NoRequest => request'[o].from # request'[p].pair
                      /\ o # p /\ request'[o].at = "access" => request'[o].pair # request'[p].pair
    BY DEF PairsApart
  <2>1. /\ request'[q] = n /\ \A c \in Calls \ {q} : request'[c] = request[c]
    BY <1>1, <1>7
  <2>2. \A c \in Calls : request[c] # T!NoRequest =>
          /\ request[c].from \in 0..pairs
          /\ request[c].at = "access" => request[c].pair \in 1..pairs
    BY <1>1 DEF TokensInv, RequestKnown, Knows, T!RequestRow
  <2>3. \A c \in Calls : request[c].at = "access" => request[c] # T!NoRequest
    BY DEF T!NoRequest
  <2>4. CASE p = q
    BY <1>1, <1>7, <1>8, <2>1, <2>2, <2>3, <2>4
  <2>5. CASE p # q /\ o = q
    BY <1>1, <1>2, <1>3, <1>7, <2>1, <2>2, <2>3, <2>5, NotInTheMaking
  <2>6. CASE p # q /\ o # q
    BY <2>1, <2>6 DEF TokensInv, PairsApart
  <2> QED
    BY <2>4, <2>5, <2>6
<1> QED
  BY <1>11, <1>12, <1>18, <1>19 DEF TokensRelated

\* The pair is complete, and its session answered.
LEMMA PairsAreAnswered ==
  ASSUME TokensInv, NEW q \in Calls, T!CreateRefresh(q)
  PROVE  TokensRelated'
<1>1. /\ pairs \in Nat /\ request \in [Calls -> {T!NoRequest} \cup T!RequestRow]
      /\ request[q].at = "access" /\ pairs' = pairs
  BY BoundsAssumption DEF T!CreateRefresh, TokensInv, T!TypeOK
<1>2. PICK r : r = request[q]
  OBVIOUS
<1>3. /\ r # T!NoRequest /\ r \in T!RequestRow /\ Knows(r) /\ Gone(r) /\ Fresh(r.pair)
      /\ r.at = "access"
  BY <1>1, <1>2 DEF T!NoRequest, TokensInv, RequestKnown
<1>4. PICK row : row = T!NewRow(r.session, "refresh", r.pair, r.from, FALSE)
  OBVIOUS
<1>5. /\ row.session = r.session /\ row.kind = "refresh" /\ row.pair = r.pair /\ row.from = r.from
      /\ tokens' = tokens \cup {row} /\ spent' = spent \cup {r.session}
      /\ request' = [request EXCEPT ![q] = T!NoRequest]
  BY <1>1, <1>2, <1>4 DEF T!CreateRefresh, T!NewRow, T!CreateTokenSession
<1>6. r.from \in 0..pairs /\ Dead(r.session) /\ r.pair \in 1..pairs /\ r.from # r.pair
  BY <1>1, <1>2, <1>3, NotInTheMaking DEF Knows, T!RequestRow
<1>7. \A s : Dead(s) => Dead(s)'
  BY <1>5 DEF Dead
<1>8. RowsKnown'
  BY <1>1, <1>5, <1>6, <1>7 DEF RowsKnown, TokensInv
<1>9. NothingReplacedServes'
  <2> SUFFICES ASSUME NEW new \in tokens', NEW old \in tokens',
                      new.from # 0, old.session = new.session, old.pair = new.from
               PROVE  old.kind \notin {"access", "refresh"}
    BY DEF NothingReplacedServes
  <2>1. new.from # r.pair
    BY <1>3, <1>5, <1>6 DEF Fresh
  <2>2. old \in tokens
    BY <1>5, <2>1
  <2>3. CASE new \in tokens
    BY <2>2, <2>3 DEF TokensInv, NothingReplacedServes
  <2>4. CASE new = row
    BY <1>3, <1>5, <2>2, <2>4 DEF Gone
  <2> QED
    BY <1>5, <2>3, <2>4
<1>10. \A x : Knows(x) => Knows(x)'
  BY <1>1, <1>5, <1>7 DEF Knows
<1>11. \A x : Gone(x) /\ x.from # r.pair => Gone(x)'
  BY <1>5 DEF Gone
<1>12. \A pair : Fresh(pair) /\ pair # r.from /\ pair # r.pair => Fresh(pair)'
  BY <1>5 DEF Fresh
<1>13. ASSUME NEW o \in Calls PROVE RequestKnown(o)'
  <2>1. CASE o = q
    BY <1>1, <1>5, <2>1 DEF RequestKnown
  <2>2. CASE o # q
    <3>1. PICK x : x = request[o]
      OBVIOUS
    <3>2. x = request'[o]
      BY <1>1, <1>5, <2>2, <3>1
    <3>3. CASE x = T!NoRequest
      BY <3>2, <3>3 DEF RequestKnown
    <3>4. CASE x # T!NoRequest
      <4>1. Knows(x) /\ Gone(x) /\ (x.at = "access" => Fresh(x.pair))
        BY <3>1, <3>4 DEF TokensInv, RequestKnown
      <4>2. x.from # r.pair
        BY <1>1, <1>2, <3>1, <3>4, NotInTheMaking
      <4>3. x.at = "access" => x.pair # r.from /\ x.pair # r.pair
        BY <1>2, <1>3, <2>2, <3>1, NotInTheMaking DEF TokensInv, PairsApart
      <4> QED
        BY <1>10, <1>11, <1>12, <3>2, <4>1, <4>2, <4>3 DEF RequestKnown, Knows, Gone, Fresh, Dead
    <3> QED
      BY <3>3, <3>4
  <2> QED
    BY <2>1, <2>2
<1>14. PairsApart'
  BY <1>1, <1>5 DEF TokensInv, PairsApart, T!NoRequest
<1> QED
  BY <1>8, <1>9, <1>13, <1>14 DEF TokensRelated

\* The rest of the invariant, step by step.
LEMMA TokensStand ==
  ASSUME TokensInv, [T!Next]_tokensVars
  PROVE  TokensRelated'
<1>1. CASE UNCHANGED tokensVars
  BY <1>1 DEF tokensVars, TokensRelated, TokensInv, RowsKnown, NothingReplacedServes, PairsApart,
     RequestKnown, Knows, Gone, Fresh, Dead
<1>2. ASSUME NEW q \in Calls, NEW s \in Sessions,
             T!HandleCode(q, s) \/ T!HandleUsedCode(q, s) \/ T!HandleRevoke(q, s)
      PROVE  TokensRelated'
  BY <1>2, RequestsServed
<1>3. ASSUME NEW q \in Calls, NEW s \in Sessions, NEW pair \in 1..MaxPairs, T!HandleRefresh(q, s, pair)
      PROVE  TokensRelated'
  BY <1>3, RequestsServed
<1>4. ASSUME NEW q \in Calls,
             \/ T!FindChallenge(q) \/ T!AnswerChallenge(q) \/ T!FetchCode(q) \/ T!InvalidateCode(q)
             \/ T!FetchRefresh(q) \/ T!Rotate(q) \/ T!RotateAccess(q)
             \/ T!RevokeReused(q) \/ T!RevokeReusedRefresh(q) \/ T!Abandon(q)
      PROVE  TokensRelated'
  BY <1>4, RequestsGoOn
<1>5. ASSUME \/ \E t \in tokens : T!Lapse(t)
             \/ T!DeleteExpiredTokens
      PROVE  TokensRelated'
  <2>1. UNCHANGED <<pairs, spent, request>> /\ tokens \subseteq T!Row
    BY <1>5 DEF T!Lapse, T!DeleteExpiredTokens, TokensInv, T!TypeOK
  <2>2. RowsFewer
    BY <1>5, <2>1, FewerRows DEF T!Lapse, T!DeleteExpiredTokens
  <2>3. PairsApart'
    BY <2>1 DEF TokensInv, PairsApart
  <2>4. ASSUME NEW q \in Calls PROVE RequestKnown(q)'
    <3>1. PICK r : r = request[q]
      OBVIOUS
    <3>2. r # T!NoRequest => Knows(r)' /\ Gone(r)' /\ (r.at = "access" => Fresh(r.pair)')
      BY <2>2, <3>1, FewerKeeps DEF TokensInv, RequestKnown
    <3> QED
      BY <2>1, <3>1, <3>2 DEF RequestKnown, Knows, Gone, Fresh, Dead
  <2> QED
    BY <2>2, <2>3, <2>4, FewerKeeps DEF TokensRelated, TokensInv
<1> QED
  BY <1>1, <1>2, <1>3, <1>4, <1>5, CodesComeFirst, PairsAreNew, PairsAreAnswered DEF T!Next

\* The invariant of the tokens holds throughout.
LEMMA TokensInvariant == ServicesSpec => []TokensInv
<1>1. ServicesInit => TokensInv
  BY TokensStart DEF ServicesInit
<1>2. TokensInv /\ [ServicesNext]_services => TokensInv'
  <2> SUFFICES ASSUME TokensInv, [ServicesNext]_services PROVE TokensInv'
    OBVIOUS
  <2>1. [T!Next]_tokensVars
    BY StepOfEach
  <2>2. T!TypeOK'
    BY <2>1, TokensTyped DEF TokensInv
  <2>3. TokensRelated'
    BY <2>1, TokensStand
  <2> QED
    BY <2>2, <2>3 DEF TokensInv, TokensRelated
<1> QED
  BY <1>1, <1>2, PTL DEF ServicesSpec

\* No request that comes after a code was answered gets another pair for it, and
\* no row of a pair that was refreshed is accepted any more, whatever requests
\* overlap with the one that used it.  (Requests that overlap before the first
\* answer may both be answered; a gateway that checks the signature of a token
\* alone asks for no row.)
THEOREM NothingServesTwice == ServicesSpec => []UsedUpIsDead
<1>1. TokensInv => UsedUpIsDead
  BY TokensUseUp
<1> QED
  BY <1>1, TokensInvariant, PTL

-----------------------------------------------------------------------------
(* Keys.  The two last keys made are always in the table, and whatever key *)
(* is relied on is one that was made.                                      *)

RecentKeys == {k \in 1..made : made - k <= 1}

KeysInv ==
  /\ K!TypeOK
  /\ table \subseteq 1..made
  /\ RecentKeys \subseteq table
  /\ \A i \in Instances : current[i] <= made /\ rotation[i].key <= made
  /\ \A s \in Sessions : header[s] <= made /\ token[s].key <= made /\ token[s].kid <= made

\* Of the keys up to the last one, the two last are the latest.
LEMMA KeysCardinality == \A keys : K!Cardinality(keys) = Cardinality(keys)
BY DEF K!Cardinality, Cardinality

\* The recent keys are among those a clearance keeps.
LEMMA RecentAreLatest ==
  ASSUME K!TypeOK, table \subseteq 1..made, NEW k \in RecentKeys
  PROVE  K!Cardinality(K!Newer(k, table)) < 2
<1>1. made \in Nat /\ k \in 1..made /\ made - k <= 1
  BY BoundsAssumption DEF K!TypeOK, RecentKeys
<1>2. K!Newer(k, table) \subseteq {made}
  <2>1. ASSUME NEW j \in table, j > k PROVE j = made
    <3>1. j \in 1..made
      OBVIOUS
    <3> QED
      BY <1>1, <2>1, <3>1
  <2> QED
    BY <2>1 DEF K!Newer
<1>3. IsFiniteSet({made}) /\ Cardinality({made}) = 1
  BY FS_Singleton
<1>4. Cardinality(K!Newer(k, table)) <= 1 /\ Cardinality(K!Newer(k, table)) \in Nat
  BY <1>2, <1>3, FS_Subset, FS_CardinalityType
<1> QED
  BY <1>4, KeysCardinality

\* The latest keys are in the table.
LEMMA LatestKeys ==
  ASSUME KeysInv
  PROVE  K!Latest(table) \subseteq table /\ RecentKeys \subseteq K!Latest(table)
<1>1. K!Latest(table) \subseteq table
  BY DEF K!Latest
<1>2. RecentKeys \subseteq K!Latest(table)
  BY RecentAreLatest DEF K!Latest, KeysInv
<1> QED
  BY <1>1, <1>2

\* There is one key, which every instance that has one signs with.
LEMMA KeysStart == K!Init => KeysInv
BY BoundsAssumption DEF K!Init, KeysInv, K!TypeOK, RecentKeys, K!Ids, K!NoToken

\* Tables and instances keep their types.
LEMMA KeysTyped ==
  ASSUME K!TypeOK, [K!Next]_keysVars
  PROVE  K!TypeOK'
<1> USE BoundsAssumption DEF K!TypeOK, K!Ids, K!At
<1>1. CASE UNCHANGED keysVars
  BY <1>1 DEF keysVars
<1>2. ASSUME NEW i \in Instances, K!CreateKey(i), UNCHANGED <<current, header, token>>
      PROVE  K!TypeOK'
  <2>1. made' \in 0..MaxKeys /\ made' \in 1..MaxKeys
    BY <1>2 DEF K!CreateKey
  <2> QED
    BY <1>2, <2>1 DEF K!CreateKey
<1>3. ASSUME NEW i \in Instances, K!Initialize(i) PROVE K!TypeOK'
  <2>1. CASE K!CreateKey(i) /\ UNCHANGED <<current, header, token>>
    BY <1>2, <2>1
  <2>2. CASE \E k \in table : current' = [current EXCEPT ![i] = k]
                              /\ UNCHANGED <<table, made, rotation, header, token>>
    BY <2>2
  <2> QED
    BY <1>3, <2>1, <2>2 DEF K!Initialize
<1>4. ASSUME NEW i \in Instances, K!RotateKeys(i) PROVE K!TypeOK'
  BY <1>2, <1>4 DEF K!RotateKeys
<1>5. ASSUME NEW i \in Instances, K!MakeCurrent(i) PROVE K!TypeOK'
  BY <1>5 DEF K!MakeCurrent
<1>6. ASSUME NEW i \in Instances, K!ClearKeys(i) PROVE K!TypeOK'
  <2>1. table' \subseteq table
    BY <1>6 DEF K!ClearKeys, K!Latest
  <2>2. table' \subseteq 1..MaxKeys
    BY <2>1, Zenon
  <2> QED
    BY <1>6, <2>2 DEF K!ClearKeys
<1>7. ASSUME NEW i \in Instances, K!FailRotation(i) PROVE K!TypeOK'
  BY <1>7 DEF K!FailRotation
<1>8. ASSUME NEW i \in Instances, K!Allow(i) PROVE K!TypeOK'
  BY <1>8 DEF K!Allow
<1>9. ASSUME NEW i \in Instances, K!Stop(i) PROVE K!TypeOK'
  BY <1>9 DEF K!Stop
<1>10. ASSUME NEW i \in Instances, NEW s \in Sessions, K!NewSession(i, s) PROVE K!TypeOK'
  BY <1>10 DEF K!NewSession
<1>11. ASSUME NEW i \in Instances, NEW s \in Sessions, K!Sign(i, s) PROVE K!TypeOK'
  BY <1>11 DEF K!Sign
<1> QED
  BY <1>1, <1>3, <1>4, <1>5, <1>6, <1>7, <1>8, <1>9, <1>10, <1>11 DEF K!Next

\* The table changes when a key is made and when old ones are cleared.
LEMMA NewKey ==
  ASSUME KeysInv, NEW i \in Instances, K!CreateKey(i)
  PROVE  table' \subseteq 1..made' /\ RecentKeys' \subseteq table' /\ made <= made'
<1>1. made \in Nat /\ made' = made + 1 /\ table' = table \cup {made + 1}
  BY BoundsAssumption DEF KeysInv, K!TypeOK, K!CreateKey
<1>2. ASSUME NEW k \in RecentKeys' PROVE k \in table'
  <2>1. k \in 1..(made + 1) /\ made + 1 - k <= 1
    BY <1>1 DEF RecentKeys
  <2>2. k = made + 1 \/ k \in RecentKeys
    BY <1>1, <2>1 DEF RecentKeys
  <2> QED
    BY <1>1, <2>2 DEF KeysInv
<1>3. ASSUME NEW k \in table' PROVE k \in 1..made'
  <2>1. k \in table \/ k = made + 1
    BY <1>1
  <2>2. k \in table => k \in 1..made
    BY DEF KeysInv
  <2>3. k \in 1..(made + 1)
    BY <1>1, <2>1, <2>2
  <2> QED
    BY <1>1, <2>3
<1> QED
  BY <1>1, <1>2, <1>3

\* A clearance leaves the two last keys.
LEMMA ClearedKeys ==
  ASSUME KeysInv, NEW i \in Instances, K!ClearKeys(i)
  PROVE  table' \subseteq 1..made' /\ RecentKeys' \subseteq table' /\ made <= made'
<1>1. table' = K!Latest(table) /\ made' = made /\ made \in Nat
  BY BoundsAssumption DEF K!ClearKeys, KeysInv, K!TypeOK
<1>2. RecentKeys' = RecentKeys
  BY <1>1 DEF RecentKeys
<1> QED
  <2>1. table' \subseteq table /\ RecentKeys' \subseteq table'
    BY <1>1, <1>2, LatestKeys
  <2>2. table' \subseteq 1..made
    BY <2>1, Zenon DEF KeysInv
  <2> QED
    BY <1>1, <2>1, <2>2

\* Every step keeps the invariant.
LEMMA KeysKeep ==
  ASSUME KeysInv, [K!Next]_keysVars
  PROVE  KeysInv'
<1>1. K!TypeOK /\ K!TypeOK'
  BY KeysTyped DEF KeysInv
<1>2. table' \subseteq 1..made' /\ RecentKeys' \subseteq table' /\ made <= made'
  <2>1. CASE UNCHANGED <<table, made>>
    <3>1. RecentKeys' = RecentKeys /\ made \in Nat
      BY <1>1, <2>1, BoundsAssumption DEF RecentKeys, K!TypeOK
    <3> QED
      BY <2>1, <3>1 DEF KeysInv
  <2>2. CASE \E i \in Instances : K!CreateKey(i) \/ K!ClearKeys(i)
    BY <2>2, NewKey, ClearedKeys
  <2> QED
    BY <2>1, <2>2 DEF keysVars, K!Next, K!Initialize, K!RotateKeys, K!MakeCurrent,
       K!FailRotation, K!Allow, K!Stop, K!NewSession, K!Sign
<1>3. made \in Nat /\ made' \in Nat
  BY <1>1, BoundsAssumption DEF K!TypeOK
<1>4. ASSUME NEW i \in Instances PROVE current'[i] <= made' /\ rotation'[i].key <= made'
  <2>1. /\ current'[i] \in {0, current[i], rotation[i].key} \/ current'[i] \in table
        /\ rotation'[i].key \in {0, rotation[i].key, made'}
    BY <1>1 DEF keysVars, K!Next, K!Initialize, K!RotateKeys, K!CreateKey, K!MakeCurrent,
       K!ClearKeys, K!FailRotation, K!Allow, K!Stop, K!NewSession, K!Sign, K!At, K!TypeOK
  <2>2. current[i] <= made /\ rotation[i].key <= made
    BY DEF KeysInv
  <2>4. \A k \in table : k <= made
    <3>1. table \subseteq 1..made
      BY DEF KeysInv
    <3> QED
      BY <1>3, <3>1
  <2>3. current'[i] \in 0..MaxKeys /\ rotation'[i].key \in 0..MaxKeys
    BY <1>1 DEF K!TypeOK
  <2> QED
    BY <1>2, <1>3, <2>1, <2>2, <2>3, <2>4
<1>5. ASSUME NEW s \in Sessions
      PROVE  header'[s] <= made' /\ token'[s].key <= made' /\ token'[s].kid <= made'
  <2>1. /\ header'[s] = header[s] \/ \E i \in Instances : header'[s] = current[i]
        /\ token'[s].kid \in {token[s].kid, header[s]}
        /\ token'[s].key = token[s].key \/ \E i \in Instances : token'[s].key = current[i]
    BY <1>1 DEF keysVars, K!Next, K!Initialize, K!RotateKeys, K!CreateKey, K!MakeCurrent,
       K!ClearKeys, K!FailRotation, K!Allow, K!Stop, K!NewSession, K!Sign, K!TypeOK
  <2>2. /\ header[s] <= made /\ token[s].key <= made /\ token[s].kid <= made
        /\ \A i \in Instances : current[i] <= made
    BY DEF KeysInv
  <2>3. /\ header'[s] \in 0..MaxKeys /\ token'[s].key \in 0..MaxKeys
        /\ token'[s].kid \in 0..MaxKeys
    BY <1>1 DEF K!TypeOK
  <2> QED
    BY <1>2, <1>3, <2>1, <2>2, <2>3
<1> QED
  BY <1>1, <1>2, <1>4, <1>5 DEF KeysInv

\* A key that at most one rotation has followed is published.
LEMMA KeysImply == KeysInv => KeyOutlivesRotation
<1> SUFFICES ASSUME KeysInv, NEW k \in K!InUse, K!RotationsSince(k) <= 1
             PROVE  k \in K!Published
  BY DEF KeyOutlivesRotation, K!KeyOutlivesRotation
<1>1. k \in 1..made
  <2>1. k \in 0..MaxKeys /\ k # 0 /\ k <= made
    BY DEF KeysInv, K!TypeOK, K!InUse
  <2> QED
    BY <2>1, BoundsAssumption DEF KeysInv, K!TypeOK
<1>2. k \in RecentKeys
  BY <1>1 DEF RecentKeys, K!RotationsSince
<1> QED
  BY <1>2, RecentAreLatest DEF KeysInv, K!Published, K!Latest

\* The invariant of the keys holds throughout.
LEMMA KeysInvariant == ServicesSpec => []KeysInv
<1>1. ServicesInit => KeysInv
  BY KeysStart DEF ServicesInit
<1>2. KeysInv /\ [ServicesNext]_services => KeysInv'
  BY KeysKeep, StepOfEach
<1> QED
  BY <1>1, <1>2, PTL DEF ServicesSpec

\* A key outlives one rotation: till the second one, who knows it can sign with
\* it, and it is published for the tokens that it has signed and for those that
\* name it, though each instance rotates, clears, fails and starts at times of its
\* own.  (Not that a token names the key that has signed it.)
THEOREM KeysAreKept == ServicesSpec => []KeyOutlivesRotation
  BY KeysInvariant, KeysImply, PTL

-----------------------------------------------------------------------------
(* Contacts.  Codes are never forgotten, nor whom they were made for, and  *)
(* a call that has found one has found one of its own contact.             *)

CodeFor(n, u, k, a) ==
  n \in DOMAIN codes /\ codes[n].user = u /\ codes[n].kind = k /\ codes[n].target = a

TargetsAreThere ==
  \A p \in Calls : confirming[p].at \in {"requested", "counted"} => confirming[p].target \in Addresses

FoundIsTheirs ==
  \A p \in Calls : confirming[p].at = "found" =>
    CodeFor(confirming[p].code, confirming[p].user, confirming[p].kind, confirming[p].target)

ContactsInv == C!TypeOK /\ TargetsAreThere /\ FoundIsTheirs /\ ConfirmedByItsCode

ContactCall ==
  [at : {"requested", "counted", "presented", "found"}, user : Owners, kind : Kinds,
   target : Addresses \cup {Nothing}, code : 0..MaxCodes]

Profile == {C!NoUser} \cup [Kinds -> C!Contact]

NumberedCodes(n) == n \in 0..MaxCodes /\ DOMAIN codes = 1..n /\ codes \in [1..n -> C!Code]

\* Nobody is registered, and no code was made.
LEMMA ContactsStart == C!Init => ContactsInv
<1> SUFFICES ASSUME C!Init PROVE ContactsInv
  OBVIOUS
<1>1. C!TypeOK
  <2>1. 0 \in 0..MaxCodes /\ DOMAIN codes = 1..0 /\ codes \in [1..0 -> C!Code]
    BY BoundsAssumption DEF C!Init
  <2> QED
    BY <2>1 DEF C!Init, C!TypeOK
<1>2. TargetsAreThere /\ FoundIsTheirs
  BY DEF C!Init, TargetsAreThere, FoundIsTheirs, C!NoCall
<1>3. ConfirmedByItsCode
  BY DEF C!Init, ConfirmedByItsCode, C!ConfirmedByItsCode
<1> QED
  BY <1>1, <1>2, <1>3 DEF ContactsInv

\* Codes are numbered without gaps.
LEMMA NextCode ==
  ASSUME NEW n, NumberedCodes(n)
  PROVE  C!Next0 = n + 1
<1>1. C!Cardinality(1..n) = Cardinality(1..n)
  BY DEF C!Cardinality, Cardinality
<1>2. Cardinality(1..n) = n
  BY FS_Interval, BoundsAssumption DEF NumberedCodes
<1> QED
  BY <1>1, <1>2 DEF NumberedCodes, C!Next0

\* How a step may change one code.
LEMMA CodeChanges ==
  ASSUME NEW n, NumberedCodes(n), NEW i \in 1..n, NEW row \in C!Code,
         codes' = [codes EXCEPT ![i] = row]
  PROVE  NumberedCodes(n)'
BY DEF NumberedCodes

\* Profiles, codes and calls keep their types.
LEMMA ContactsTyped ==
  ASSUME C!TypeOK, TargetsAreThere, FoundIsTheirs, [C!Next]_contactsVars
  PROVE  C!TypeOK'
<1>1. PICK n : NumberedCodes(n)
  BY DEF C!TypeOK, NumberedCodes
<1>2. /\ contact \in [Owners -> Profile] /\ confirming \in [Calls -> {C!NoCall} \cup ContactCall]
      /\ \A p \in Calls : confirming[p].at # "idle" => confirming[p] \in ContactCall
      /\ \A p \in Calls : confirming[p] # C!NoCall => confirming[p] \in ContactCall
  BY DEF C!TypeOK, Profile, ContactCall, C!NoCall
<1>3. ASSUME /\ contact' \in [Owners -> Profile] /\ confirming' \in [Calls -> {C!NoCall} \cup ContactCall],
             NEW m, NumberedCodes(m)'
      PROVE  C!TypeOK'
  BY <1>3 DEF C!TypeOK, Profile, ContactCall, NumberedCodes
<1>4. ASSUME UNCHANGED codes PROVE NumberedCodes(n)'
  BY <1>1, <1>4 DEF NumberedCodes
<1>5. ASSUME NEW p \in Calls, NEW c \in {C!NoCall} \cup ContactCall,
             confirming' = [confirming EXCEPT ![p] = c]
      PROVE  confirming' \in [Calls -> {C!NoCall} \cup ContactCall]
  BY <1>2, <1>5
<1>6. CASE UNCHANGED contactsVars
  BY <1>2, <1>3, <1>4, <1>6 DEF contactsVars
<1>7. ASSUME NEW u \in Owners, NEW contacts \in [Kinds -> Addresses \cup {Nothing}],
             C!Register(u, contacts)
      PROVE  C!TypeOK'
  <2>1. [k \in Kinds |-> [address |-> contacts[k], confirmed |-> FALSE]] \in Profile
    BY DEF Profile, C!Contact
  <2>2. contact' \in [Owners -> Profile]
    BY <1>2, <1>7, <2>1 DEF C!Register
  <2> QED
    BY <1>2, <1>3, <1>4, <1>7, <2>2 DEF C!Register
<1>8. ASSUME NEW u \in Owners, NEW k \in Kinds, NEW a \in Addresses \cup {Nothing},
             C!UpdateProfile(u, k, a)
      PROVE  C!TypeOK'
  <2>1. contact[u] \in [Kinds -> C!Contact]
    BY <1>2, <1>8 DEF Profile, C!UpdateProfile
  <2>2. C!Updated(contact[u][k], a) \in C!Contact
    BY <2>1 DEF C!Updated, C!Contact
  <2>3. [contact[u] EXCEPT ![k] = C!Updated(contact[u][k], a)] \in Profile
    BY <2>1, <2>2 DEF Profile
  <2>4. contact' = [contact EXCEPT ![u] = [contact[u] EXCEPT ![k] = C!Updated(contact[u][k], a)]]
    BY <1>8 DEF C!UpdateProfile
  <2>5. contact' \in [Owners -> Profile]
    BY <1>2, <2>3, <2>4
  <2> QED
    BY <1>2, <1>3, <1>4, <1>8, <2>5 DEF C!UpdateProfile
<1>9. ASSUME NEW p \in Calls, NEW u \in Owners, NEW k \in Kinds,
             C!RequestConfirmation(p, u, k) \/ C!VerifyConfirmation(p, u, k)
      PROVE  C!TypeOK'
  <2>1. contact[u] \in [Kinds -> C!Contact]
    BY <1>2, <1>9 DEF Profile, C!RequestConfirmation, C!VerifyConfirmation
  <2>2. contact[u][k].address \in Addresses \cup {Nothing}
    BY <2>1 DEF C!Contact
  <2>3. \A at \in {"requested", "presented"} :
          [at |-> at, user |-> u, kind |-> k, target |-> contact[u][k].address, code |-> 0] \in ContactCall
    BY <2>2, BoundsAssumption DEF ContactCall
  <2>4. confirming' \in [Calls -> {C!NoCall} \cup ContactCall]
    BY <1>5, <1>9, <2>3 DEF C!RequestConfirmation, C!VerifyConfirmation
  <2> QED
    BY <1>2, <1>3, <1>4, <1>9, <2>4 DEF C!RequestConfirmation, C!VerifyConfirmation
<1>10. ASSUME NEW p \in Calls, C!CountConfirmations(p) PROVE C!TypeOK'
  <2>1. [confirming[p] EXCEPT !.at = "counted"] \in ContactCall
    BY <1>2, <1>10 DEF C!CountConfirmations, ContactCall
  <2>2. confirming' \in [Calls -> {C!NoCall} \cup ContactCall]
    BY <1>5, <1>10, <2>1 DEF C!CountConfirmations
  <2> QED
    BY <1>2, <1>3, <1>4, <1>10, <2>2 DEF C!CountConfirmations
<1>11. ASSUME NEW p \in Calls, confirming' = [confirming EXCEPT ![p] = C!NoCall]
       PROVE  confirming' \in [Calls -> {C!NoCall} \cup ContactCall]
  BY <1>5, <1>11
<1>12. ASSUME NEW p \in Calls, C!CreateConfirmation(p) PROVE C!TypeOK'
  <2> DEFINE row == [user |-> confirming[p].user, kind |-> confirming[p].kind,
                     target |-> confirming[p].target, attempts |-> 0, age |-> 0, confirmed |-> FALSE,
                     reached |-> "nobody"]
  <2>1. C!Next0 = n + 1 /\ n \in 0..MaxCodes /\ n + 1 \in 0..MaxCodes
    BY <1>1, <1>12, NextCode, BoundsAssumption DEF NumberedCodes, C!CreateConfirmation
  <2>2. row \in C!Code
    BY <1>2, <1>12 DEF TargetsAreThere, C!CreateConfirmation, ContactCall, C!Code
  <2>3. codes' = [i \in 1..(n + 1) |-> IF i < n + 1 THEN codes[i] ELSE row]
    BY <1>12, <2>1 DEF C!CreateConfirmation
  <2>4. \A i \in 1..(n + 1) : i < n + 1 => codes[i] \in C!Code
    BY <1>1, <2>1 DEF NumberedCodes
  <2>5. NumberedCodes(n + 1)'
    BY <2>1, <2>2, <2>3, <2>4 DEF NumberedCodes
  <2> QED
    BY <1>2, <1>3, <1>11, <1>12, <2>5 DEF C!CreateConfirmation
<1>13. ASSUME NEW p \in Calls, C!ActiveConfirmation(p) PROVE C!TypeOK'
  <2>1. PICK i \in DOMAIN codes : confirming' = [confirming EXCEPT ![p].at = "found", ![p].code = i]
    BY <1>13 DEF C!ActiveConfirmation, C!Active, C!CodesOf
  <2>2. i \in 0..MaxCodes
    BY <1>1, BoundsAssumption DEF NumberedCodes
  <2>3. [confirming[p] EXCEPT !.at = "found", !.code = i] \in ContactCall
    BY <1>2, <1>13, <2>2 DEF C!ActiveConfirmation, ContactCall
  <2>4. confirming' = [confirming EXCEPT ![p] = [confirming[p] EXCEPT !.at = "found", !.code = i]]
    BY <1>2, <2>1
  <2>5. confirming' \in [Calls -> {C!NoCall} \cup ContactCall]
    BY <1>5, <2>3, <2>4
  <2> QED
    BY <1>2, <1>3, <1>4, <1>13, <2>5 DEF C!ActiveConfirmation
<1>14. ASSUME NEW p \in Calls, C!FailConfirmation(p) PROVE C!TypeOK'
  <2> DEFINE i == confirming[p].code
  <2>1. i \in 1..n
    BY <1>1, <1>14 DEF C!FailConfirmation, FoundIsTheirs, CodeFor, NumberedCodes
  <2>2. codes[i] \in C!Code
    BY <1>1, <2>1 DEF NumberedCodes
  <2>3. [codes[i] EXCEPT !.attempts = @ + 1] \in C!Code
    BY <2>2 DEF C!Code
  <2>4. NumberedCodes(n)'
    BY <1>1, <1>4, <1>14, <2>1, <2>3, CodeChanges DEF C!FailConfirmation
  <2> QED
    BY <1>2, <1>3, <1>11, <1>14, <2>4 DEF C!FailConfirmation
<1>15. ASSUME NEW p \in Calls, C!ConfirmContact(p) PROVE C!TypeOK'
  <2> DEFINE i == confirming[p].code
             u == confirming[p].user
             k == confirming[p].kind
  <2>1. i \in 1..n /\ u \in Owners /\ k \in Kinds
    BY <1>1, <1>2, <1>15 DEF C!ConfirmContact, FoundIsTheirs, CodeFor, NumberedCodes, ContactCall
  <2>2. codes[i] \in C!Code
    BY <1>1, <2>1 DEF NumberedCodes
  <2>3. [codes[i] EXCEPT !.confirmed = TRUE] \in C!Code
    BY <2>2 DEF C!Code
  <2>4. NumberedCodes(n)'
    BY <1>1, <1>15, <2>1, <2>3, CodeChanges DEF C!ConfirmContact
  <2>5. \A q \in Profile : [q EXCEPT ![k].confirmed = TRUE] \in Profile
    BY <2>1 DEF Profile, C!NoUser, C!Contact
  <2>6. contact' \in [Owners -> Profile]
    BY <1>2, <1>15, <2>1, <2>5 DEF C!ConfirmContact
  <2> QED
    BY <1>3, <1>11, <1>15, <2>4, <2>6 DEF C!ConfirmContact
<1>16. ASSUME NEW p \in Calls, C!Refuse(p) PROVE C!TypeOK'
  BY <1>2, <1>3, <1>4, <1>11, <1>16 DEF C!Refuse
<1>17. ASSUME NEW i \in DOMAIN codes, C!Age(i) PROVE C!TypeOK'
  <2>1. i \in 1..n /\ codes[i] \in C!Code
    BY <1>1 DEF NumberedCodes
  <2>2. [codes[i] EXCEPT !.age = @ + 1] \in C!Code
    BY <1>17, <2>1 DEF C!Code, C!Age
  <2>3. NumberedCodes(n)'
    BY <1>1, <1>17, <2>1, <2>2, CodeChanges DEF C!Age
  <2> QED
    BY <1>2, <1>3, <1>17, <2>3 DEF C!Age
<1>18. ASSUME NEW i \in DOMAIN codes, C!Deliver(i) PROVE C!TypeOK'
  <2>1. i \in 1..n /\ codes[i] \in C!Code
    BY <1>1 DEF NumberedCodes
  <2>2. PICK place \in {"elsewhere", "target"} :
          codes' = [codes EXCEPT ![i] = [codes[i] EXCEPT !.reached = place]]
    BY <1>18 DEF C!Deliver, C!Places
  <2>3. [codes[i] EXCEPT !.reached = place] \in C!Code
    BY <2>1 DEF C!Code
  <2>4. NumberedCodes(n)'
    BY <1>1, <2>1, <2>2, <2>3, CodeChanges
  <2> QED
    BY <1>2, <1>3, <1>18, <2>4 DEF C!Deliver
<1> QED
  BY <1>6, <1>7, <1>8, <1>9, <1>10, <1>12, <1>13, <1>14, <1>15, <1>16, <1>17, <1>18 DEF C!Next

\* A code keeps its user, kind and target, and once confirmed or seen stays so.
CodeKept(n) ==
  /\ n \in DOMAIN codes'
  /\ codes'[n].user = codes[n].user /\ codes'[n].kind = codes[n].kind
  /\ codes'[n].target = codes[n].target
  /\ codes[n].confirmed => codes'[n].confirmed
  /\ codes[n].reached # "nobody" => codes'[n].reached # "nobody"

\* A code that changes is still a code of the same contact.
LEMMA OneCodeChanges ==
  ASSUME NEW i \in DOMAIN codes, NEW n \in DOMAIN codes, NEW m, NumberedCodes(m),
         \/ codes' = [codes EXCEPT ![i].attempts = @ + 1]
         \/ codes' = [codes EXCEPT ![i].age = @ + 1]
         \/ codes' = [codes EXCEPT ![i].confirmed = TRUE]
         \/ \E place \in {"elsewhere", "target"} : codes' = [codes EXCEPT ![i].reached = place]
  PROVE  CodeKept(n)
BY DEF CodeKept, NumberedCodes, C!Code

\* No step forgets a code or whom it was made for.
LEMMA CodesAreKept ==
  ASSUME C!TypeOK, FoundIsTheirs, [C!Next]_contactsVars, NEW n \in DOMAIN codes
  PROVE  CodeKept(n)
<1>1. PICK m : NumberedCodes(m)
  BY DEF C!TypeOK, NumberedCodes
<1>2. CASE UNCHANGED codes
  BY <1>2 DEF CodeKept
<1>3. ASSUME NEW p \in Calls, C!CreateConfirmation(p) PROVE CodeKept(n)
  <2>1. C!Next0 = m + 1 /\ n \in 1..m /\ m \in Nat
    BY <1>1, NextCode, BoundsAssumption DEF NumberedCodes
  <2>2. n \in 1..(m + 1) /\ n < m + 1
    BY <2>1
  <2> QED
    BY <1>3, <2>1, <2>2 DEF C!CreateConfirmation, CodeKept
<1>4. ASSUME NEW p \in Calls, C!FailConfirmation(p) \/ C!ConfirmContact(p) PROVE CodeKept(n)
  <2>1. confirming[p].code \in DOMAIN codes
    BY <1>4 DEF C!FailConfirmation, C!ConfirmContact, FoundIsTheirs, CodeFor
  <2> QED
    BY <1>1, <1>2, <1>4, <2>1, OneCodeChanges DEF C!FailConfirmation, C!ConfirmContact
<1>5. ASSUME NEW i \in DOMAIN codes, C!Age(i) PROVE CodeKept(n)
  BY <1>1, <1>5, OneCodeChanges DEF C!Age
<1>11. ASSUME NEW i \in DOMAIN codes, C!Deliver(i) PROVE CodeKept(n)
  <2>1. \E place \in {"elsewhere", "target"} : codes' = [codes EXCEPT ![i].reached = place]
    BY <1>11 DEF C!Deliver, C!Places
  <2> QED
    BY <1>1, <2>1, OneCodeChanges
<1>6. CASE UNCHANGED contactsVars
  BY <1>2, <1>6 DEF contactsVars
<1>7. ASSUME NEW u, NEW b, C!Register(u, b) PROVE CodeKept(n)
  BY <1>2, <1>7 DEF C!Register
<1>8. ASSUME NEW u, NEW k, NEW a, C!UpdateProfile(u, k, a) PROVE CodeKept(n)
  BY <1>2, <1>8 DEF C!UpdateProfile
<1>9. ASSUME NEW p, NEW u, NEW k, C!RequestConfirmation(p, u, k) \/ C!VerifyConfirmation(p, u, k)
      PROVE  CodeKept(n)
  BY <1>2, <1>9 DEF C!RequestConfirmation, C!VerifyConfirmation
<1>10. ASSUME NEW p, C!CountConfirmations(p) \/ C!ActiveConfirmation(p) \/ C!Refuse(p)
       PROVE  CodeKept(n)
  BY <1>2, <1>10 DEF C!CountConfirmations, C!ActiveConfirmation, C!Refuse
<1> QED
  BY <1>3, <1>4, <1>5, <1>6, <1>7, <1>8, <1>9, <1>10, <1>11 DEF C!Next

\* What the calls know after a step.
CodeThen(n, u, k, a) ==
  n \in DOMAIN codes' /\ codes'[n].user = u /\ codes'[n].kind = k /\ codes'[n].target = a

CallKnows(q) ==
  /\ confirming'[q].at \in {"requested", "counted"} => confirming'[q].target \in Addresses
  /\ confirming'[q].at = "found" =>
       CodeThen(confirming'[q].code, confirming'[q].user, confirming'[q].kind, confirming'[q].target)

\* What a call has read of its code stays true, whatever the others do.
LEMMA CallsKnow ==
  ASSUME C!TypeOK, TargetsAreThere, FoundIsTheirs, [C!Next]_contactsVars
  PROVE  TargetsAreThere' /\ FoundIsTheirs'
<1> SUFFICES ASSUME NEW q \in Calls PROVE CallKnows(q)
  BY DEF TargetsAreThere, FoundIsTheirs, CodeFor, CodeThen, CallKnows
<1>1. confirming \in [Calls -> {C!NoCall} \cup ContactCall]
  BY DEF C!TypeOK, ContactCall
<1>2. ASSUME NEW n, NEW u, NEW k, NEW a, CodeFor(n, u, k, a)
      PROVE  CodeThen(n, u, k, a)
  BY <1>2, CodesAreKept DEF CodeFor, CodeThen, CodeKept
<1>3. CASE confirming'[q] = confirming[q]
  BY <1>2, <1>3 DEF TargetsAreThere, FoundIsTheirs, CallKnows
<1>4. CASE confirming'[q] = C!NoCall
  BY <1>4 DEF C!NoCall, CallKnows
<1>5. ASSUME NEW p \in Calls, confirming' = [confirming EXCEPT ![p] = C!NoCall] PROVE CallKnows(q)
  BY <1>1, <1>3, <1>4, <1>5
<1>6. CASE UNCHANGED confirming
  BY <1>3, <1>6
<1>7. ASSUME NEW p \in Calls, NEW c, confirming' = [confirming EXCEPT ![p] = c],
             c.at \in {"requested", "counted", "presented", "found"},
             c.at \in {"requested", "counted"} => c.target \in Addresses,
             c.at = "found" => CodeThen(c.code, c.user, c.kind, c.target)
      PROVE  CallKnows(q)
  BY <1>1, <1>3, <1>7 DEF CallKnows
<1>8. ASSUME NEW p \in Calls, NEW u \in Owners, NEW k \in Kinds,
             C!RequestConfirmation(p, u, k) \/ C!VerifyConfirmation(p, u, k)
      PROVE  CallKnows(q)
  <2>1. contact[u][k].address \in Addresses \cup {Nothing}
    BY <1>8 DEF C!TypeOK, C!Contact, C!RequestConfirmation, C!VerifyConfirmation
  <2> QED
    BY <1>7, <1>8, <2>1 DEF C!RequestConfirmation, C!VerifyConfirmation
<1>9. ASSUME NEW p \in Calls, C!CountConfirmations(p) PROVE CallKnows(q)
  <2>1. confirming[p] \in ContactCall /\ confirming[p].target \in Addresses
    BY <1>1, <1>9 DEF C!CountConfirmations, C!NoCall, TargetsAreThere
  <2>2. confirming' = [confirming EXCEPT ![p] = [confirming[p] EXCEPT !.at = "counted"]]
    BY <1>9 DEF C!CountConfirmations
  <2>3. /\ [confirming[p] EXCEPT !.at = "counted"].at = "counted"
        /\ [confirming[p] EXCEPT !.at = "counted"].target = confirming[p].target
    BY <2>1 DEF ContactCall
  <2> QED
    BY <1>7, <2>1, <2>2, <2>3
<1>10. ASSUME NEW p \in Calls, C!ActiveConfirmation(p) PROVE CallKnows(q)
  <2>1. PICK i \in C!Active(confirming[p].user, confirming[p].kind) :
          /\ codes[i].target = confirming[p].target
          /\ confirming' = [confirming EXCEPT ![p].at = "found", ![p].code = i]
    BY <1>10 DEF C!ActiveConfirmation
  <2>2. confirming[p] \in ContactCall
    BY <1>1, <1>10 DEF C!ActiveConfirmation, C!NoCall
  <2>3. PICK c : c = [confirming[p] EXCEPT !.at = "found", !.code = i]
    OBVIOUS
  <2>4. /\ c.at = "found" /\ c.code = i /\ c.user = confirming[p].user
        /\ c.kind = confirming[p].kind /\ c.target = confirming[p].target
    BY <2>2, <2>3 DEF ContactCall
  <2>5. CodeFor(i, confirming[p].user, confirming[p].kind, confirming[p].target)
    BY <2>1 DEF C!Active, C!CodesOf, CodeFor
  <2>6. CodeThen(c.code, c.user, c.kind, c.target)
    BY <1>2, <2>4, <2>5
  <2>7. confirming' = [confirming EXCEPT ![p] = c]
    BY <1>1, <2>1, <2>3
  <2> QED
    BY <1>7, <2>4, <2>6, <2>7
<1>11. ASSUME NEW p \in Calls, \/ C!CreateConfirmation(p) \/ C!FailConfirmation(p)
                              \/ C!ConfirmContact(p) \/ C!Refuse(p)
       PROVE  CallKnows(q)
  BY <1>5, <1>11 DEF C!CreateConfirmation, C!FailConfirmation, C!ConfirmContact, C!Refuse
<1>12. ASSUME NEW u, NEW b, C!Register(u, b) PROVE CallKnows(q)
  BY <1>6, <1>12 DEF C!Register
<1>13. ASSUME NEW u, NEW k, NEW a, C!UpdateProfile(u, k, a) PROVE CallKnows(q)
  BY <1>6, <1>13 DEF C!UpdateProfile
<1>14. ASSUME NEW i, C!Age(i) \/ C!Deliver(i) PROVE CallKnows(q)
  BY <1>6, <1>14 DEF C!Age, C!Deliver
<1>15. CASE UNCHANGED contactsVars
  BY <1>6, <1>15 DEF contactsVars
<1> QED
  BY <1>8, <1>9, <1>10, <1>11, <1>12, <1>13, <1>14, <1>15 DEF C!Next

ConfirmedThen(v, l) ==
  \E n \in DOMAIN codes' :
    /\ codes'[n].user = v /\ codes'[n].kind = l /\ codes'[n].confirmed
    /\ codes'[n].target = contact'[v][l].address /\ codes'[n].reached # "nobody"

\* A confirmed address stays confirmed by a code of its own, until it changes.
LEMMA ConfirmationsStand ==
  ASSUME C!TypeOK, FoundIsTheirs, ConfirmedByItsCode, [C!Next]_contactsVars
  PROVE  ConfirmedByItsCode'
<1> SUFFICES ASSUME NEW v \in Owners, NEW l \in Kinds,
                    contact'[v] # C!NoUser, contact'[v][l].confirmed
             PROVE  ConfirmedThen(v, l)
  BY DEF ConfirmedByItsCode, C!ConfirmedByItsCode, C!CodesOf, ConfirmedThen
<1>1. contact \in [Owners -> Profile]
  BY DEF C!TypeOK, Profile
<1>2. ASSUME contact[v] # C!NoUser, contact[v][l] = contact'[v][l] PROVE ConfirmedThen(v, l)
  <2>1. PICK n \in DOMAIN codes :
          /\ codes[n].user = v /\ codes[n].kind = l /\ codes[n].confirmed
          /\ codes[n].target = contact[v][l].address /\ codes[n].reached # "nobody"
    BY <1>2 DEF ConfirmedByItsCode, C!ConfirmedByItsCode, C!CodesOf
  <2> QED
    BY <1>2, <2>1, CodesAreKept DEF CodeKept, ConfirmedThen
<1>3. CASE UNCHANGED contact
  BY <1>2, <1>3
<1>4. ASSUME NEW u \in Owners, NEW contacts \in [Kinds -> Addresses \cup {Nothing}],
             C!Register(u, contacts)
      PROVE  ConfirmedThen(v, l)
  <2>1. v # u
    BY <1>1, <1>4 DEF C!Register
  <2> QED
    BY <1>1, <1>2, <1>4, <2>1 DEF C!Register
<1>5. ASSUME NEW u \in Owners, NEW k \in Kinds, NEW a \in Addresses \cup {Nothing},
             C!UpdateProfile(u, k, a)
      PROVE  ConfirmedThen(v, l)
  <2>1. contact[u] \in [Kinds -> C!Contact]
    BY <1>1, <1>5 DEF Profile, C!UpdateProfile
  <2>2. contact' = [contact EXCEPT ![u] = [contact[u] EXCEPT ![k] = C!Updated(contact[u][k], a)]]
    BY <1>5 DEF C!UpdateProfile
  <2>3. CASE v = u /\ l = k
    <3>1. contact'[v][l] = C!Updated(contact[v][l], a)
      BY <1>1, <2>1, <2>2, <2>3
    <3>2. contact'[v][l] = contact[v][l]
      BY <2>1, <2>3, <3>1 DEF C!Updated
    <3> QED
      BY <1>2, <1>5, <2>3, <3>2 DEF C!UpdateProfile
  <2>4. CASE v # u \/ l # k
    <3>1. contact'[v][l] = contact[v][l]
      BY <1>1, <2>1, <2>2, <2>4
    <3>2. contact[v] # C!NoUser
      BY <1>1, <1>5, <2>2 DEF C!UpdateProfile
    <3> QED
      BY <1>2, <3>1, <3>2
  <2> QED
    BY <2>3, <2>4
<1>6. ASSUME NEW p \in Calls, C!ConfirmContact(p) PROVE ConfirmedThen(v, l)
  <2> DEFINE i == confirming[p].code
             u == confirming[p].user
             k == confirming[p].kind
  <2>1. u \in Owners /\ k \in Kinds
    BY <1>6 DEF C!TypeOK, C!ConfirmContact, C!NoCall
  <2>2. CodeFor(i, u, k, contact[u][k].address)
    BY <1>6 DEF C!ConfirmContact, FoundIsTheirs
  <2>3. codes' = [codes EXCEPT ![i].confirmed = TRUE]
    BY <1>6 DEF C!ConfirmContact
  <2>4. codes[i] \in C!Code
    BY <2>2 DEF C!TypeOK, CodeFor
  <2>5. /\ i \in DOMAIN codes' /\ codes'[i].user = u /\ codes'[i].kind = k
        /\ codes'[i].confirmed /\ codes'[i].target = contact[u][k].address
        /\ codes'[i].reached # "nobody"
    BY <1>6, <2>2, <2>3, <2>4 DEF CodeFor, C!Code, C!ConfirmContact
  <2>6. contact' = [contact EXCEPT ![u] = [contact[u] EXCEPT ![k].confirmed = TRUE]]
    BY <1>6 DEF C!ConfirmContact
  <2>7. CASE contact[u] = C!NoUser
    <3>1. [contact[u] EXCEPT ![k].confirmed = TRUE] = contact[u]
      BY <2>7 DEF C!NoUser
    <3>2. contact' = contact
      BY <1>1, <2>1, <2>6, <3>1
    <3> QED
      BY <1>3, <3>2
  <2>8. CASE contact[u] # C!NoUser
    <3>1. contact[u] \in [Kinds -> C!Contact]
      BY <1>1, <2>1, <2>8 DEF Profile
    <3>2. CASE v = u /\ l = k
      <4>1. contact'[v][l] = [contact[u][k] EXCEPT !.confirmed = TRUE]
        BY <1>1, <2>1, <2>6, <3>1, <3>2
      <4>2. contact'[v][l].address = contact[u][k].address
        BY <2>1, <3>1, <4>1 DEF C!Contact
      <4> QED
        BY <2>5, <3>2, <4>2 DEF ConfirmedThen
    <3>3. CASE v # u \/ l # k
      <4>1. contact'[v][l] = contact[v][l]
        BY <1>1, <2>1, <2>6, <3>1, <3>3
      <4>2. contact[v] # C!NoUser
        BY <1>1, <2>1, <2>6, <2>8
      <4> QED
        BY <1>2, <4>1, <4>2
    <3> QED
      BY <3>2, <3>3
  <2> QED
    BY <2>7, <2>8
<1>7. ASSUME NEW p, NEW u, NEW k, C!RequestConfirmation(p, u, k) \/ C!VerifyConfirmation(p, u, k)
      PROVE  ConfirmedThen(v, l)
  BY <1>3, <1>7 DEF C!RequestConfirmation, C!VerifyConfirmation
<1>8. ASSUME NEW p, \/ C!CountConfirmations(p) \/ C!CreateConfirmation(p) \/ C!ActiveConfirmation(p)
                    \/ C!FailConfirmation(p) \/ C!Refuse(p)
      PROVE  ConfirmedThen(v, l)
  BY <1>3, <1>8 DEF C!CountConfirmations, C!CreateConfirmation, C!ActiveConfirmation,
     C!FailConfirmation, C!Refuse
<1>9. ASSUME NEW i, C!Age(i) \/ C!Deliver(i) PROVE ConfirmedThen(v, l)
  BY <1>3, <1>9 DEF C!Age, C!Deliver
<1>10. CASE UNCHANGED contactsVars
  BY <1>3, <1>10 DEF contactsVars
<1> QED
  BY <1>4, <1>5, <1>6, <1>7, <1>8, <1>9, <1>10 DEF C!Next

\* The invariant of the contacts holds throughout.
LEMMA ContactsInvariant == ServicesSpec => []ContactsInv
<1>1. ServicesInit => ContactsInv
  BY ContactsStart DEF ServicesInit
<1>2. ContactsInv /\ [ServicesNext]_services => ContactsInv'
  BY StepOfEach, ContactsTyped, CallsKnow, ConfirmationsStand DEF ContactsInv
<1> QED
  BY <1>1, <1>2, PTL DEF ServicesSpec

\* An address that counts as confirmed was confirmed with a code that had come to
\* its owner and was made while this address stood in his profile, though the
\* contact may change between the request of a code, its delivery and its use.
\* (Not that the code came to the address.)
THEOREM ContactsAreConfirmed == ServicesSpec => []ConfirmedByItsCode
<1>1. ContactsInv => ConfirmedByItsCode
  BY DEF ContactsInv
<1> QED
  BY <1>1, ContactsInvariant, PTL

-----------------------------------------------------------------------------
(* Identities.  A callback that has been named an account keeps it, and    *)
(* an account that has an owner is lost by unlinking alone.                *)

Callback == [at : {"taken", "named", "known", "unknown"}, provider : I!Providers,
             link : I!Everybody \cup {Nothing}, account : Accounts \cup {Nothing}]

AccountsAreNamed ==
  \A p \in Calls : callback[p].at \in {"named", "known", "unknown"} => callback[p].account \in Accounts

IdentitiesInv == I!TypeOK /\ AccountsAreNamed /\ EverybodyCanLogIn

\* There are only the registered users, who have passwords.
LEMMA IdentitiesStart == I!Init => IdentitiesInv
<1> SUFFICES ASSUME I!Init PROVE IdentitiesInv
  OBVIOUS
<1>1. I!TypeOK
  BY DEF I!Init, I!TypeOK, I!Everybody
<1>2. AccountsAreNamed /\ EverybodyCanLogIn
  BY DEF I!Init, AccountsAreNamed, EverybodyCanLogIn, I!EverybodyCanLogIn, I!PasswordSet,
     I!NoCallback
<1> QED
  BY <1>1, <1>2 DEF IdentitiesInv

\* What a callback may come to.
LEMMA CallbackMoves ==
  ASSUME I!TypeOK, AccountsAreNamed, NEW p \in Calls, NEW c \in {I!NoCallback} \cup Callback,
         c.at \in {"named", "known", "unknown"} => c.account \in Accounts,
         callback' = [callback EXCEPT ![p] = c]
  PROVE  callback' \in [Calls -> {I!NoCallback} \cup Callback] /\ AccountsAreNamed'
BY DEF I!TypeOK, Callback, AccountsAreNamed

\* Accounts, logins and callbacks keep their types.
LEMMA IdentitiesTyped ==
  ASSUME I!TypeOK, AccountsAreNamed, [I!Next]_identitiesVars
  PROVE  I!TypeOK' /\ AccountsAreNamed'
<1>1. ASSUME UNCHANGED callback PROVE AccountsAreNamed'
  BY <1>1 DEF AccountsAreNamed
<1>2. \A p \in Calls : callback[p].at # "idle" => callback[p] \in Callback
  BY DEF I!TypeOK, Callback, I!NoCallback
<1>3. CASE UNCHANGED identitiesVars
  BY <1>1, <1>3 DEF identitiesVars, I!TypeOK
<1>4. ASSUME NEW state \in States, NEW provider \in I!Providers, NEW link \in I!Everybody \cup {Nothing},
             I!StartSocialLogin(state, provider, link)
      PROVE  I!TypeOK' /\ AccountsAreNamed'
  BY <1>1, <1>4 DEF I!StartSocialLogin, I!InsertLogin, I!TypeOK, I!Login
<1>5. ASSUME NEW p \in Calls, NEW login \in logins, NEW provider \in I!Providers,
             I!TakeSocialLogin(p, login, provider)
      PROVE  I!TypeOK' /\ AccountsAreNamed'
  <2> DEFINE c == IF login.provider = provider
                  THEN [at |-> "taken", provider |-> provider, link |-> login.link,
                        account |-> Nothing]
                  ELSE I!NoCallback
  <2>1. login.link \in I!Everybody \cup {Nothing}
    BY DEF I!TypeOK, I!Login
  <2>2. c \in {I!NoCallback} \cup Callback /\ c.at \notin {"named", "known", "unknown"}
    BY <2>1 DEF Callback, I!NoCallback
  <2>3. callback' = [callback EXCEPT ![p] = c]
    BY <1>5 DEF I!TakeSocialLogin
  <2>4. callback' \in [Calls -> {I!NoCallback} \cup Callback] /\ AccountsAreNamed'
    BY <2>2, <2>3, CallbackMoves
  <2> QED
    BY <1>5, <2>4 DEF I!TakeSocialLogin, I!TypeOK, Callback
<1>6. ASSUME NEW p \in Calls, NEW a \in Accounts, I!Profile(p, a)
      PROVE  I!TypeOK' /\ AccountsAreNamed'
  <2> DEFINE c == [callback[p] EXCEPT !.account = a, !.at = "named"]
  <2>1. c \in Callback /\ c.account = a
    BY <1>2, <1>6 DEF Callback, I!Profile
  <2>2. callback' = [callback EXCEPT ![p] = c]
    BY <1>6 DEF I!Profile
  <2>3. callback' \in [Calls -> {I!NoCallback} \cup Callback] /\ AccountsAreNamed'
    BY <2>1, <2>2, CallbackMoves
  <2> QED
    BY <1>6, <2>3 DEF I!Profile, I!TypeOK, Callback
<1>7. ASSUME NEW p \in Calls, I!IdentityUser(p)
      PROVE  I!TypeOK' /\ AccountsAreNamed'
  <2> DEFINE c == [callback[p] EXCEPT !.at = IF identity[callback[p].account] = Nothing
                                             THEN "unknown" ELSE "known"]
  <2>1. c \in Callback /\ c.account \in Accounts
    BY <1>2, <1>7 DEF Callback, I!IdentityUser, AccountsAreNamed
  <2>2. callback' = [callback EXCEPT ![p] = c]
    BY <1>7 DEF I!IdentityUser
  <2>3. callback' \in [Calls -> {I!NoCallback} \cup Callback] /\ AccountsAreNamed'
    BY <2>1, <2>2, CallbackMoves
  <2> QED
    BY <1>7, <2>3 DEF I!IdentityUser, I!TypeOK, Callback
<1>8. ASSUME NEW p \in Calls, I!Done(p)
      PROVE  callback' \in [Calls -> {I!NoCallback} \cup Callback] /\ AccountsAreNamed'
  <2>1. I!NoCallback.at \notin {"named", "known", "unknown"}
    BY DEF I!NoCallback
  <2> QED
    BY <1>8, <2>1, CallbackMoves DEF I!Done
<1>9. ASSUME NEW p \in Calls, I!ResolveIdentity(p)
      PROVE  I!TypeOK' /\ AccountsAreNamed'
  <2>1. callback[p].link \in I!Everybody
    BY <1>2, <1>9 DEF I!ResolveIdentity, Callback
  <2>2. identity' \in [Accounts -> I!Everybody \cup {Nothing}]
    BY <1>9, <2>1 DEF I!ResolveIdentity, I!LinkIdentity, I!TypeOK
  <2> QED
    BY <1>8, <1>9, <2>2 DEF I!ResolveIdentity, I!TypeOK, Callback
<1>10. ASSUME NEW p \in Calls, I!CreateSocialUser(p)
       PROVE  I!TypeOK' /\ AccountsAreNamed'
  <2>1. callback[p].account \in Accounts
    BY <1>10 DEF I!CreateSocialUser, AccountsAreNamed
  <2>2. people' \subseteq I!Everybody
    BY <1>10, <2>1 DEF I!CreateSocialUser, I!TypeOK, I!Everybody
  <2> QED
    BY <1>8, <1>10, <2>1, <2>2 DEF I!CreateSocialUser, I!TypeOK, Callback, I!Everybody
<1>11. ASSUME NEW p \in Calls, I!Answer(p)
       PROVE  I!TypeOK' /\ AccountsAreNamed'
  BY <1>8, <1>11 DEF I!Answer, I!TypeOK, Callback
<1>12. ASSUME NEW u \in I!Everybody, NEW provider \in I!Providers, I!UnlinkIdentity(u, provider)
       PROVE  I!TypeOK' /\ AccountsAreNamed'
  BY <1>1, <1>12 DEF I!UnlinkIdentity, I!TypeOK
<1>13. ASSUME NEW expired \in SUBSET logins, I!DeleteExpiredSocialLogins(expired)
       PROVE  I!TypeOK' /\ AccountsAreNamed'
  BY <1>1, <1>13 DEF I!DeleteExpiredSocialLogins, I!TypeOK
<1> QED
  BY <1>3, <1>4, <1>5, <1>6, <1>7, <1>9, <1>10, <1>11, <1>12, <1>13 DEF I!Next

\* Whoever could log in still can if no account of his is taken from him.
LEMMA AccountsKept ==
  ASSUME EverybodyCanLogIn, I!TypeOK,
         \A u \in people' : u \in people \/ (u \in Accounts /\ identity'[u] = u),
         \A a \in Accounts : identity[a] \in people => identity'[a] = identity[a]
  PROVE  EverybodyCanLogIn'
<1> SUFFICES ASSUME NEW u \in people', u \notin Registered
             PROVE  \E a \in Accounts : identity'[a] = u
  BY DEF EverybodyCanLogIn, I!EverybodyCanLogIn, I!PasswordSet, I!Of
<1>1. CASE u \in people
  <2>1. PICK a \in Accounts : identity[a] = u
    BY <1>1 DEF EverybodyCanLogIn, I!EverybodyCanLogIn, I!PasswordSet, I!Of
  <2> QED
    BY <1>1, <2>1
<1>2. CASE u \in Accounts /\ identity'[u] = u
  BY <1>2
<1> QED
  BY <1>1, <1>2

\* Every step keeps the invariant.
LEMMA IdentitiesKeep ==
  ASSUME IdentitiesInv, [I!Next]_identitiesVars
  PROVE  IdentitiesInv'
<1>1. I!TypeOK /\ I!TypeOK' /\ AccountsAreNamed /\ AccountsAreNamed' /\ EverybodyCanLogIn
  BY IdentitiesTyped DEF IdentitiesInv
<1>2. ASSUME UNCHANGED <<people, identity>> PROVE EverybodyCanLogIn'
  <2>1. \A u \in people' : u \in people \/ (u \in Accounts /\ identity'[u] = u)
    BY <1>2
  <2>2. \A a \in Accounts : identity[a] \in people => identity'[a] = identity[a]
    BY <1>2
  <2> QED
    BY <1>1, <2>1, <2>2, AccountsKept
<1>3. Nothing \notin people
  BY <1>1, NobodyAssumption DEF I!TypeOK, I!Everybody
<1>4. ASSUME NEW p \in Calls, I!ResolveIdentity(p) PROVE EverybodyCanLogIn'
  <2>1. \A a \in Accounts : identity[a] \in people => identity'[a] = identity[a]
    BY <1>1, <1>3, <1>4 DEF I!ResolveIdentity, I!LinkIdentity, I!TypeOK
  <2>2. \A u \in people' : u \in people \/ (u \in Accounts /\ identity'[u] = u)
    BY <1>4 DEF I!ResolveIdentity
  <2> QED
    BY <1>1, <2>1, <2>2, AccountsKept
<1>5. ASSUME NEW p \in Calls, I!CreateSocialUser(p) PROVE EverybodyCanLogIn'
  <2>1. PICK a \in Accounts : /\ people' = people \cup {a} /\ identity[a] = Nothing
                              /\ identity' = [identity EXCEPT ![a] = a]
    BY <1>1, <1>5 DEF I!CreateSocialUser, AccountsAreNamed
  <2>2. \A b \in Accounts : identity[b] \in people => identity'[b] = identity[b]
    BY <1>1, <1>3, <2>1 DEF I!TypeOK
  <2>3. identity'[a] = a
    BY <1>1, <2>1 DEF I!TypeOK
  <2>4. \A u \in people' : u \in people \/ (u \in Accounts /\ identity'[u] = u)
    BY <2>1, <2>3
  <2> QED
    BY <1>1, <2>2, <2>4, AccountsKept
<1>6. ASSUME NEW u \in I!Everybody, NEW provider \in I!Providers, I!UnlinkIdentity(u, provider)
      PROVE  EverybodyCanLogIn'
  <2>1. \A a \in Accounts : identity'[a] = IF identity[a] = u /\ Provider[a] = provider
                                           THEN Nothing ELSE identity[a]
    BY <1>6 DEF I!UnlinkIdentity
  <2>2. u \in Registered \/ \E a \in Accounts : identity[a] = u /\ Provider[a] # provider
    BY <1>6 DEF I!UnlinkIdentity, I!MayUnlink, I!PasswordSet, I!Remaining, I!Of
  <2>3. ASSUME NEW v \in people', v \notin Registered PROVE \E a \in Accounts : identity'[a] = v
    <3>1. PICK a \in Accounts : identity[a] = v
      BY <1>1, <1>6, <2>3 DEF EverybodyCanLogIn, I!EverybodyCanLogIn, I!PasswordSet, I!Of,
         I!UnlinkIdentity
    <3> QED
      BY <2>1, <2>2, <2>3, <3>1
  <2> QED
    BY <2>3 DEF EverybodyCanLogIn, I!EverybodyCanLogIn, I!PasswordSet, I!Of
<1>7. EverybodyCanLogIn'
  BY <1>2, <1>4, <1>5, <1>6 DEF identitiesVars, I!Next, I!StartSocialLogin, I!TakeSocialLogin,
     I!Profile, I!IdentityUser, I!Answer, I!DeleteExpiredSocialLogins
<1> QED
  BY <1>1, <1>7 DEF IdentitiesInv

\* The invariant of the identities holds throughout.
LEMMA IdentitiesInvariant == ServicesSpec => []IdentitiesInv
<1>1. ServicesInit => IdentitiesInv
  BY IdentitiesStart DEF ServicesInit
<1>2. IdentitiesInv /\ [ServicesNext]_services => IdentitiesInv'
  BY IdentitiesKeep, StepOfEach
<1> QED
  BY <1>1, <1>2, PTL DEF ServicesSpec

\* Nobody loses his last way to log in: a user without a password keeps an
\* account of a provider, though removals, links and logins overlap.
THEOREM NobodyIsLockedOut == ServicesSpec => []EverybodyCanLogIn
<1>1. IdentitiesInv => EverybodyCanLogIn
  BY DEF IdentitiesInv
<1> QED
  BY <1>1, IdentitiesInvariant, PTL

-----------------------------------------------------------------------------
(* Bindings.  A linked chat was linked by a code of its user, and the code *)
(* a user has was given to him and has not been used.                      *)

LinkedBy(u, chat) == \E k \in Codes : issued[k] = u /\ <<k, chat>> \in linked

ChatsAreLinked == \A u \in Users : binding[u].chat # Nothing => LinkedBy(u, binding[u].chat)

SendsAreLinked ==
  \A s \in Senders : sending[s] # B!NoSend => LinkedBy(sending[s].user, sending[s].chat)

CodesAreFresh ==
  \A u \in Users : binding[u].code # Nothing =>
    /\ issued[binding[u].code] = u
    /\ \A l \in linked : l[1] # binding[u].code

LinksAreIssued == \A l \in linked : issued[l[1]] # Nothing

OneChatPerCode == \A l, m \in linked : l[1] = m[1] => l = m

BindingsInv ==
  /\ B!TypeOK
  /\ ChatsAreLinked /\ SendsAreLinked /\ CodesAreFresh /\ LinksAreIssued /\ OneChatPerCode

\* No chat is linked yet.
LEMMA BindingsStart == B!Init => BindingsInv
BY DEF B!Init, BindingsInv, B!TypeOK, B!NoBinding, B!Binding, B!NoSend, ChatsAreLinked,
   SendsAreLinked, CodesAreFresh, LinksAreIssued, OneChatPerCode

\* A binding that loses its chat is a binding.
LEMMA BlockedTyped ==
  ASSUME B!TypeOK, NEW chat, NEW blocked \in BOOLEAN, B!SetMessengerBlocked(chat, blocked)
  PROVE  binding' \in [Users -> B!Binding]
<1>1. ASSUME NEW u \in Users PROVE [binding[u] EXCEPT !.blocked = blocked] \in B!Binding
  BY DEF B!TypeOK, B!Binding
<1> QED
  BY <1>1 DEF B!TypeOK, B!SetMessengerBlocked

\* Bindings, codes, updates and sends keep their types.
LEMMA BindingsTyped ==
  ASSUME B!TypeOK, [B!Next]_bindingsVars
  PROVE  B!TypeOK'
<1> USE DEF B!TypeOK, B!Binding
<1>1. CASE UNCHANGED bindingsVars
  BY <1>1 DEF bindingsVars
<1>2. ASSUME NEW u \in Users, NEW k \in Codes, B!LinkMessenger(u, k) PROVE B!TypeOK'
  BY <1>2 DEF B!LinkMessenger, B!StartMessengerBinding
<1>3. ASSUME NEW u \in Users, B!Expire(u) PROVE B!TypeOK'
  BY <1>3 DEF B!Expire
<1>4. ASSUME NEW u \in Users, NEW s \in Senders, B!MessengerBinding(s, u) PROVE B!TypeOK'
  <2>1. binding[u].chat \in Chats
    BY <1>4 DEF B!MessengerBinding
  <2>2. [at |-> "sending", user |-> u, chat |-> binding[u].chat]
          \in [at : {"sending", "refused"}, user : Users, chat : Chats]
    BY <2>1
  <2> QED
    BY <1>4, <2>2 DEF B!MessengerBinding
<1>5. ASSUME NEW b \in Instances, NEW e \in B!Update, B!Updates(b, e) PROVE B!TypeOK'
  BY <1>5 DEF B!Updates
<1>6. ASSUME NEW b \in Instances, B!Stopped(b) PROVE B!TypeOK'
  BY <1>6, BlockedTyped DEF B!Stopped, B!Handled
<1>7. ASSUME NEW b \in Instances, B!Started(b) PROVE B!TypeOK'
  <2>1. update[b] \in B!Update
    BY <1>7 DEF B!Started, B!NoUpdate
  <2>2. [update[b] EXCEPT !.kind = "MESSAGE"] \in B!Update
    BY <2>1 DEF B!Update
  <2>3. update' = [update EXCEPT ![b] = [update[b] EXCEPT !.kind = "MESSAGE"]]
    BY <1>7 DEF B!Started
  <2> QED
    BY <1>7, <2>2, <2>3, BlockedTyped DEF B!Started
<1>8. ASSUME NEW b \in Instances, B!HandleCommand(b) PROVE B!TypeOK'
  <2>1. update[b] \in B!Update /\ update[b].code \in Codes \cup {Nothing} /\ update[b].chat \in Chats
    BY <1>8 DEF B!HandleCommand, B!NoUpdate, B!Update
  <2>2. update' \in [Instances -> {B!NoUpdate} \cup B!Update]
    BY <1>8 DEF B!HandleCommand, B!Handled
  <2>3. CASE UNCHANGED <<binding, linked>>
    BY <1>8, <2>2, <2>3 DEF B!HandleCommand
  <2>4. CASE update[b].code # Nothing /\ B!CompleteMessengerBinding(update[b].code, update[b].chat)
    <3>1. update[b].code \in Codes
      BY <2>1, <2>4
    <3>2. linked' \subseteq Codes \X Chats
      BY <2>1, <2>4, <3>1 DEF B!CompleteMessengerBinding
    <3>3. binding' \in [Users -> B!Binding]
      BY <2>1, <2>4 DEF B!CompleteMessengerBinding, B!Completed
    <3> QED
      BY <1>8, <2>2, <3>2, <3>3 DEF B!HandleCommand
  <2> QED
    BY <1>8, <2>3, <2>4 DEF B!HandleCommand
<1>9. ASSUME NEW b \in Instances, B!Stop(b) PROVE B!TypeOK'
  BY <1>9 DEF B!Stop, B!Handled
<1>10. ASSUME NEW s \in Senders, B!Send(s) PROVE B!TypeOK'
  BY <1>10 DEF B!Send
<1>11. ASSUME NEW s \in Senders, B!Refuse(s) PROVE B!TypeOK'
  BY <1>11 DEF B!Refuse, B!NoSend
<1>12. ASSUME NEW s \in Senders, B!BlockMessenger(s) PROVE B!TypeOK'
  <2>1. sending[s] \in [at : {"sending", "refused"}, user : Users, chat : Chats]
    BY <1>12 DEF B!BlockMessenger, B!NoSend
  <2>2. sending[s].user \in Users
    BY <2>1
  <2>3. \A u \in Users : [binding[u] EXCEPT !.blocked = TRUE] \in B!Binding
    OBVIOUS
  <2>4. binding' \in [Users -> B!Binding]
    BY <1>12, <2>2, <2>3 DEF B!BlockMessenger
  <2> QED
    BY <1>12, <2>4 DEF B!BlockMessenger
<1> QED
  BY <1>1, <1>2, <1>3, <1>4, <1>5, <1>6, <1>7, <1>8, <1>9, <1>10, <1>11, <1>12 DEF B!Next

\* What a binding's chat and code are, after a step that links nothing.
SameLinks == UNCHANGED <<issued, linked>>

\* Every step keeps the invariant.
LEMMA BindingsKeep ==
  ASSUME BindingsInv, [B!Next]_bindingsVars
  PROVE  BindingsInv'
<1>1. B!TypeOK /\ B!TypeOK'
  BY BindingsTyped DEF BindingsInv
<1> DEFINE ChatsStay == \A u \in Users : binding'[u].chat = binding[u].chat
           CodesStay == \A u \in Users : binding'[u].code \in {binding[u].code, Nothing}
           SendsStay == \A s \in Senders : sending'[s] # B!NoSend =>
                          /\ sending[s] # B!NoSend
                          /\ sending'[s].user = sending[s].user
                          /\ sending'[s].chat = sending[s].chat
<1>2. ASSUME SameLinks, ChatsStay, CodesStay, SendsStay PROVE BindingsInv'
  <2>1. \A v, c : LinkedBy(v, c)' = LinkedBy(v, c)
    BY <1>2 DEF SameLinks, LinkedBy
  <2>2. ChatsAreLinked'
    BY <1>2, <2>1 DEF BindingsInv, ChatsAreLinked
  <2>3. SendsAreLinked'
    BY <1>2, <2>1 DEF BindingsInv, SendsAreLinked
  <2>4. CodesAreFresh'
    BY <1>2 DEF SameLinks, BindingsInv, CodesAreFresh
  <2>5. LinksAreIssued' /\ OneChatPerCode'
    BY <1>2 DEF SameLinks, BindingsInv, LinksAreIssued, OneChatPerCode
  <2> QED
    BY <1>1, <2>2, <2>3, <2>4, <2>5 DEF BindingsInv
<1>3. CASE UNCHANGED bindingsVars
  BY <1>2, <1>3 DEF bindingsVars, SameLinks
<1>4. ASSUME NEW u \in Users, NEW k \in Codes, B!LinkMessenger(u, k) PROVE BindingsInv'
  <2>1. /\ issued[k] = Nothing /\ issued' = [issued EXCEPT ![k] = u]
        /\ binding' = [binding EXCEPT ![u].code = k]
        /\ UNCHANGED <<linked, sending>>
    BY <1>4 DEF B!LinkMessenger, B!StartMessengerBinding
  <2>2. \A v, chat : v \in Users => (LinkedBy(v, chat) => LinkedBy(v, chat)')
    BY <1>1, <2>1, NobodyAssumption DEF LinkedBy, B!TypeOK
  <2>3. \A l \in linked : l[1] # k /\ l[1] \in Codes
    BY <1>1, <2>1 DEF BindingsInv, LinksAreIssued, B!TypeOK
  <2>4. CodesAreFresh'
    <3> SUFFICES ASSUME NEW v \in Users, binding'[v].code # Nothing
                 PROVE  /\ issued'[binding'[v].code] = v
                        /\ \A l \in linked : l[1] # binding'[v].code
      BY <2>1 DEF CodesAreFresh
    <3>1. CASE v = u
      BY <1>1, <2>1, <2>3, <3>1 DEF B!TypeOK, B!Binding
    <3>2. CASE v # u
      <4>1. binding'[v].code = binding[v].code /\ issued[binding[v].code] = v
        BY <1>1, <2>1, <3>2 DEF B!TypeOK, BindingsInv, CodesAreFresh
      <4>2. binding[v].code # k
        BY <2>1, <4>1, NobodyAssumption
      <4> QED
        BY <1>1, <2>1, <4>1, <4>2 DEF B!TypeOK, B!Binding, BindingsInv, CodesAreFresh
    <3> QED
      BY <3>1, <3>2
  <2>5. ChatsAreLinked' /\ SendsAreLinked'
    <3>1. \A v \in Users : binding'[v].chat = binding[v].chat
      BY <1>1, <2>1 DEF B!TypeOK, B!Binding
    <3>2. \A s \in Senders : sending[s] # B!NoSend => sending[s].user \in Users
      BY <1>1 DEF B!TypeOK
    <3> QED
      BY <2>1, <2>2, <3>1, <3>2 DEF BindingsInv, ChatsAreLinked, SendsAreLinked
  <2>6. LinksAreIssued' /\ OneChatPerCode'
    BY <1>1, <2>1, <2>3 DEF BindingsInv, LinksAreIssued, OneChatPerCode, B!TypeOK
  <2> QED
    BY <1>1, <2>4, <2>5, <2>6 DEF BindingsInv
<1>5. ASSUME NEW u \in Users, B!Expire(u) PROVE BindingsInv'
  <2>1. ChatsStay /\ CodesStay
    BY <1>1, <1>5 DEF B!Expire, B!TypeOK, B!Binding
  <2> QED
    BY <1>2, <1>5, <2>1 DEF B!Expire, SameLinks
<1>6. ASSUME NEW u \in Users, NEW s \in Senders, B!MessengerBinding(s, u) PROVE BindingsInv'
  <2>1. /\ binding[u].chat # Nothing /\ UNCHANGED <<binding, issued, linked>>
        /\ sending' = [sending EXCEPT ![s] = [at |-> "sending", user |-> u, chat |-> binding[u].chat]]
    BY <1>6 DEF B!MessengerBinding
  <2>2. SendsAreLinked'
    BY <2>1 DEF BindingsInv, SendsAreLinked, ChatsAreLinked, LinkedBy
  <2> QED
    BY <1>1, <2>1, <2>2 DEF BindingsInv, ChatsAreLinked, LinkedBy, CodesAreFresh,
       LinksAreIssued, OneChatPerCode
<1>7. ASSUME NEW b \in Instances, \/ \E e \in B!Update : B!Updates(b, e)
                                  \/ B!Stop(b)
      PROVE  BindingsInv'
  BY <1>2, <1>7 DEF B!Updates, B!Stop, SameLinks
<1>8. ASSUME NEW b \in Instances, B!Stopped(b) \/ B!Started(b) PROVE BindingsInv'
  <2>1. ChatsStay /\ CodesStay
    BY <1>1, <1>8 DEF B!Stopped, B!Started, B!SetMessengerBlocked, B!TypeOK, B!Binding
  <2> QED
    BY <1>2, <1>8, <2>1 DEF B!Stopped, B!Started, SameLinks
<1>9. ASSUME NEW b \in Instances, B!HandleCommand(b) PROVE BindingsInv'
  <2>1. CASE UNCHANGED <<binding, linked>>
    BY <1>2, <1>9, <2>1 DEF B!HandleCommand, SameLinks
  <2>2. CASE update[b].code # Nothing /\ B!CompleteMessengerBinding(update[b].code, update[b].chat)
    <3>0. PICK k, chat : k = update[b].code /\ chat = update[b].chat
      OBVIOUS
    <3>1. PICK u \in Users : /\ binding[u].code = k
                             /\ binding' = [binding EXCEPT ![u] = B!Completed(u, chat)]
                             /\ linked' = linked \cup {<<k, chat>>}
      BY <2>2, <3>0 DEF B!CompleteMessengerBinding
    <3>2. UNCHANGED <<issued, sending>>
      BY <1>9 DEF B!HandleCommand
    <3>3. k \in Codes /\ issued[k] = u /\ \A l \in linked : l[1] # k
      BY <1>1, <2>2, <3>0, <3>1 DEF B!TypeOK, B!Binding, BindingsInv, CodesAreFresh
    <3>4. \A v, c : LinkedBy(v, c) => LinkedBy(v, c)'
      BY <3>1, <3>2 DEF LinkedBy
    <3>5. LinkedBy(u, chat)'
      BY <3>1, <3>2, <3>3 DEF LinkedBy
    <3>6. \A v \in Users : IF v = u THEN binding'[v].chat = chat /\ binding'[v].code = Nothing
                                    ELSE binding'[v] = binding[v]
      BY <1>1, <3>1 DEF B!Completed, B!TypeOK
    <3>7. ChatsAreLinked' /\ SendsAreLinked'
      BY <3>2, <3>4, <3>5, <3>6 DEF BindingsInv, ChatsAreLinked, SendsAreLinked
    <3>8. CodesAreFresh'
      BY <3>1, <3>2, <3>3, <3>6 DEF BindingsInv, CodesAreFresh
    <3>9. LinksAreIssued' /\ OneChatPerCode'
      BY <3>1, <3>2, <3>3, NobodyAssumption DEF BindingsInv, LinksAreIssued, OneChatPerCode
    <3> QED
      BY <1>1, <3>7, <3>8, <3>9 DEF BindingsInv
  <2> QED
    BY <1>9, <2>1, <2>2 DEF B!HandleCommand
<1>10. ASSUME NEW s \in Senders, B!Send(s) \/ B!Refuse(s) PROVE BindingsInv'
  <2>1. SendsStay
    BY <1>1, <1>10 DEF B!Send, B!Refuse, B!NoSend, B!TypeOK
  <2> QED
    BY <1>2, <1>10, <2>1 DEF B!Send, B!Refuse, SameLinks
<1>11. ASSUME NEW s \in Senders, B!BlockMessenger(s) PROVE BindingsInv'
  <2>1. SendsStay
    BY <1>1, <1>11 DEF B!BlockMessenger, B!NoSend, B!TypeOK
  <2>2. ChatsStay /\ CodesStay
    BY <1>1, <1>11 DEF B!BlockMessenger, B!TypeOK, B!Binding
  <2> QED
    BY <1>2, <1>11, <2>1, <2>2 DEF B!BlockMessenger, SameLinks
<1> QED
  BY <1>3, <1>4, <1>5, <1>6, <1>7, <1>8, <1>9, <1>10, <1>11 DEF B!Next

\* The invariant of the bindings holds throughout.
LEMMA BindingsInvariant == ServicesSpec => []BindingsInv
<1>1. ServicesInit => BindingsInv
  BY BindingsStart DEF ServicesInit
<1>2. BindingsInv /\ [ServicesNext]_services => BindingsInv'
  BY BindingsKeep, StepOfEach
<1> QED
  BY <1>1, <1>2, PTL DEF ServicesSpec

\* A message goes to a chat of the user it is for, though chats are linked anew,
\* blocked and unblocked while it is being sent.
THEOREM MessagesFindOwners == ServicesSpec => []MessagesFindTheirOwner
<1>1. BindingsInv => MessagesFindTheirOwner
  BY DEF BindingsInv, MessagesFindTheirOwner, B!MessagesFindTheirOwner, SendsAreLinked,
     LinkedBy, OneChatPerCode
<1> QED
  BY <1>1, BindingsInvariant, PTL

-----------------------------------------------------------------------------
(* Preferences.  What an unsubscription still has to write, and what it    *)
(* has written, is every type there is.                                    *)

OffFor(t) == N!RowsOf(t, "EMAIL") # {} /\ \A r \in N!RowsOf(t, "EMAIL") : ~r.enabled

AsksFor(s) == s.channel = "EMAIL" /\ s.enabled

Covered(list) == \A t \in N!Types : OffFor(t) \/ \E i \in 1..Len(list) : list[i].type = t

UnsubscriptionKnown(p) ==
  asking[p].at = "unsubscribing" =>
    /\ \A i \in 1..Len(asking[p].left) :
         asking[p].left[i].channel = "EMAIL" /\ ~asking[p].left[i].enabled
    /\ asking[p].alone => ~N!LettersAsked /\ Covered(asking[p].left)

PublicationKnown(p) ==
  (asking[p].at = "publishing" /\ asking[p].quiet) => "EMAIL" \notin asking[p].channels

PromiseKept == quiet => ~N!LettersAsked /\ \A t \in N!Types : OffFor(t)

NoLetters == \A l \in letters : ~l.quiet

PreferencesRelated ==
  /\ \A p \in Calls : UnsubscriptionKnown(p) /\ PublicationKnown(p)
  /\ PromiseKept /\ NoLetters

PreferencesInv == N!TypeOK /\ PreferencesRelated

Asking ==
  {N!NoCall} \cup [at : {"setting"}, left : Seq(N!Setting)]
    \cup [at : {"unsubscribing"}, alone : BOOLEAN, left : Seq(N!Setting)]
    \cup [at : {"publishing"}, type : N!Types, quiet : BOOLEAN, channels : SUBSET Channels]

\* Nobody has set anything yet.
LEMMA PreferencesStart == N!Init => PreferencesInv
<1> SUFFICES ASSUME N!Init PROVE PreferencesInv
  OBVIOUS
<1>1. N!TypeOK
  BY DEF N!Init, N!TypeOK
<1>2. PreferencesRelated
  BY DEF N!Init, N!NoCall, PreferencesRelated, UnsubscriptionKnown, PublicationKnown, PromiseKept,
     NoLetters
<1> QED
  BY <1>1, <1>2 DEF PreferencesInv

\* Where letters are turned off, no letter is among the channels.
LEMMA OffIsOff == \A t \in N!Types : OffFor(t) => "EMAIL" \notin N!EnabledChannels(t)
BY DEF OffFor, N!EnabledChannels, N!CurrentPreferences

\* The promise of the invariant is the property.
LEMMA PreferencesQuiet == PreferencesInv => UnsubscribedStays
BY OffIsOff DEF PreferencesInv, PreferencesRelated, PromiseKept, NoLetters, UnsubscribedStays,
   N!UnsubscribedStays

\* Rows and calls keep their types.
LEMMA PreferencesTyped ==
  ASSUME N!TypeOK, [N!Next]_preferencesVars
  PROVE  N!TypeOK'
<1>1. /\ preference \subseteq N!Setting /\ quiet \in BOOLEAN
      /\ letters \subseteq [type : N!Types, quiet : BOOLEAN]
      /\ asking \in [Calls -> Asking]
      /\ \A r, s \in preference : r.type = s.type /\ r.channel = s.channel => r = s
  BY DEF N!TypeOK, Asking
<1>2. ASSUME UNCHANGED preference, quiet' \in BOOLEAN,
             letters' \subseteq [type : N!Types, quiet : BOOLEAN], asking' \in [Calls -> Asking]
      PROVE  N!TypeOK'
  BY <1>1, <1>2 DEF N!TypeOK, Asking
<1>3. ASSUME NEW p \in Calls, NEW c \in Asking, asking' = [asking EXCEPT ![p] = c]
      PROVE  asking' \in [Calls -> Asking]
  BY <1>1, <1>3
<1>4. N!NoCall \in Asking
  BY DEF Asking
<1>5. CASE UNCHANGED preferencesVars
  BY <1>1, <1>2, <1>5 DEF preferencesVars
<1>6. ASSUME NEW p \in Calls, NEW list \in N!Lists, N!SetPreferences(p, list)
      PROVE  N!TypeOK'
  <2>1. list \in Seq(N!Setting)
    BY <1>6 DEF N!Lists
  <2>2. [at |-> "setting", left |-> list] \in Asking
    BY <2>1 DEF Asking
  <2>3. ASSUME NEW q \in Calls, asking[q].at = "unsubscribing"
        PROVE  [asking[q] EXCEPT !.alone = FALSE] \in Asking
    <3>1. asking[q] \in [at : {"unsubscribing"}, alone : BOOLEAN, left : Seq(N!Setting)]
      BY <1>1, <2>3 DEF Asking, N!NoCall
    <3> QED
      BY <3>1 DEF Asking
  <2>4. asking' \in [Calls -> Asking]
    BY <1>1, <1>6, <2>2, <2>3 DEF N!SetPreferences
  <2>5. quiet' \in BOOLEAN
    BY <1>1, <1>6 DEF N!SetPreferences
  <2> QED
    BY <1>1, <1>2, <1>6, <2>4, <2>5 DEF N!SetPreferences
<1>7. ASSUME NEW p \in Calls, N!Unsubscribe(p) PROVE N!TypeOK'
  <2>1. \A i \in 1..Len(EventTypes) :
          [type |-> EventTypes[i], channel |-> "EMAIL", enabled |-> FALSE] \in N!Setting
    BY PreferencesAssumption DEF N!Setting, N!Types
  <2>2. [i \in 1..Len(EventTypes) |->
          [type |-> EventTypes[i], channel |-> "EMAIL", enabled |-> FALSE]] \in Seq(N!Setting)
    <3>1. Len(EventTypes) \in Nat
      BY PreferencesAssumption
    <3> QED
      BY <2>1, <3>1
  <2>3. [at |-> "unsubscribing", alone |-> ~N!LettersAsked,
         left |-> [i \in 1..Len(EventTypes) |->
           [type |-> EventTypes[i], channel |-> "EMAIL", enabled |-> FALSE]]] \in Asking
    BY <2>2 DEF Asking
  <2> QED
    BY <1>1, <1>2, <1>3, <1>7, <2>3 DEF N!Unsubscribe, N!Begin
<1>8. ASSUME NEW p \in Calls, N!SetPreference(p) PROVE N!TypeOK'
  <2>1. /\ asking[p].left \in Seq(N!Setting) /\ asking[p].left # <<>>
        /\ [asking[p] EXCEPT !.left = Tail(asking[p].left)] \in Asking
    <3>1. CASE asking[p].at = "setting"
      <4>1. asking[p] \in [at : {"setting"}, left : Seq(N!Setting)]
        BY <1>1, <3>1 DEF Asking, N!NoCall
      <4>2. /\ asking[p].left \in Seq(N!Setting) /\ asking[p].left # <<>>
            /\ Tail(asking[p].left) \in Seq(N!Setting)
        BY <1>8, <4>1 DEF N!SetPreference
      <4> QED
        BY <4>1, <4>2 DEF Asking
    <3>2. CASE asking[p].at = "unsubscribing"
      <4>1. asking[p] \in [at : {"unsubscribing"}, alone : BOOLEAN, left : Seq(N!Setting)]
        BY <1>1, <3>2 DEF Asking, N!NoCall
      <4>2. /\ asking[p].left \in Seq(N!Setting) /\ asking[p].left # <<>>
            /\ Tail(asking[p].left) \in Seq(N!Setting)
        BY <1>8, <4>1 DEF N!SetPreference
      <4> QED
        BY <4>1, <4>2 DEF Asking
    <3> QED
      BY <1>8, <3>1, <3>2 DEF N!SetPreference
  <2>2. asking' \in [Calls -> Asking]
    BY <1>1, <1>8, <2>1 DEF N!SetPreference
  <2>3. Head(asking[p].left) \in N!Setting
    BY <2>1
  <2>4. PICK s \in N!Setting : preference' = (preference \ N!RowsOf(s.type, s.channel)) \cup {s}
    BY <1>8, <2>3 DEF N!SetPreference, N!Written
  <2>5. /\ preference' \subseteq N!Setting
        /\ \A r, t \in preference' : r.type = t.type /\ r.channel = t.channel => r = t
    BY <1>1, <2>4 DEF N!RowsOf
  <2> QED
    BY <1>1, <1>8, <2>2, <2>5 DEF N!TypeOK, Asking, N!SetPreference
<1>9. ASSUME NEW p \in Calls, N!Answer(p) PROVE N!TypeOK'
  <2>1. quiet' \in BOOLEAN
    BY <1>1, <1>9 DEF N!Answer
  <2> QED
    BY <1>1, <1>2, <1>3, <1>4, <1>9, <2>1 DEF N!Answer, N!Finish
<1>10. ASSUME NEW p \in Calls, N!Fail(p) PROVE N!TypeOK'
  BY <1>1, <1>2, <1>3, <1>4, <1>10 DEF N!Fail, N!Finish
<1>11. ASSUME NEW p \in Calls, NEW type \in N!Types, N!PublishEvent(p, type) PROVE N!TypeOK'
  <2>1. [at |-> "publishing", type |-> type, quiet |-> quiet, channels |-> N!EnabledChannels(type)]
          \in Asking
    BY <1>1 DEF Asking, N!EnabledChannels
  <2> QED
    BY <1>1, <1>2, <1>3, <1>11, <2>1 DEF N!PublishEvent, N!Begin
<1>12. ASSUME NEW p \in Calls, N!Publish(p) PROVE N!TypeOK'
  <2>1. asking[p].type \in N!Types /\ asking[p].quiet \in BOOLEAN
    BY <1>1, <1>12 DEF N!Publish, Asking, N!NoCall
  <2>2. letters' \subseteq [type : N!Types, quiet : BOOLEAN]
    BY <1>1, <1>12, <2>1 DEF N!Publish
  <2> QED
    BY <1>1, <1>2, <1>3, <1>4, <1>12, <2>2 DEF N!Publish, N!Finish
<1> QED
  BY <1>5, <1>6, <1>7, <1>8, <1>9, <1>10, <1>11, <1>12 DEF N!Next

-----------------------------------------------------------------------------

\* A setting that asks for no letters leaves them off where they are, and
\* one that is about letters turns them off.
LEMMA WrittenOff ==
  ASSUME NEW s, preference' = N!Written(s), ~AsksFor(s), NEW t
  PROVE  /\ OffFor(t) => OffFor(t)'
         /\ s.channel = "EMAIL" /\ s.type = t => OffFor(t)'
BY DEF N!Written, N!RowsOf, OffFor, AsksFor

\* A call comes to its end, and nothing but letters may have changed.
LEMMA CallEnds ==
  ASSUME PreferencesInv, NEW p \in Calls, N!Finish(p), UNCHANGED preference
  PROVE  /\ \A q \in Calls : UnsubscriptionKnown(q)' /\ PublicationKnown(q)'
         /\ N!LettersAsked' => N!LettersAsked
         /\ \A t : OffFor(t) => OffFor(t)'
<1>1. /\ asking'[p] = N!NoCall
      /\ \A q \in Calls \ {p} : asking'[q] = asking[q]
  BY DEF PreferencesInv, N!TypeOK, N!Finish
<1>2. N!LettersAsked' => N!LettersAsked
  BY <1>1 DEF N!LettersAsked, N!AsksForLetters, N!NoCall
<1>3. \A t : OffFor(t) => OffFor(t)'
  BY DEF OffFor, N!RowsOf
<1>4. ASSUME NEW q \in Calls PROVE UnsubscriptionKnown(q)' /\ PublicationKnown(q)'
  <2>1. CASE q = p
    BY <1>1, <2>1 DEF UnsubscriptionKnown, PublicationKnown, N!NoCall
  <2>2. CASE q # p
    <3>1. asking'[q] = asking[q]
      BY <1>1, <2>2
    <3>2. UnsubscriptionKnown(q) /\ PublicationKnown(q)
      BY DEF PreferencesInv, PreferencesRelated
    <3> QED
      BY <1>2, <1>3, <3>1, <3>2 DEF UnsubscriptionKnown, PublicationKnown, Covered
  <2> QED
    BY <2>1, <2>2
<1> QED
  BY <1>2, <1>3, <1>4

\* The rest of the invariant, step by step.
LEMMA PreferencesStand ==
  ASSUME PreferencesInv, [N!Next]_preferencesVars
  PROVE  PreferencesRelated'
<1>1. /\ asking \in [Calls -> Asking] /\ PreferencesRelated /\ quiet \in BOOLEAN
      /\ \A q \in Calls : UnsubscriptionKnown(q) /\ PublicationKnown(q)
  BY DEF PreferencesInv, N!TypeOK, PreferencesRelated, Asking
<1>2. CASE UNCHANGED preferencesVars
  BY <1>1, <1>2 DEF preferencesVars, PreferencesRelated, UnsubscriptionKnown, PublicationKnown,
     PromiseKept, NoLetters, Covered, OffFor, N!RowsOf, N!LettersAsked
<1>3. ASSUME UNCHANGED preference, NEW t PROVE OffFor(t) => OffFor(t)'
  BY <1>3 DEF OffFor, N!RowsOf
<1>4. ASSUME NEW p \in Calls, NEW list \in N!Lists, N!SetPreferences(p, list)
      PROVE  PreferencesRelated'
  <2>1. /\ asking'[p] = [at |-> "setting", left |-> list]
        /\ \A q \in Calls \ {p} :
             /\ asking'[q].at = asking[q].at
             /\ asking[q].at = "setting" => asking'[q] = asking[q]
             /\ asking[q].at = "publishing" => asking'[q] = asking[q]
             /\ asking[q].at = "unsubscribing" =>
                  /\ asking'[q].left = asking[q].left
                  /\ asking'[q].alone => asking[q].alone /\ ~N!AsksForLetters(list)
    BY <1>1, <1>4 DEF N!SetPreferences, Asking, N!NoCall
  <2>2. /\ quiet' => quiet /\ ~N!AsksForLetters(list)
        /\ UNCHANGED <<preference, letters>> /\ asking[p] = N!NoCall
    BY <1>1, <1>4 DEF N!SetPreferences
  <2>3. N!LettersAsked' => N!LettersAsked \/ N!AsksForLetters(list)
    BY <2>1 DEF N!LettersAsked, N!AsksForLetters
  <2>4. ASSUME NEW q \in Calls PROVE UnsubscriptionKnown(q)' /\ PublicationKnown(q)'
    <3>1. CASE q = p
      BY <2>1, <3>1 DEF UnsubscriptionKnown, PublicationKnown
    <3>2. CASE q # p
      BY <1>1, <1>3, <2>1, <2>2, <2>3, <3>2 DEF UnsubscriptionKnown, PublicationKnown, Covered
    <3> QED
      BY <3>1, <3>2
  <2>5. PromiseKept'
    BY <1>1, <1>3, <2>2, <2>3 DEF PreferencesRelated, PromiseKept
  <2>6. NoLetters'
    BY <1>1, <2>2 DEF PreferencesRelated, NoLetters
  <2> QED
    BY <2>4, <2>5, <2>6 DEF PreferencesRelated
<1>5. ASSUME NEW p \in Calls, NEW c, N!Begin(p, c), UNCHANGED <<preference, quiet, letters>>,
             c.at \in {"unsubscribing", "publishing"},
             c.at = "unsubscribing" =>
               /\ \A i \in 1..Len(c.left) : c.left[i].channel = "EMAIL" /\ ~c.left[i].enabled
               /\ c.alone => ~N!LettersAsked
               /\ \A t \in N!Types : \E i \in 1..Len(c.left) : c.left[i].type = t,
             (c.at = "publishing" /\ c.quiet) => "EMAIL" \notin c.channels
      PROVE  PreferencesRelated'
  <2>1. /\ asking'[p] = c /\ asking[p] = N!NoCall
        /\ \A q \in Calls \ {p} : asking'[q] = asking[q]
    BY <1>1, <1>5 DEF N!Begin
  <2>2. N!LettersAsked' => N!LettersAsked
    BY <1>5, <2>1 DEF N!LettersAsked, N!AsksForLetters
  <2>3. ASSUME NEW q \in Calls PROVE UnsubscriptionKnown(q)' /\ PublicationKnown(q)'
    <3>1. CASE q = p
      BY <1>5, <2>1, <2>2, <3>1 DEF UnsubscriptionKnown, PublicationKnown, Covered
    <3>2. CASE q # p
      BY <1>1, <1>3, <1>5, <2>1, <2>2, <3>2 DEF UnsubscriptionKnown, PublicationKnown, Covered
    <3> QED
      BY <3>1, <3>2
  <2>4. PromiseKept' /\ NoLetters'
    BY <1>1, <1>3, <1>5, <2>2 DEF PreferencesRelated, PromiseKept, NoLetters
  <2> QED
    BY <2>3, <2>4 DEF PreferencesRelated
<1>6. ASSUME NEW p \in Calls, N!Unsubscribe(p) PROVE PreferencesRelated'
  <2>1. PICK c : c = [at |-> "unsubscribing", alone |-> ~N!LettersAsked,
               left |-> [i \in 1..Len(EventTypes) |->
                 [type |-> EventTypes[i], channel |-> "EMAIL", enabled |-> FALSE]]]
    OBVIOUS
  <2>2. N!Begin(p, c) /\ UNCHANGED <<preference, quiet, letters>>
    BY <1>6, <2>1 DEF N!Unsubscribe
  <2>3. c.at = "unsubscribing" /\ (c.alone => ~N!LettersAsked)
    BY <2>1
  <2>4. PICK n \in Nat : n = Len(EventTypes)
    BY PreferencesAssumption
  <2>5. PICK list : list = [i \in 1..n |-> [type |-> EventTypes[i], channel |-> "EMAIL", enabled |-> FALSE]]
    OBVIOUS
  <2>6. list = c.left /\ Len(list) = n
    BY <2>1, <2>4, <2>5
  <2>7. \A i \in 1..n : list[i].channel = "EMAIL" /\ ~list[i].enabled /\ list[i].type = EventTypes[i]
    BY <2>5
  <2>8. \A i \in 1..Len(c.left) : c.left[i].channel = "EMAIL" /\ ~c.left[i].enabled
    BY <2>6, <2>7
  <2>9. \A t \in N!Types : \E i \in 1..Len(c.left) : c.left[i].type = t
    BY <2>4, <2>6, <2>7 DEF N!Types
  <2> QED
    BY <1>5, <2>2, <2>3, <2>8, <2>9
<1>7. ASSUME NEW p \in Calls, N!SetPreference(p) PROVE PreferencesRelated'
  <2>1. /\ asking[p].at \in {"setting", "unsubscribing"}
        /\ asking[p].left \in Seq(N!Setting) /\ asking[p].left # <<>>
        /\ UNCHANGED <<quiet, letters>>
    BY <1>1, <1>7 DEF N!SetPreference, Asking, N!NoCall
  <2>2. PICK list \in Seq(N!Setting), s \in N!Setting :
          list = asking[p].left /\ s = Head(list) /\ list # <<>>
    BY <2>1
  <2>3. /\ Len(Tail(list)) = Len(list) - 1 /\ Len(list) \in Nat /\ 1 \in 1..Len(list) /\ s = list[1]
        /\ \A i \in 1..Len(Tail(list)) : Tail(list)[i] = list[i + 1] /\ i + 1 \in 1..Len(list)
    BY <2>2
  <2>4. \A i \in 1..Len(list) : i # 1 =>
          i - 1 \in 1..Len(Tail(list)) /\ Tail(list)[i - 1] = list[i]
    BY <2>3
  <2>5. preference' = N!Written(s)
    BY <1>7, <2>2 DEF N!SetPreference
  <2>6. /\ asking'[p].at = asking[p].at /\ asking'[p].left = Tail(list)
        /\ asking[p].at = "unsubscribing" => asking'[p].alone = asking[p].alone
        /\ \A q \in Calls \ {p} : asking'[q] = asking[q]
    BY <1>1, <1>7, <2>1, <2>2 DEF N!SetPreference, Asking, N!NoCall
  <2>7. N!LettersAsked' => N!LettersAsked
    <3>1. N!AsksForLetters(Tail(list)) => N!AsksForLetters(list)
      BY <2>3 DEF N!AsksForLetters
    <3>2. ASSUME NEW q \in Calls, asking'[q].at = "setting", N!AsksForLetters(asking'[q].left)
          PROVE  N!LettersAsked
      BY <2>2, <2>6, <3>1, <3>2 DEF N!LettersAsked
    <3> QED
      BY <3>2 DEF N!LettersAsked, N!AsksForLetters
  <2>8. ~N!LettersAsked => ~AsksFor(s)
    <3>1. CASE asking[p].at = "setting"
      BY <2>2, <2>3, <3>1 DEF N!LettersAsked, N!AsksForLetters, AsksFor
    <3>2. CASE asking[p].at = "unsubscribing"
      BY <1>1, <2>2, <2>3, <3>2 DEF UnsubscriptionKnown, AsksFor
    <3> QED
      BY <2>1, <3>1, <3>2
  <2>9. ~N!LettersAsked => \A t : OffFor(t) => OffFor(t)'
    BY <2>5, <2>8, WrittenOff
  <2>10. PromiseKept' /\ NoLetters'
    BY <1>1, <2>1, <2>7, <2>9 DEF PreferencesRelated, PromiseKept, NoLetters
  <2>11. ASSUME NEW q \in Calls, q # p PROVE UnsubscriptionKnown(q)' /\ PublicationKnown(q)'
    BY <1>1, <2>6, <2>7, <2>9, <2>11 DEF UnsubscriptionKnown, PublicationKnown, Covered
  <2>12. PublicationKnown(p)'
    BY <2>1, <2>6 DEF PublicationKnown
  <2>13. ASSUME asking[p].at = "unsubscribing"
         PROVE  \A i \in 1..Len(Tail(list)) : Tail(list)[i].channel = "EMAIL" /\ ~Tail(list)[i].enabled
    BY <1>1, <2>2, <2>3, <2>13 DEF UnsubscriptionKnown
  <2>14. ASSUME asking[p].at = "unsubscribing", asking[p].alone
         PROVE  ~N!LettersAsked' /\ Covered(Tail(list))'
    <3>1. ~N!LettersAsked /\ Covered(list) /\ s.channel = "EMAIL"
      BY <1>1, <2>2, <2>3, <2>14 DEF UnsubscriptionKnown
    <3>2. OffFor(s.type)'
      BY <2>5, <2>8, <3>1, WrittenOff
    <3>3. ASSUME NEW t \in N!Types
          PROVE  OffFor(t)' \/ \E i \in 1..Len(Tail(list)) : Tail(list)[i].type = t
      <4>1. CASE OffFor(t)
        BY <2>9, <3>1, <4>1
      <4>2. ASSUME NEW i \in 1..Len(list), list[i].type = t, i # 1
            PROVE  \E j \in 1..Len(Tail(list)) : Tail(list)[j].type = t
        BY <2>4, <4>2
      <4>3. CASE list[1].type = t
        BY <2>3, <3>2, <4>3 DEF OffFor, N!RowsOf
      <4> QED
        BY <3>1, <4>1, <4>2, <4>3 DEF Covered
    <3> QED
      BY <2>7, <3>1, <3>3 DEF Covered
  <2>15. UnsubscriptionKnown(p)'
    BY <2>6, <2>13, <2>14 DEF UnsubscriptionKnown, Covered
  <2> QED
    BY <2>10, <2>11, <2>12, <2>15 DEF PreferencesRelated
<1>8. ASSUME NEW p \in Calls, N!Answer(p) PROVE PreferencesRelated'
  <2>1. /\ N!Finish(p) /\ UNCHANGED <<preference, letters>> /\ asking[p].left = <<>>
        /\ quiet' => quiet \/ (asking[p].at = "unsubscribing" /\ asking[p].alone)
    BY <1>8 DEF N!Answer
  <2>2. quiet' => ~N!LettersAsked /\ \A t \in N!Types : OffFor(t)
    BY <1>1, <2>1 DEF PreferencesRelated, PromiseKept, UnsubscriptionKnown, Covered
  <2>3. PromiseKept' /\ NoLetters'
    BY <1>1, <2>1, <2>2, CallEnds DEF PreferencesRelated, PromiseKept, NoLetters
  <2> QED
    BY <2>1, <2>3, CallEnds DEF PreferencesRelated
<1>9. ASSUME NEW p \in Calls, N!Fail(p) PROVE PreferencesRelated'
  <2>1. N!Finish(p) /\ UNCHANGED <<preference, quiet, letters>>
    BY <1>9 DEF N!Fail
  <2>2. PromiseKept' /\ NoLetters'
    BY <1>1, <2>1, CallEnds DEF PreferencesRelated, PromiseKept, NoLetters
  <2> QED
    BY <2>1, <2>2, CallEnds DEF PreferencesRelated
<1>10. ASSUME NEW p \in Calls, NEW type \in N!Types, N!PublishEvent(p, type) PROVE PreferencesRelated'
  <2>1. PICK c : c = [at |-> "publishing", type |-> type, quiet |-> quiet,
                      channels |-> N!EnabledChannels(type)]
    OBVIOUS
  <2>2. quiet => "EMAIL" \notin N!EnabledChannels(type)
    BY <1>1, OffIsOff DEF PreferencesRelated, PromiseKept
  <2>3. N!Begin(p, c) /\ UNCHANGED <<preference, quiet, letters>>
    BY <1>10, <2>1 DEF N!PublishEvent
  <2>4. c.at = "publishing" /\ ((c.at = "publishing" /\ c.quiet) => "EMAIL" \notin c.channels)
    BY <2>1, <2>2
  <2> QED
    BY <1>5, <2>3, <2>4
<1>11. ASSUME NEW p \in Calls, N!Publish(p) PROVE PreferencesRelated'
  <2>1. N!Finish(p) /\ UNCHANGED <<preference, quiet>>
    BY <1>11 DEF N!Publish
  <2>2. asking[p].quiet => asking[p].channels \cap {"EMAIL"} = {}
    BY <1>1, <1>11 DEF PublicationKnown, N!Publish
  <2>3. NoLetters'
    BY <1>1, <1>11, <2>2 DEF N!Publish, PreferencesRelated, NoLetters
  <2>4. PromiseKept'
    BY <1>1, <2>1, CallEnds DEF PreferencesRelated, PromiseKept
  <2> QED
    BY <2>1, <2>3, <2>4, CallEnds DEF PreferencesRelated
<1> QED
  BY <1>2, <1>4, <1>6, <1>7, <1>8, <1>9, <1>10, <1>11 DEF N!Next

\* The invariant of the preferences holds throughout.
LEMMA PreferencesInvariant == ServicesSpec => []PreferencesInv
<1>1. ServicesInit => PreferencesInv
  BY PreferencesStart DEF ServicesInit
<1>2. PreferencesInv /\ [ServicesNext]_services => PreferencesInv'
  BY StepOfEach, PreferencesTyped, PreferencesStand DEF PreferencesInv
<1> QED
  BY <1>1, <1>2, PTL DEF ServicesSpec

\* Who has unsubscribed by the link of a letter, and has not asked for letters
\* since, gets none, though the unsubscription is a loop of writes that others
\* overlap with.
THEOREM UnsubscribedAreLeftAlone == ServicesSpec => []UnsubscribedStays
<1>1. PreferencesInv => UnsubscribedStays
  BY PreferencesQuiet
<1> QED
  BY <1>1, PreferencesInvariant, PTL

-----------------------------------------------------------------------------
(* The invariant: what a transaction holds, by what it still wants.        *)

IsWallet(lock) == \E w \in L!Wallets : lock = L!WalletLock(w)
IsRow(lock)    == \E r \in Rows : lock = L!RowLock(r)

\* It waits for nothing any more: what it wants it has.
Through(t) == \A i \in DOMAIN plan[t] : plan[t][i] \in holds[t]

\* A transfer before its second wallet.
Transferring(t) ==
  \E low, high, x, y \in L!Wallets :
    /\ low < high /\ {x, y} = {low, high}
    /\ \/ /\ plan[t] = <<L!WalletLock(low), L!WalletLock(high), L!WalletLock(x), L!WalletLock(y)>>
          /\ holds[t] = {}
       \/ /\ plan[t] = <<L!WalletLock(high), L!WalletLock(x), L!WalletLock(y)>>
          /\ holds[t] = {L!WalletLock(low)}

\* A confirmation before its row, and any other call before its only wallet.
BeforeRow(t) ==
  /\ \E r \in Rows, w \in L!Wallets : plan[t] = <<L!RowLock(r), L!WalletLock(w)>>
  /\ holds[t] = {}

BeforeWallet(t) ==
  /\ \E w \in L!Wallets : plan[t] = <<L!WalletLock(w)>>
  /\ \A lock \in holds[t] : IsRow(lock)

Shape(t) ==
  /\ kind[t] = "none" => plan[t] = <<>> /\ holds[t] = {}
  /\ kind[t] = "call" => Through(t) \/ Transferring(t) \/ BeforeRow(t) \/ BeforeWallet(t)
  /\ kind[t] = "task" => /\ plan[t] = <<>> \/ \E r \in Rows : plan[t] = <<L!RowLock(r)>>
                         /\ \A lock \in holds[t] : IsRow(lock)

Alone == \A t, u \in Txns : t # u => holds[t] \cap holds[u] = {}

LocksInv == L!TypeOK /\ Alone /\ \A t \in Txns : Shape(t)

-----------------------------------------------------------------------------
(* Lemmas.                                                                 *)

\* Heads and tails of the plans of calls.
LEMMA Tuples ==
  ASSUME NEW Any, NEW a \in Any, NEW b \in Any, NEW c \in Any, NEW d \in Any
  PROVE  /\ Head(<<a, b, c, d>>) = a /\ Tail(<<a, b, c, d>>) = <<b, c, d>>
         /\ Head(<<b, c, d>>) = b /\ Tail(<<b, c, d>>) = <<c, d>>
         /\ Head(<<c, d>>) = c /\ Tail(<<c, d>>) = <<d>>
         /\ Head(<<d>>) = d /\ Tail(<<d>>) = <<>>
<1>1. Head(<<a, b, c, d>>) = a /\ Tail(<<a, b, c, d>>) = <<b, c, d>>
  OBVIOUS
<1>2. Head(<<b, c, d>>) = b /\ Tail(<<b, c, d>>) = <<c, d>>
  OBVIOUS
<1>3. Head(<<c, d>>) = c /\ Tail(<<c, d>>) = <<d>>
  OBVIOUS
<1>4. Head(<<d>>) = d /\ Tail(<<d>>) = <<>>
  OBVIOUS
<1> QED
  BY <1>1, <1>2, <1>3, <1>4

\* The locks of wallets differ from those of rows and from one another.
LEMMA Tags ==
  /\ \A lock : ~(IsWallet(lock) /\ IsRow(lock))
  /\ \A v, w \in L!Wallets : L!WalletLock(v) = L!WalletLock(w) => v = w
  /\ \A w \in L!Wallets : IsWallet(L!WalletLock(w)) /\ L!WalletLock(w) \in L!Locks
  /\ \A r \in Rows : IsRow(L!RowLock(r)) /\ L!RowLock(r) \in L!Locks
<1>1. \A lock : ~(IsWallet(lock) /\ IsRow(lock))
  BY DEF IsWallet, IsRow, L!WalletLock, L!RowLock
<1> QED
  BY <1>1 DEF IsWallet, IsRow, L!WalletLock, L!RowLock, L!Locks

\* A set of wallets has a greatest one.
LEMMA Greatest ==
  ASSUME NEW Some \in SUBSET L!Wallets, Some # {}
  PROVE  \E m \in Some : \A x \in Some : x <= m
<1> DEFINE D == {NumWallets - x : x \in Some}
<1>1. D \subseteq Nat /\ D # {}
  <2>1. NumWallets \in Nat
    BY LocksAssumption
  <2>2. \A x \in Some : NumWallets - x \in Nat
    BY <2>1 DEF L!Wallets
  <2>3. PICK x \in Some : TRUE
    OBVIOUS
  <2>4. NumWallets - x \in D
    OBVIOUS
  <2> QED
    BY <2>2, <2>4
<1>2. PICK d \in D : \A y \in D : ~ (<<y, d>> \in OpToRel(<, Nat))
  BY <1>1, WFMin, NatLessThanWellFounded
<1>3. \A y \in D : ~(y < d)
  BY <1>1, <1>2 DEF OpToRel
<1>4. PICK m \in Some : d = NumWallets - m
  OBVIOUS
<1>5. ASSUME NEW x \in Some PROVE x <= m
  <2>1. ~(NumWallets - x < d)
    BY <1>3
  <2> QED
    BY <2>1, <1>4, LocksAssumption DEF L!Wallets
<1> QED
  BY <1>5

-----------------------------------------------------------------------------
(* What a transaction that waits for another one may hold.                 *)

\* Who waits for a wallet holds only lower ones, and who waits for a row holds
\* no wallet; only a task waits for a row while it holds one.
LEMMA Waiting ==
  ASSUME LocksInv, NEW t \in Txns, NEW u \in Txns, L!Awaits(t, u)
  PROVE  \/ /\ \E w \in L!Wallets : /\ Head(plan[t]) = L!WalletLock(w)
                                  /\ \A v \in L!Wallets : L!WalletLock(v) \in holds[t] => v < w
         \/ /\ IsRow(Head(plan[t]))
            /\ \A lock \in holds[t] : IsRow(lock)
            /\ holds[t] # {} => kind[t] = "task"
<1> USE DEF LocksInv
<1>1. plan[t] # <<>> /\ Head(plan[t]) \in holds[u] /\ Head(plan[t]) \notin holds[t]
  BY DEF L!Awaits, Alone
<1>2. Shape(t) /\ kind[t] \in {"none", "call", "task"} /\ plan[t] \in Seq(L!Locks)
  BY DEF L!TypeOK
<1>3. CASE kind[t] = "call" /\ Through(t)
  <2>1. 1 \in DOMAIN plan[t] /\ Head(plan[t]) = plan[t][1]
    BY <1>1, <1>2
  <2> QED
    BY <1>1, <1>3, <2>1 DEF Through
<1>4. CASE kind[t] = "call" /\ Transferring(t)
  <2>1. PICK low \in L!Wallets, high \in L!Wallets, x \in L!Wallets, y \in L!Wallets :
          /\ low < high
          /\ \/ /\ plan[t] = <<L!WalletLock(low), L!WalletLock(high), L!WalletLock(x), L!WalletLock(y)>>
                /\ holds[t] = {}
             \/ /\ plan[t] = <<L!WalletLock(high), L!WalletLock(x), L!WalletLock(y)>>
                /\ holds[t] = {L!WalletLock(low)}
    BY <1>4 DEF Transferring
  <2>2. CASE holds[t] = {} /\ Head(plan[t]) = L!WalletLock(low)
    BY <2>2
  <2>3. CASE holds[t] = {L!WalletLock(low)} /\ Head(plan[t]) = L!WalletLock(high)
    BY <2>1, <2>3, Tags
  <2> QED
    BY <2>1, <2>2, <2>3, Tuples, Tags
<1>5. CASE kind[t] = "call" /\ BeforeRow(t)
  <2>1. PICK r \in Rows, w \in L!Wallets : plan[t] = <<L!RowLock(r), L!WalletLock(w)>>
    BY <1>5 DEF BeforeRow
  <2>2. Head(plan[t]) = L!RowLock(r)
    BY <2>1, Tuples, Tags
  <2> QED
    BY <1>5, <2>2, Tags DEF BeforeRow
<1>6. CASE kind[t] = "call" /\ BeforeWallet(t)
  <2>1. PICK w \in L!Wallets : plan[t] = <<L!WalletLock(w)>>
    BY <1>6 DEF BeforeWallet
  <2>2. Head(plan[t]) = L!WalletLock(w)
    BY <2>1, Tuples, Tags
  <2> QED
    BY <1>6, <2>2, Tags DEF BeforeWallet
<1>7. CASE kind[t] = "task"
  <2>1. PICK r \in Rows : plan[t] = <<L!RowLock(r)>>
    BY <1>1, <1>2, <1>7 DEF Shape
  <2>2. Head(plan[t]) = L!RowLock(r)
    BY <2>1, Tuples, Tags
  <2> QED
    BY <1>2, <1>7, <2>2, Tags DEF Shape
<1> QED
  BY <1>1, <1>2, <1>3, <1>4, <1>5, <1>6, <1>7 DEF Shape

\* Nobody of a deadlock waits for a wallet: the one who waits for the greatest
\* would wait for somebody who waits for a greater one.
LEMMA NobodyAwaitsWallet ==
  ASSUME LocksInv, NEW D \in SUBSET Txns, L!Deadlocked(D),
         NEW t \in D, IsWallet(Head(plan[t]))
  PROVE  FALSE
<1> DEFINE Some == {w \in L!Wallets : \E x \in D : Head(plan[x]) = L!WalletLock(w)}
<1>1. Some \in SUBSET L!Wallets /\ Some # {}
  BY DEF IsWallet
<1>2. PICK m \in Some : \A w \in Some : w <= m
  BY <1>1, Greatest
<1>3. PICK x \in D : Head(plan[x]) = L!WalletLock(m)
  BY <1>2
<1>4. PICK u \in D : L!Awaits(x, u)
  BY DEF L!Deadlocked
<1>5. L!WalletLock(m) \in holds[u]
  BY <1>3, <1>4 DEF L!Awaits
<1>6. PICK v \in D : L!Awaits(u, v)
  BY DEF L!Deadlocked
<1>7. CASE \E w \in L!Wallets : /\ Head(plan[u]) = L!WalletLock(w)
                              /\ \A n \in L!Wallets : L!WalletLock(n) \in holds[u] => n < w
  <2>1. PICK w \in L!Wallets : Head(plan[u]) = L!WalletLock(w) /\ m < w
    BY <1>5, <1>7
  <2>2. w \in Some
    BY <2>1
  <2> QED
    BY <1>2, <2>1, <2>2, LocksAssumption DEF L!Wallets
<1>8. CASE \A lock \in holds[u] : IsRow(lock)
  BY <1>5, <1>8, Tags
<1> QED
  BY <1>6, <1>7, <1>8, Waiting

\* Who waits for a wallet waits, in the end, for somebody who does not wait, so a
\* deadlock is among rounds of the task: the invariant implies the property.
LEMMA Releases ==
  ASSUME LocksInv
  PROVE  CallsDoNotDeadlock
<1> SUFFICES ASSUME NEW D \in SUBSET Txns, L!Deadlocked(D)
             PROVE  \E t, u \in D : t # u /\ kind[t] = "task" /\ kind[u] = "task"
  BY DEF CallsDoNotDeadlock, L!CallsDoNotDeadlock
<1>1. ASSUME NEW t \in D, NEW u \in D, L!Awaits(t, u)
      PROVE  kind[u] = "task"
  <2>1. PICK v \in D : L!Awaits(u, v)
    BY DEF L!Deadlocked
  <2>2. holds[u] # {}
    BY <1>1 DEF L!Awaits
  <2>3. ~IsWallet(Head(plan[u]))
    BY NobodyAwaitsWallet
  <2> QED
    BY <2>1, <2>2, <2>3, Waiting, Tags
<1>2. PICK t \in D : TRUE
  BY DEF L!Deadlocked
<1>3. PICK u \in D : L!Awaits(t, u)
  BY DEF L!Deadlocked
<1>4. PICK v \in D : L!Awaits(u, v)
  BY DEF L!Deadlocked
<1>5. u # v
  BY <1>4 DEF L!Awaits
<1> QED
  BY <1>1, <1>3, <1>4, <1>5

-----------------------------------------------------------------------------
(* The steps keep the invariant.                                           *)

\* Nobody holds anything yet.
LEMMA LocksStart == L!Init => LocksInv
  BY DEF L!Init, LocksInv, L!TypeOK, Alone, Shape

\* Nothing that is not t's changes.
Others(t) == \A u \in Txns : u # t => /\ kind'[u] = kind[u] /\ plan'[u] = plan[u]
                                      /\ holds'[u] = holds[u]

\* A transaction that a step leaves alone keeps its shape.
LEMMA SameShape ==
  ASSUME NEW t \in Txns, Shape(t),
         kind'[t] = kind[t], plan'[t] = plan[t], holds'[t] = holds[t]
  PROVE  Shape(t)'
<1>1. Through(t) => Through(t)'
  BY DEF Through
<1>2. Transferring(t) => Transferring(t)'
  BY Zenon DEF Transferring
<1>3. BeforeRow(t) => BeforeRow(t)'
  BY DEF BeforeRow
<1>4. BeforeWallet(t) => BeforeWallet(t)'
  BY DEF BeforeWallet
<1> QED
  BY <1>1, <1>2, <1>3, <1>4 DEF Shape

\* Nobody else holds what one transaction gets or gives back.
LEMMA KeepsOthers ==
  ASSUME LocksInv, NEW t \in Txns, Others(t), L!TypeOK', Shape(t)',
         \A u \in Txns : u # t => holds'[t] \cap holds[u] = {}
  PROVE  LocksInv'
<1>1. Alone'
  BY DEF Alone, Others, LocksInv
<1>2. ASSUME NEW u \in Txns, u # t PROVE Shape(u)'
  BY <1>2, SameShape DEF Others, LocksInv
<1> QED
  BY <1>1, <1>2 DEF LocksInv

\* A call begins with a plan of one of the shapes.
LEMMA BeginStep ==
  ASSUME LocksInv, NEW t \in Txns, NEW what \in {"call", "task"}, NEW locks \in Seq(L!Locks),
         L!Begin(t, what, locks),
         holds[t] = {} => Shape(t)'
  PROVE  LocksInv'
<1>1. holds[t] = {}
  BY DEF LocksInv, Shape, L!Begin
<1>2. L!TypeOK' /\ Others(t)
  BY DEF LocksInv, L!TypeOK, L!Begin, Others
<1>3. holds'[t] = {}
  BY <1>1 DEF L!Begin
<1> QED
  BY <1>1, <1>2, <1>3, KeepsOthers

\* An operation locks one wallet.
LEMMA OperateStep ==
  ASSUME LocksInv, NEW t \in Txns, NEW w \in L!Wallets, L!Operate(t, w)
  PROVE  LocksInv'
<1>1. L!WalletLock(w) \in L!Locks /\ <<L!WalletLock(w)>> \in Seq(L!Locks)
  BY Tags
<1>2. ASSUME holds[t] = {} PROVE Shape(t)'
  BY <1>2 DEF L!Operate, L!Begin, Shape, BeforeWallet, LocksInv, L!TypeOK
<1> QED
  BY <1>1, <1>2, BeginStep DEF L!Operate

\* A transfer locks the lower wallet first.
LEMMA TransferStep ==
  ASSUME LocksInv, NEW t \in Txns, NEW source \in L!Wallets, NEW target \in L!Wallets,
         L!Transfer(t, source, target)
  PROVE  LocksInv'
<1> DEFINE low  == L!InOrder(source, target)[1]
           high == L!InOrder(source, target)[2]
           locks == <<L!WalletLock(low), L!WalletLock(high), L!WalletLock(source), L!WalletLock(target)>>
<1>1. low \in L!Wallets /\ high \in L!Wallets /\ low < high /\ {source, target} = {low, high}
  BY LocksAssumption DEF L!InOrder, L!Transfer, L!Wallets
<1>2. L!Begin(t, "call", locks)
  BY DEF L!Transfer
<1>3. locks \in Seq(L!Locks)
  BY <1>1, Tags
<1>4. ASSUME holds[t] = {} PROVE Shape(t)'
  <2>1. kind'[t] = "call" /\ plan'[t] = locks /\ holds'[t] = {}
    BY <1>2, <1>4 DEF L!Begin, LocksInv, L!TypeOK
  <2>2. Transferring(t)'
    BY <1>1, <2>1 DEF Transferring
  <2> QED
    BY <2>1, <2>2 DEF Shape
<1> QED
  BY <1>2, <1>3, <1>4, BeginStep

\* A confirmation locks the row, then its wallet.
LEMMA SettleStep ==
  ASSUME LocksInv, NEW t \in Txns, NEW r \in Rows, L!Settle(t, r)
  PROVE  LocksInv'
<1> DEFINE locks == <<L!RowLock(r), L!WalletLock(WalletOf[r])>>
<1>1. WalletOf[r] \in L!Wallets
  BY LocksAssumption DEF L!Wallets
<1>2. locks \in Seq(L!Locks)
  BY <1>1, Tags
<1>3. ASSUME holds[t] = {} PROVE Shape(t)'
  BY <1>1, <1>3 DEF L!Settle, L!Begin, Shape, BeforeRow, LocksInv, L!TypeOK
<1> QED
  BY <1>2, <1>3, BeginStep DEF L!Settle

\* The task that releases reservations takes rows.
LEMMA ReleaseStep ==
  ASSUME LocksInv, NEW t \in Txns, L!ReleaseExpired(t)
  PROVE  LocksInv'
<1>1. ASSUME holds[t] = {} PROVE Shape(t)'
  BY <1>1 DEF L!ReleaseExpired, L!Begin, Shape, LocksInv, L!TypeOK
<1>2. <<>> \in Seq(L!Locks)
  OBVIOUS
<1> QED
  BY <1>1, <1>2, BeginStep DEF L!ReleaseExpired

\* The task meets a row.
LEMMA MeetStep ==
  ASSUME LocksInv, NEW t \in Txns, NEW r \in Rows, L!Meet(t, r)
  PROVE  LocksInv'
<1>1. <<L!RowLock(r)>> \in Seq(L!Locks)
  BY Tags
<1>2. L!TypeOK' /\ Others(t)
  BY <1>1 DEF LocksInv, L!TypeOK, L!Meet, Others
<1>3. Shape(t)'
  BY DEF LocksInv, L!TypeOK, L!Meet, Shape
<1>4. \A u \in Txns : u # t => holds'[t] \cap holds[u] = {}
  BY DEF L!Meet, LocksInv, Alone
<1> QED
  BY <1>2, <1>3, <1>4, KeepsOthers

\* A lock that is free is taken.
LEMMA LockStep ==
  ASSUME LocksInv, NEW t \in Txns, L!Lock(t)
  PROVE  LocksInv'
<1> USE DEF LocksInv
<1> DEFINE lock == Head(plan[t])
<1>1. plan[t] \in Seq(L!Locks) /\ plan[t] # <<>> /\ lock \in L!Locks /\ Shape(t)
  BY DEF L!TypeOK, L!Lock, L!Free
<1>2. /\ kind'[t] = kind[t] /\ plan'[t] = Tail(plan[t])
      /\ holds'[t] = holds[t] \cup {lock}
  BY DEF L!Lock, L!TypeOK
<1>3. L!TypeOK' /\ Others(t)
  BY <1>1 DEF L!TypeOK, L!Lock, Others
<1>4. \A u \in Txns : u # t => holds'[t] \cap holds[u] = {}
  BY <1>1, <1>2 DEF L!Lock, L!Free, L!Awaits, Alone
<1>5. ASSUME kind[t] = "call" /\ Through(t)
      PROVE  Shape(t)'
  <2>1. \A i \in DOMAIN Tail(plan[t]) : Tail(plan[t])[i] \in holds[t]
    BY <1>1, <1>5 DEF Through
  <2> QED
    BY <1>2, <1>5, <2>1 DEF Shape, Through
<1>6. ASSUME kind[t] = "call" /\ Transferring(t)
      PROVE  Shape(t)'
  <2>1. PICK low \in L!Wallets, high \in L!Wallets, x \in L!Wallets, y \in L!Wallets :
          /\ low < high /\ {x, y} = {low, high}
          /\ \/ /\ plan[t] = <<L!WalletLock(low), L!WalletLock(high), L!WalletLock(x), L!WalletLock(y)>>
                /\ holds[t] = {}
             \/ /\ plan[t] = <<L!WalletLock(high), L!WalletLock(x), L!WalletLock(y)>>
                /\ holds[t] = {L!WalletLock(low)}
    BY <1>6 DEF Transferring
  <2>2. CASE /\ plan[t] = <<L!WalletLock(low), L!WalletLock(high), L!WalletLock(x), L!WalletLock(y)>>
             /\ holds[t] = {}
    <3>1. /\ plan'[t] = <<L!WalletLock(high), L!WalletLock(x), L!WalletLock(y)>>
          /\ holds'[t] = {L!WalletLock(low)}
      BY <1>2, <2>2, Tuples, Tags
    <3>2. Transferring(t)'
      BY <2>1, <3>1 DEF Transferring
    <3> QED
      BY <1>2, <1>6, <3>2 DEF Shape
  <2>3. CASE /\ plan[t] = <<L!WalletLock(high), L!WalletLock(x), L!WalletLock(y)>>
             /\ holds[t] = {L!WalletLock(low)}
    <3>1. /\ plan'[t] = <<L!WalletLock(x), L!WalletLock(y)>>
          /\ holds'[t] = {L!WalletLock(low), L!WalletLock(high)}
      BY <1>2, <2>3, Tuples, Tags
    <3>2. Through(t)'
      BY <2>1, <3>1 DEF Through
    <3> QED
      BY <1>2, <1>6, <3>2 DEF Shape
  <2> QED
    BY <2>1, <2>2, <2>3
<1>7. ASSUME kind[t] = "call" /\ BeforeRow(t)
      PROVE  Shape(t)'
  <2>1. PICK r \in Rows, w \in L!Wallets : plan[t] = <<L!RowLock(r), L!WalletLock(w)>>
    BY <1>7 DEF BeforeRow
  <2>2. plan'[t] = <<L!WalletLock(w)>> /\ holds'[t] = {L!RowLock(r)}
    BY <1>2, <1>7, <2>1, Tuples, Tags DEF BeforeRow
  <2>3. BeforeWallet(t)'
    BY <2>2, Tags DEF BeforeWallet
  <2> QED
    BY <1>2, <1>7, <2>3 DEF Shape
<1>8. ASSUME kind[t] = "call" /\ BeforeWallet(t)
      PROVE  Shape(t)'
  <2>1. PICK w \in L!Wallets : plan[t] = <<L!WalletLock(w)>>
    BY <1>8 DEF BeforeWallet
  <2>2. plan'[t] = <<>>
    BY <1>2, <2>1, Tuples, Tags
  <2>3. Through(t)'
    <3>1. DOMAIN plan'[t] = {}
      BY <2>2
    <3> QED
      BY <3>1 DEF Through
  <2> QED
    BY <1>2, <1>8, <2>3 DEF Shape
<1>9. ASSUME kind[t] = "task"
      PROVE  Shape(t)'
  <2>1. PICK r \in Rows : plan[t] = <<L!RowLock(r)>>
    BY <1>1, <1>9 DEF Shape
  <2>2. plan'[t] = <<>> /\ holds'[t] = holds[t] \cup {L!RowLock(r)}
    BY <1>2, <2>1, Tuples, Tags
  <2> QED
    BY <1>1, <1>2, <1>9, <2>2, Tags DEF Shape
<1>10. kind[t] \in {"call", "task"}
  BY <1>1 DEF Shape, L!TypeOK
<1>11. Shape(t)'
  BY <1>1, <1>5, <1>6, <1>7, <1>8, <1>9, <1>10 DEF Shape
<1> QED
  BY <1>3, <1>4, <1>11, KeepsOthers

\* The task passes over a row that is locked.
LEMMA SkipStep ==
  ASSUME LocksInv, NEW t \in Txns, L!Skip(t)
  PROVE  LocksInv'
<1> USE DEF LocksInv
<1>1. plan[t] \in Seq(L!Locks) /\ plan[t] # <<>> /\ Shape(t)
  BY DEF L!TypeOK, L!Skip, L!Free
<1>2. L!TypeOK' /\ Others(t)
  BY <1>1 DEF L!TypeOK, L!Skip, Others
<1>3. PICK r \in Rows : plan[t] = <<L!RowLock(r)>>
  BY <1>1 DEF Shape, L!Skip
<1>4. kind'[t] = "task" /\ plan'[t] = <<>> /\ holds'[t] = holds[t]
  BY <1>3, Tuples, Tags DEF L!Skip, L!TypeOK
<1>5. Shape(t)'
  BY <1>1, <1>4 DEF Shape, L!Skip
<1>6. \A u \in Txns : u # t => holds'[t] \cap holds[u] = {}
  BY <1>4 DEF Alone
<1> QED
  BY <1>2, <1>5, <1>6, KeepsOthers

\* A transaction gives back all it holds.
LEMMA EndStep ==
  ASSUME LocksInv, NEW t \in Txns, L!Commit(t) \/ L!Rollback(t)
  PROVE  LocksInv'
<1>1. CASE L!Commit(t)
  <2>1. kind'[t] = "none" /\ plan'[t] = <<>> /\ holds'[t] = {} /\ Others(t) /\ L!TypeOK'
    BY <1>1 DEF LocksInv, L!TypeOK, L!Commit, Others
  <2>2. Shape(t)'
    BY <2>1 DEF Shape
  <2> QED
    BY <2>1, <2>2, KeepsOthers
<1>2. CASE L!Rollback(t)
  <2>1. kind'[t] = "none" /\ plan'[t] = <<>> /\ holds'[t] = {}
    BY <1>2 DEF LocksInv, L!TypeOK, L!Rollback
  <2>2. Others(t) /\ L!TypeOK'
    <3>1. <<>> \in Seq(L!Locks)
      OBVIOUS
    <3> QED
      BY <1>2, <3>1 DEF LocksInv, L!TypeOK, L!Rollback, Others
  <2>3. Shape(t)'
    BY <2>1 DEF Shape
  <2> QED
    BY <2>1, <2>2, <2>3, KeepsOthers
<1> QED
  BY <1>1, <1>2

\* The invariant of the locks holds throughout.
LEMMA LocksInvariant == ServicesSpec => []LocksInv
<1>1. ServicesInit => LocksInv
  BY LocksStart DEF ServicesInit
<1>2. LocksInv /\ [L!Next]_locksVars => LocksInv'
  <2> SUFFICES ASSUME LocksInv, [L!Next]_locksVars PROVE LocksInv'
    OBVIOUS
  <2>1. CASE L!Next
    BY <2>1, OperateStep, TransferStep, SettleStep, ReleaseStep, MeetStep, LockStep,
       SkipStep, EndStep DEF L!Next
  <2>2. CASE UNCHANGED locksVars
    <3>1. L!TypeOK' /\ Alone'
      BY <2>2 DEF locksVars, LocksInv, L!TypeOK, Alone
    <3>2. \A t \in Txns : Shape(t)'
      BY <2>2, SameShape DEF locksVars, LocksInv
    <3> QED
      BY <3>1, <3>2 DEF LocksInv
  <2> QED
    BY <2>1, <2>2
<1>3. LocksInv /\ [ServicesNext]_services => LocksInv'
  BY <1>2, StepOfEach
<1> QED
  BY <1>1, <1>3, PTL DEF ServicesSpec

\* Calls of the wallet never block one another for ever: in every deadlock there
\* are two rounds of the release task, since wallets are locked in order and a
\* row before its wallet.
THEOREM NoDeadlockOfCalls == ServicesSpec => []CallsDoNotDeadlock
<1>1. LocksInv => CallsDoNotDeadlock
  BY Releases
<1> QED
  BY <1>1, LocksInvariant, PTL

-----------------------------------------------------------------------------
(* The feed.  Who holds the number's row has the next number, alone; no    *)
(* cursor is ahead of the feed.                                            *)

\* The instance that holds the number's row has the next number, alone.
Locked ==
  \A i \in Instances : tx[i].at = "insert" =>
    /\ tx[i].seq = last + 1
    /\ \A j \in Instances : tx[j].at = "insert" => j = i

\* An instance that is appending is appending an event.
Named == \A i \in Instances : tx[i].at # "idle" => tx[i].of \in Events

\* No cursor is ahead of the feed.
Behind == \A r \in Readers : reader[r].cursor <= last

\* The inductive invariant.
FeedInv ==
  /\ TypeOK
  /\ Named
  /\ Locked
  /\ FeedIsNumbered
  /\ Behind
  /\ CursorMissesNothing
  /\ SleepersAreWoken

-----------------------------------------------------------------------------
(* What a page holds.                                                      *)

\* A page is of the feed.
LEMMA PageOfFeed ==
  ASSUME NEW c
  PROVE  Page(c) \subseteq feed
BY DEF Page

\* An empty page says that nothing is behind the cursor: if anything were, the
\* number just after the cursor would be taken, and its message is alone.
LEMMA EmptyPage ==
  ASSUME TypeOK, FeedIsNumbered, NEW c \in Nat, Page(c) = {}
  PROVE  \A m \in feed : m.seq <= c
<1> SUFFICES ASSUME NEW m \in feed, ~ (m.seq <= c) PROVE FALSE
  OBVIOUS
<1>1. /\ m.seq \in Nat
      /\ \A n \in feed : n.seq \in Nat
  BY DEF TypeOK, Message
<1>2. m.seq \in 1..last /\ last \in Nat
  BY <1>1 DEF FeedIsNumbered, TypeOK
<1>3. c + 1 \in {n.seq : n \in feed}
  <2>1. c + 1 \in 1..last
    BY <1>1, <1>2
  <2> QED BY <2>1 DEF FeedIsNumbered
<1>4. PICK n \in feed : n.seq = c + 1
  BY <1>3
<1>5. {k \in feed : k.seq > c /\ k.seq <= n.seq} = {n}
  <2>1. \A k \in feed : k.seq > c /\ k.seq <= n.seq => k.seq = n.seq
    BY <1>1, <1>4
  <2> QED BY <1>1, <1>4, <2>1 DEF FeedIsNumbered
<1>6. Cardinality({k \in feed : k.seq > c /\ k.seq <= n.seq}) = 1
  BY <1>5, FS_Singleton
<1>7. n \in Page(c)
  BY <1>1, <1>4, <1>6, PageAssumption DEF Page
<1> QED BY <1>7

\* A page passes over nothing: what lies before one of its messages is in it.
LEMMA WholePage ==
  ASSUME TypeOK, NEW c \in Nat, NEW m \in Page(c), NEW n \in feed,
         n.seq > c, n.seq <= m.seq
  PROVE  n \in Page(c)
<1> DEFINE Upto(k) == {l \in feed : l.seq > c /\ l.seq <= k.seq}
<1>1. m \in feed /\ \A k \in feed : k.seq \in Nat
  BY PageOfFeed DEF TypeOK, Message
<1>2. Upto(n) \subseteq Upto(m)
  BY <1>1
<1>3. IsFiniteSet(Upto(m))
  BY FS_Subset DEF TypeOK
<1>4. /\ Cardinality(Upto(n)) <= Cardinality(Upto(m))
      /\ Cardinality(Upto(n)) \in Nat
      /\ Cardinality(Upto(m)) \in Nat
  BY <1>2, <1>3, FS_Subset, FS_CardinalityType
<1>5. Cardinality(Upto(m)) <= PageSize
  BY DEF Page
<1>6. Cardinality(Upto(n)) <= PageSize
  BY <1>4, <1>5, PageAssumption
<1> QED BY <1>6 DEF Page

\* Where an answer leaves the client.
LEMMA AnswerMoves ==
  ASSUME TypeOK, NEW r \in Readers, NEW page, page \subseteq feed, Ends(r, page)
  PROVE  \E c \in Nat :
           /\ \/ page = {} /\ c = reader[r].cursor
              \/ \E m \in page : c = m.seq
           /\ \A m \in page : m.seq <= c
           /\ reader' = [reader EXCEPT ![r] = [at |-> "idle", hub |-> Nothing,
                                               woken |-> FALSE, cursor |-> c]]
<1>1. /\ reader[r].cursor \in Nat
      /\ \A m \in page : m.seq \in Nat
  BY DEF TypeOK, Request, Message
<1>2. CASE page = {}
  BY <1>1, <1>2 DEF Ends
<1>3. CASE page # {}
  <2>1. PICK c \in {m.seq : m \in page} :
          /\ \A m \in page : m.seq <= c
          /\ reader' = [reader EXCEPT ![r] = [at |-> "idle", hub |-> Nothing,
                                              woken |-> FALSE, cursor |-> c]]
    BY <1>3 DEF Ends
  <2>2. c \in Nat /\ \E m \in page : c = m.seq
    BY <1>1, <2>1
  <2> QED BY <2>1, <2>2
<1> QED BY <1>2, <1>3

-----------------------------------------------------------------------------
(* The part of the invariant about the transactions: what a client does    *)
(* leaves it alone, and of the other actions only Number and Insert can    *)
(* disturb it.                                                             *)

\* What an answer leaves typed, and where it takes the cursor.
LEMMA AnswerTyped ==
  ASSUME TypeOK, NEW r \in Readers, NEW page, page \subseteq feed, Ends(r, page)
  PROVE  /\ reader' \in [Readers -> Request]
         /\ \A s \in Readers : reader'[s].hub = Nothing <=> reader'[s].at \in {"idle", "empty"}
         /\ seen' \in [Readers -> SUBSET Events]
<1>1. PICK c \in Nat :
        reader' = [reader EXCEPT ![r] = [at |-> "idle", hub |-> Nothing,
                                         woken |-> FALSE, cursor |-> c]]
  BY AnswerMoves
<1>2. [at |-> "idle", hub |-> Nothing, woken |-> FALSE, cursor |-> c] \in Request
  BY DEF Request
<1>3. reader' \in [Readers -> Request]
  BY <1>1, <1>2 DEF TypeOK
<1>4. \A s \in Readers : reader'[s].hub = Nothing <=> reader'[s].at \in {"idle", "empty"}
  BY <1>1 DEF TypeOK
<1>5. {m.of : m \in page} \subseteq Events
  BY DEF TypeOK, Message
<1>6. seen' \in [Readers -> SUBSET Events]
  BY <1>5 DEF TypeOK, Ends
<1> QED BY <1>3, <1>4, <1>6

\* At the start.
LEMMA TypeInit == Init => TypeOK
<1> SUFFICES ASSUME Init PROVE TypeOK
  OBVIOUS
<1>1. IsFiniteSet(feed)
  BY FS_EmptySet DEF Init
<1> QED BY <1>1, NothingAssumption DEF Init, TypeOK, Message, Tx, NoTx, Request

\* Every step keeps the types.
LEMMA TypeStep ==
  ASSUME TypeOK, Named, Next
  PROVE  TypeOK' /\ Named'
<1> USE NothingAssumption
<1>1. ASSUME NEW i \in Instances, NEW e \in Events, AppendMessage(i, e) PROVE TypeOK' /\ Named'
  <2> DEFINE t == [NoTx EXCEPT !.at = IF \E m \in feed : m.of = e THEN "push" ELSE "number",
                               !.of = e]
  <2>1. t \in Tx /\ t.of = e
    BY DEF Tx, NoTx
  <2>2. tx' = [tx EXCEPT ![i] = t]
    BY <1>1 DEF AppendMessage
  <2> QED BY <1>1, <2>1, <2>2 DEF AppendMessage, TypeOK, Named
<1>2. ASSUME NEW i \in Instances, Number(i) PROVE TypeOK' /\ Named'
  <2>1. tx[i] \in Tx /\ last + 1 \in Nat
    BY DEF TypeOK
  <2>2. tx' = [tx EXCEPT ![i] = [tx[i] EXCEPT !.at = "insert", !.seq = last + 1]]
    BY <1>2 DEF Number
  <2>3. [tx[i] EXCEPT !.at = "insert", !.seq = last + 1] \in Tx
    BY <2>1 DEF Tx
  <2>4. tx' \in [Instances -> Tx]
    BY <2>2, <2>3 DEF TypeOK
  <2>5. Named'
    BY <1>2, <2>1, <2>2 DEF Number, TypeOK, Named, Tx
  <2> QED BY <1>2, <2>4, <2>5 DEF Number, TypeOK
<1>3. ASSUME NEW i \in Instances, Insert(i) PROVE TypeOK' /\ Named'
  <2>1. tx[i] \in Tx /\ tx[i].of \in Events
    BY <1>3 DEF Insert, TypeOK, Named
  <2>2. [of |-> tx[i].of, seq |-> tx[i].seq] \in Message
    BY <2>1 DEF Message, Tx
  <2>3. IsFiniteSet(feed')
    <3>1. IsFiniteSet(feed)
      BY DEF TypeOK
    <3>2. IsFiniteSet(feed \cup {[of |-> tx[i].of, seq |-> tx[i].seq]})
      BY <3>1, FS_AddElement
    <3> QED BY <1>3, <3>2 DEF Insert
  <2>4. tx' \in [Instances -> Tx] /\ \A j \in Instances : tx'[j].of = tx[j].of
    BY <1>3, <2>1 DEF Insert, Goes, TypeOK, Tx
  <2>5. Named'
    BY <1>3, <2>1, <2>4 DEF Insert, Goes, Named, TypeOK
  <2>6. last' \in Nat
    BY <1>3, <2>1 DEF Insert, Tx
  <2> QED BY <1>3, <2>2, <2>3, <2>4, <2>5, <2>6 DEF Insert, TypeOK
<1>4. ASSUME NEW i \in Instances, Rollback(i) PROVE TypeOK' /\ Named'
  BY <1>4 DEF Rollback, TypeOK, Named, Tx, NoTx
<1>5. ASSUME NEW i \in Instances, Publish(i) PROVE TypeOK' /\ Named'
  BY <1>5 DEF Publish, TypeOK, Named, Tx, NoTx
<1>6. ASSUME NEW i \in Instances, NEW s \in Readers
      PROVE  /\ Woken(i)[s] \in Request \/ ~ TypeOK
             /\ Woken(i)[s].at = reader[s].at
             /\ Woken(i)[s].hub = reader[s].hub
  BY DEF Woken, TypeOK, Request
<1>7. ASSUME NEW i \in Instances PROVE Woken(i) \in [Readers -> Request]
  BY <1>6 DEF Woken
<1>8. ASSUME NEW i \in Instances, PublishHere(i) PROVE TypeOK' /\ Named'
  <2>1. tx[i].of \in Events
    BY <1>8 DEF PublishHere, Named
  <2>2. tx' \in [Instances -> Tx] /\ Named'
    BY <1>8 DEF PublishHere, TypeOK, Named, Tx, NoTx
  <2> QED BY <1>6, <1>7, <1>8, <2>1, <2>2 DEF PublishHere, TypeOK
<1>9. ASSUME NEW i \in Instances, NEW e \in Events, Deliver(i, e) PROVE TypeOK' /\ Named'
  BY <1>6, <1>7, <1>9 DEF Deliver, TypeOK, Named
<1>10. ASSUME NEW i \in Instances, NEW e \in Events, Drop(i, e) PROVE TypeOK' /\ Named'
  BY <1>10 DEF Drop, TypeOK, Named
<1>11. ASSUME NEW r \in Readers, NEW page, page \subseteq feed, Ends(r, page),
              UNCHANGED <<feed, last, tx, flight, lost>>
       PROVE  TypeOK' /\ Named'
  BY <1>11, AnswerTyped DEF TypeOK, Named
<1>12. ASSUME NEW r \in Readers, Poll(r) PROVE TypeOK' /\ Named'
  <2>1. CASE Page(reader[r].cursor) = {}
    BY <1>12, <2>1 DEF Poll, TypeOK, Named, Request
  <2>2. CASE Page(reader[r].cursor) # {}
    BY <1>11, <1>12, <2>2, PageOfFeed DEF Poll
  <2> QED BY <2>1, <2>2
<1>13. ASSUME NEW r \in Readers, NEW i \in Instances, Subscribe(r, i) PROVE TypeOK' /\ Named'
  BY <1>13 DEF Subscribe, TypeOK, Named, Request
<1>14. ASSUME NEW r \in Readers, Reread(r) PROVE TypeOK' /\ Named'
  <2>1. CASE Page(reader[r].cursor) = {}
    BY <1>14, <2>1 DEF Reread, TypeOK, Named, Request
  <2>2. CASE Page(reader[r].cursor) # {}
    BY <1>11, <1>14, <2>2, PageOfFeed DEF Reread
  <2> QED BY <2>1, <2>2
<1>15. ASSUME NEW r \in Readers, Wake(r) PROVE TypeOK' /\ Named'
  BY <1>11, <1>15, PageOfFeed DEF Wake
<1>16. ASSUME NEW r \in Readers, Leave(r) PROVE TypeOK' /\ Named'
  BY <1>11, <1>16 DEF Leave
<1>17. ASSUME NEW i \in Instances, Stop(i) PROVE TypeOK' /\ Named'
  <2>1. tx' \in [Instances -> Tx] /\ Named'
    BY <1>17 DEF Stop, TypeOK, Named, Tx, NoTx
  <2>2. lost' \subseteq Events /\ flight' \subseteq Instances \X Events
    BY <1>17 DEF Stop, TypeOK, Named
  <2>3. /\ reader' \in [Readers -> Request]
        /\ \A s \in Readers : reader'[s].hub = Nothing <=> reader'[s].at \in {"idle", "empty"}
    BY <1>17 DEF Stop, TypeOK, Request
  <2> QED BY <1>17, <2>1, <2>2, <2>3 DEF Stop, TypeOK
<1> QED
  BY <1>1, <1>2, <1>3, <1>4, <1>5, <1>8, <1>9, <1>10, <1>12, <1>13, <1>14, <1>15, <1>16, <1>17
  DEF Next, Serve

-----------------------------------------------------------------------------
(* The numbers.  Only Number and Insert can disturb them.                  *)

\* Every step keeps the numbers without gaps, and their row with one instance.
LEMMA NumberStep ==
  ASSUME TypeOK, Locked, FeedIsNumbered, Next
  PROVE  Locked' /\ FeedIsNumbered'
<1>1. CASE UNCHANGED <<feed, last, tx>>
  BY <1>1 DEF Locked, FeedIsNumbered
<1>2. ASSUME NEW i \in Instances, UNCHANGED <<feed, last>>,
             \E t : t.at # "insert" /\ tx' = [tx EXCEPT ![i] = t]
      PROVE  Locked' /\ FeedIsNumbered'
  BY <1>2 DEF TypeOK, Locked, FeedIsNumbered
<1>3. ASSUME NEW i \in Instances, NEW e \in Events, AppendMessage(i, e)
      PROVE  Locked' /\ FeedIsNumbered'
  <2> DEFINE t == [NoTx EXCEPT !.at = IF \E m \in feed : m.of = e THEN "push" ELSE "number",
                               !.of = e]
  <2>1. t.at # "insert" /\ tx' = [tx EXCEPT ![i] = t] /\ UNCHANGED <<feed, last>>
    BY <1>3 DEF AppendMessage, NoTx
  <2> HIDE DEF t
  <2> QED BY <1>2, <2>1
<1>4. ASSUME NEW i \in Instances, Number(i) PROVE Locked' /\ FeedIsNumbered'
  <2>1. \A j \in Instances : tx[j].at # "insert"
    BY <1>4 DEF Number
  <2>2. \A j \in Instances : j # i => tx'[j] = tx[j]
    BY <1>4 DEF Number, TypeOK
  <2>3. tx'[i].seq = last + 1 /\ last' = last
    BY <1>4 DEF Number, TypeOK, Tx
  <2> QED BY <1>4, <2>1, <2>2, <2>3 DEF Number, Locked, FeedIsNumbered
<1>5. ASSUME NEW i \in Instances, Insert(i) PROVE Locked' /\ FeedIsNumbered'
  <2> DEFINE new == [of |-> tx[i].of, seq |-> tx[i].seq]
  <2>1. /\ new.seq = last + 1
        /\ feed' = feed \cup {new}
        /\ last' = last + 1
        /\ last \in Nat
    BY <1>5 DEF Insert, Locked, TypeOK
  <2>2. \A m \in feed : m.of # new.of /\ m.seq # new.seq
    <3>1. \A m \in feed : m.seq \in 1..last
      BY DEF FeedIsNumbered
    <3> QED BY <1>5, <2>1, <3>1 DEF Insert
  <2>3. {m.seq : m \in feed'} = {m.seq : m \in feed} \cup {last + 1}
    BY <2>1
  <2>4. 1..last' = (1..last) \cup {last + 1}
    BY <2>1
  <2>5. FeedIsNumbered'
    <3> HIDE DEF new
    <3> QED BY <2>1, <2>2, <2>3, <2>4 DEF FeedIsNumbered
  <2>6. \A j \in Instances : tx'[j].at # "insert"
    BY <1>5 DEF Insert, Goes, Locked, TypeOK, Tx
  <2> QED BY <2>5, <2>6 DEF Locked
<1>6. ASSUME NEW i \in Instances, UNCHANGED <<feed, last>>, tx' = [tx EXCEPT ![i] = NoTx]
      PROVE  Locked' /\ FeedIsNumbered'
  BY <1>2, <1>6 DEF NoTx
<1>7. ASSUME NEW i \in Instances, Rollback(i) \/ Publish(i) \/ PublishHere(i) \/ Stop(i)
      PROVE  Locked' /\ FeedIsNumbered'
  BY <1>6, <1>7 DEF Rollback, Publish, PublishHere, Stop
<1>8. ASSUME NEW i \in Instances, NEW e \in Events, Deliver(i, e) \/ Drop(i, e)
      PROVE  UNCHANGED <<feed, last, tx>>
  BY <1>8 DEF Deliver, Drop
<1>9. ASSUME NEW r \in Readers, Poll(r) \/ Serve(r) \/ Leave(r)
      PROVE  UNCHANGED <<feed, last, tx>>
  BY <1>9 DEF Poll, Serve, Subscribe, Reread, Wake, Leave
<1> QED BY <1>1, <1>3, <1>4, <1>5, <1>7, <1>8, <1>9 DEF Next

-----------------------------------------------------------------------------
(* The cursors.                                                            *)

\* An answer takes the cursor over what it shows, and over nothing else.
LEMMA AnswerReads ==
  ASSUME TypeOK, FeedIsNumbered, Behind, CursorMissesNothing,
         NEW r \in Readers, NEW page, page = {} \/ page = Page(reader[r].cursor),
         Ends(r, page), UNCHANGED <<feed, last>>
  PROVE  Behind' /\ CursorMissesNothing'
<1>1. page \subseteq feed
  BY PageOfFeed
<1>2. PICK c \in Nat :
        /\ \/ page = {} /\ c = reader[r].cursor
           \/ \E m \in page : c = m.seq
        /\ \A m \in page : m.seq <= c
        /\ reader' = [reader EXCEPT ![r] = [at |-> "idle", hub |-> Nothing,
                                            woken |-> FALSE, cursor |-> c]]
  BY <1>1, AnswerMoves
<1>3. \A s \in Readers : s # r => reader'[s].cursor = reader[s].cursor /\ seen'[s] = seen[s]
  BY <1>2 DEF Ends, TypeOK
<1>4. reader'[r].cursor = c /\ seen'[r] = seen[r] \cup {m.of : m \in page}
  BY <1>2 DEF Ends, TypeOK
<1>5. c <= last
  <2>1. \A m \in feed : m.seq \in 1..last
    BY DEF FeedIsNumbered
  <2> QED BY <1>1, <1>2, <2>1 DEF Behind, TypeOK
<1>6. Behind'
  BY <1>3, <1>4, <1>5 DEF Behind
<1>7. \A n \in feed : n.seq <= c => n.of \in seen'[r]
  <2> SUFFICES ASSUME NEW n \in feed, n.seq <= c PROVE n.of \in seen'[r]
    OBVIOUS
  <2>1. reader[r].cursor \in Nat /\ n.seq \in Nat
    BY DEF TypeOK, Request, Message
  <2>2. CASE n.seq <= reader[r].cursor
    BY <1>4, <2>2 DEF CursorMissesNothing
  <2>3. CASE ~ (n.seq <= reader[r].cursor)
    <3>1. PICK m \in page : c = m.seq
      BY <1>2, <2>1, <2>3
    <3>2. n \in page
      BY <2>1, <2>3, <3>1, WholePage
    <3> QED BY <1>4, <3>2
  <2> QED BY <2>2, <2>3
<1> QED BY <1>3, <1>4, <1>6, <1>7 DEF CursorMissesNothing

\* Every step keeps the cursors behind the feed and passes over nothing.
LEMMA ReadStep ==
  ASSUME TypeOK, Locked, FeedIsNumbered, Behind, CursorMissesNothing, Next
  PROVE  Behind' /\ CursorMissesNothing'
<1>1. ASSUME UNCHANGED <<feed, last, seen>>,
             \A r \in Readers : reader'[r].cursor = reader[r].cursor
      PROVE  Behind' /\ CursorMissesNothing'
  BY <1>1 DEF Behind, CursorMissesNothing
<1>2. ASSUME NEW i \in Instances, Insert(i) PROVE Behind' /\ CursorMissesNothing'
  <2>1. /\ feed' = feed \cup {[of |-> tx[i].of, seq |-> last + 1]}
        /\ last' = last + 1
        /\ UNCHANGED <<reader, seen>>
    BY <1>2 DEF Insert, Locked
  <2>2. \A r \in Readers : reader[r].cursor <= last /\ reader[r].cursor \in Nat /\ last \in Nat
    BY DEF Behind, TypeOK, Request
  <2> QED BY <2>1, <2>2 DEF Behind, CursorMissesNothing
<1>3. ASSUME NEW i \in Instances, NEW s \in Readers
      PROVE  Woken(i)[s].cursor = reader[s].cursor
  BY DEF Woken, TypeOK, Request
<1>4. ASSUME NEW i \in Instances, NEW e \in Events, AppendMessage(i, e) \/ Deliver(i, e) \/ Drop(i, e)
      PROVE  Behind' /\ CursorMissesNothing'
  BY <1>1, <1>3, <1>4 DEF AppendMessage, Deliver, Drop
<1>5. ASSUME NEW i \in Instances, Number(i) \/ Rollback(i) \/ Publish(i) \/ PublishHere(i)
      PROVE  Behind' /\ CursorMissesNothing'
  BY <1>1, <1>3, <1>5 DEF Number, Rollback, Publish, PublishHere
<1>6. ASSUME NEW i \in Instances, Stop(i) PROVE Behind' /\ CursorMissesNothing'
  <2>1. \A s \in Readers : reader'[s].cursor = reader[s].cursor
    BY <1>6 DEF Stop
  <2> QED BY <1>1, <1>6, <2>1 DEF Stop
<1>7. ASSUME NEW r \in Readers, Poll(r) \/ Reread(r) PROVE Behind' /\ CursorMissesNothing'
  <2>1. CASE Page(reader[r].cursor) = {}
    <3>1. \A s \in Readers : reader'[s].cursor = reader[s].cursor
      BY <1>7, <2>1 DEF Poll, Reread, TypeOK, Request
    <3> QED BY <1>1, <1>7, <2>1, <3>1 DEF Poll, Reread
  <2>2. CASE Page(reader[r].cursor) # {}
    BY <1>7, <2>2, AnswerReads DEF Poll, Reread
  <2> QED BY <2>1, <2>2
<1>8. ASSUME NEW r \in Readers, NEW i \in Instances, Subscribe(r, i)
      PROVE  Behind' /\ CursorMissesNothing'
  <2>1. \A s \in Readers : reader'[s].cursor = reader[s].cursor
    BY <1>8 DEF Subscribe, TypeOK, Request
  <2> QED BY <1>1, <1>8, <2>1 DEF Subscribe
<1>9. ASSUME NEW r \in Readers, Wake(r) \/ Leave(r) PROVE Behind' /\ CursorMissesNothing'
  BY <1>9, AnswerReads DEF Wake, Leave
<1> QED BY <1>2, <1>4, <1>5, <1>6, <1>7, <1>8, <1>9 DEF Next, Serve

-----------------------------------------------------------------------------
(* The sleepers.                                                           *)

\* Who waits over which message without having been woken.
Sleeps(r, m) == reader[r].at = "waiting" /\ ~ reader[r].woken /\ m.seq > reader[r].cursor

\* What will wake him, or did not reach him.
Underway(r, m) ==
  \/ \E i \in Instances : tx[i].at = "push" /\ tx[i].of = m.of
  \/ <<reader[r].hub, m.of>> \in flight
  \/ m.of \in lost

\* Every step keeps a sleeper's news on its way.
LEMMA SleepStep ==
  ASSUME TypeOK, Named, Locked, FeedIsNumbered, SleepersAreWoken, Next
  PROVE  SleepersAreWoken'
<1>1. \A r \in Readers, m \in feed : Sleeps(r, m) => Underway(r, m)
  BY DEF SleepersAreWoken, Sleeps, Underway
<1>2. SUFFICES ASSUME NEW r \in Readers, NEW m \in feed', Sleeps(r, m)' PROVE Underway(r, m)'
  BY DEF SleepersAreWoken, Sleeps, Underway
<1>3. /\ reader[r].hub \in Instances \cup {Nothing}
      /\ reader[r].at = "waiting" => reader[r].hub \in Instances
      /\ reader[r].cursor \in Nat
  BY DEF TypeOK, Request
<1>4. ASSUME NEW i \in Instances, NEW e \in Events, AppendMessage(i, e) PROVE Underway(r, m)'
  BY <1>1, <1>2, <1>4 DEF AppendMessage, Sleeps, Underway, TypeOK
<1>5. ASSUME NEW i \in Instances, Number(i) PROVE Underway(r, m)'
  BY <1>1, <1>2, <1>5 DEF Number, Sleeps, Underway, TypeOK
<1>6. ASSUME NEW i \in Instances, Insert(i) PROVE Underway(r, m)'
  <2>1. tx'[i].at = "push" /\ tx'[i].of = tx[i].of /\ \A j \in Instances : j # i => tx'[j] = tx[j]
    BY <1>6 DEF Insert, Goes, TypeOK, Tx
  <2>2. CASE m \in feed
    BY <1>1, <1>2, <1>6, <2>1, <2>2 DEF Insert, Sleeps, Underway
  <2>3. CASE m \notin feed
    BY <1>6, <2>1, <2>3 DEF Insert, Underway
  <2> QED BY <2>2, <2>3
<1>7. ASSUME NEW i \in Instances, Rollback(i) PROVE Underway(r, m)'
  BY <1>1, <1>2, <1>7 DEF Rollback, Sleeps, Underway, TypeOK
<1>8. ASSUME NEW i \in Instances, Publish(i) PROVE Underway(r, m)'
  <2>1. Underway(r, m) /\ UNCHANGED <<reader, lost>>
    BY <1>1, <1>2, <1>8 DEF Publish, Sleeps
  <2>2. reader[r].hub \in Instances
    BY <1>2, <1>3, <2>1 DEF Sleeps
  <2> QED BY <1>8, <2>1, <2>2 DEF Publish, Underway, TypeOK
<1>9. ASSUME NEW i \in Instances, reader' = Woken(i), feed' = feed
      PROVE  Underway(r, m) /\ reader[r].hub # i /\ reader'[r].hub = reader[r].hub
  BY <1>1, <1>2, <1>9 DEF Woken, Sleeps, TypeOK, Request
<1>10. ASSUME NEW i \in Instances, PublishHere(i) PROVE Underway(r, m)'
  BY <1>9, <1>10 DEF PublishHere, Underway, TypeOK
<1>11. ASSUME NEW i \in Instances, NEW e \in Events, Deliver(i, e) PROVE Underway(r, m)'
  BY <1>9, <1>11 DEF Deliver, Underway
<1>12. ASSUME NEW i \in Instances, NEW e \in Events, Drop(i, e) PROVE Underway(r, m)'
  BY <1>1, <1>2, <1>12 DEF Drop, Sleeps, Underway
<1>13. ASSUME NEW s \in Readers, UNCHANGED <<feed, tx, flight, lost>>,
              \A t \in Readers : t # s => reader'[t] = reader[t],
              reader'[s].at # "waiting"
       PROVE  Underway(r, m)'
  BY <1>1, <1>2, <1>13 DEF Sleeps, Underway
<1>14. ASSUME NEW s \in Readers, NEW page, Ends(s, page), UNCHANGED <<feed, tx, flight, lost>>
       PROVE  Underway(r, m)'
  <2>1. /\ \A t \in Readers : t # s => reader'[t] = reader[t]
        /\ reader'[s].at # "waiting"
    BY <1>14 DEF Ends, TypeOK
  <2> QED BY <1>13, <1>14, <2>1
<1>15. ASSUME NEW s \in Readers, Poll(s) PROVE Underway(r, m)'
  <2>1. CASE Page(reader[s].cursor) = {}
    <3>1. /\ \A t \in Readers : t # s => reader'[t] = reader[t]
          /\ reader'[s].at # "waiting"
      BY <1>15, <2>1 DEF Poll, TypeOK, Request
    <3> QED BY <1>13, <1>15, <3>1 DEF Poll
  <2>2. CASE Page(reader[s].cursor) # {}
    BY <1>14, <1>15, <2>2 DEF Poll
  <2> QED BY <2>1, <2>2
<1>16. ASSUME NEW s \in Readers, NEW i \in Instances, Subscribe(s, i) PROVE Underway(r, m)'
  <2>1. /\ \A t \in Readers : t # s => reader'[t] = reader[t]
        /\ reader'[s].at # "waiting"
    BY <1>16 DEF Subscribe, TypeOK, Request
  <2> QED BY <1>13, <1>16, <2>1 DEF Subscribe
<1>17. ASSUME NEW s \in Readers, Reread(s) PROVE Underway(r, m)'
  <2>1. CASE Page(reader[s].cursor) = {}
    \* He waits because there is nothing for him.
    <3>1. /\ reader' = [reader EXCEPT ![s].at = "waiting"]
          /\ UNCHANGED <<feed, tx, flight, lost>>
      BY <1>17, <2>1 DEF Reread
    <3>2. r # s
      <4>1. reader[s].cursor \in Nat
        BY DEF TypeOK, Request
      <4>2. \A n \in feed : n.seq <= reader[s].cursor
        BY <2>1, <4>1, EmptyPage
      <4>3. m.seq <= reader[s].cursor /\ m.seq \in Nat
        BY <3>1, <4>2 DEF TypeOK, Message
      <4>4. reader'[s].cursor = reader[s].cursor
        BY <3>1 DEF TypeOK, Request
      <4> QED BY <1>2, <4>1, <4>3, <4>4 DEF Sleeps
    <3>3. reader'[r] = reader[r]
      BY <3>1, <3>2 DEF TypeOK
    <3>4. Underway(r, m)
      BY <1>1, <1>2, <3>1, <3>3 DEF Sleeps
    <3> QED BY <3>1, <3>3, <3>4 DEF Underway
  <2>2. CASE Page(reader[s].cursor) # {}
    BY <1>14, <1>17, <2>2 DEF Reread
  <2> QED BY <2>1, <2>2
<1>18. ASSUME NEW s \in Readers, Wake(s) \/ Leave(s) PROVE Underway(r, m)'
  BY <1>14, <1>18 DEF Wake, Leave
<1>19. ASSUME NEW i \in Instances, Stop(i) PROVE Underway(r, m)'
  <2>1. reader'[r] = reader[r] /\ reader[r].hub # i
    BY <1>2, <1>19 DEF Stop, Sleeps
  <2>2. Underway(r, m)
    BY <1>1, <1>2, <1>19, <2>1 DEF Stop, Sleeps
  <2> QED BY <1>19, <2>1, <2>2 DEF Stop, Underway, TypeOK
<1> QED
  BY <1>4, <1>5, <1>6, <1>7, <1>8, <1>10, <1>11, <1>12, <1>15, <1>16, <1>17, <1>18, <1>19
  DEF Next, Serve

\* There is no message yet.
LEMMA FeedStart == Init => FeedInv
<1> SUFFICES ASSUME Init PROVE FeedInv
  OBVIOUS
<1>1. TypeOK
  BY TypeInit
<1>2. Named /\ Locked
  BY DEF Init, Named, Locked, NoTx
<1>3. feed = {} /\ last = 0 /\ \A r \in Readers : reader[r].cursor = 0
  BY DEF Init
<1> QED
  BY <1>1, <1>2, <1>3 DEF FeedInv, FeedIsNumbered, Behind, CursorMissesNothing, SleepersAreWoken

\* Every step keeps the invariant.
LEMMA FeedKeeps ==
  ASSUME FeedInv, [Next]_vars
  PROVE  FeedInv'
<1>1. CASE Next
  BY <1>1, TypeStep, NumberStep, ReadStep, SleepStep DEF FeedInv
<1>2. CASE UNCHANGED vars
  BY <1>2 DEF vars, FeedInv, TypeOK, Named, Locked, FeedIsNumbered, Behind,
              CursorMissesNothing, SleepersAreWoken, Page
<1> QED
  BY <1>1, <1>2

\* The invariant of the feed holds throughout.
LEMMA FeedInvariant == ServicesSpec => []FeedInv
<1>1. ServicesInit => FeedInv
  BY FeedStart DEF ServicesInit
<1>2. FeedInv /\ [ServicesNext]_services => FeedInv'
  BY StepOfEach, FeedKeeps
<1> QED
  BY <1>1, <1>2, PTL DEF ServicesSpec

\* Whatever two instances append at once and whatever is rolled back, an event
\* has one message and the numbers are 1, 2, 3 and so on.
THEOREM Numbering == ServicesSpec => []FeedIsNumbered
<1>1. FeedInv => FeedIsNumbered
  BY DEF FeedInv
<1> QED
  BY <1>1, FeedInvariant, PTL

\* A client that follows the cursor misses no message, whatever the page.
THEOREM CursorIsSafe == ServicesSpec => []CursorMissesNothing
<1>1. FeedInv => CursorMissesNothing
  BY DEF FeedInv
<1> QED
  BY <1>1, FeedInvariant, PTL

\* A request sleeps over a message only if the news of it is on its way or
\* was lost between the instances.
THEOREM NoWakeupMissed == ServicesSpec => []SleepersAreWoken
<1>1. FeedInv => SleepersAreWoken
  BY DEF FeedInv
<1> QED
  BY <1>1, FeedInvariant, PTL

-----------------------------------------------------------------------------
(* The types of all the parts.                                             *)

\* Every table, and every call on its way, keeps its type: amounts are not
\* negative, months and terms within their columns, keys and codes numbered.
THEOREM TypesAreKept == ServicesSpec => []TypesOK
<1>1. /\ CreditInv /\ TokensInv /\ KeysInv /\ ContactsInv /\ IdentitiesInv
      /\ BindingsInv /\ PreferencesInv /\ LocksInv /\ FeedInv
      => TypesOK
  BY DEF TypesOK, CreditInv, TokensInv, KeysInv, ContactsInv, IdentitiesInv, BindingsInv,
     PreferencesInv, LocksInv, FeedInv
<1> QED
  BY <1>1, CreditInvariant, TokensInvariant, KeysInvariant, ContactsInvariant,
     IdentitiesInvariant, BindingsInvariant, PreferencesInvariant, LocksInvariant,
     FeedInvariant, PTL

=============================================================================
