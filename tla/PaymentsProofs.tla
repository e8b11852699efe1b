--------------------------- MODULE PaymentsProofs ---------------------------
(***************************************************************************)
(* Proofs about payment operations: what is stored as settled is settled   *)
(* so at the provider, whoever told it and however late, only an answer of *)
(* the time before takes it back, and the circuit is open exactly while    *)
(* what it guards keeps failing.                                           *)
(***************************************************************************)
EXTENDS PaymentsPart, FiniteSets, TLAPS

\* What somebody was told of an operation is what the provider says now, if
\* he was told that it is settled.
True(o, told) ==
  told.status \in P!Terminal => provider[o].status = told.status /\ provider[o].at = told.at

\* All that was told and has not been applied yet, and what is stored.
ToldTrue ==
  /\ \A o \in Ops : True(o, store[o])
  /\ \A p \in Callers : client[p].at = "answered" =>
       client[p].seen # P!None /\ True(client[p].op, client[p].seen)
  /\ \A e \in webhooks : e.amount = "same" => True(e.op, e)
  /\ pass.at = "answered" => pass.op \in Ops /\ True(pass.op, pass.seen)

IInv == P!TypeOK /\ ToldTrue /\ P!B!OpenWhileFailing

LEMMA NoneIsNotSettled == P!None.status \notin P!Terminal /\ P!None \in P!Operation
BY DEF P!None, P!Terminal, P!Operation

-----------------------------------------------------------------------------
(* The circuit breaker.                                                    *)

LEMMA BreakerInit == P!B!InitBreaker => P!B!BreakerType /\ P!B!OpenWhileFailing
BY SettingsAssumption
  DEF P!B!InitBreaker, P!B!BreakerType, P!B!BreakerStates, P!B!OpenWhileFailing

\* Each of the steps of a breaker keeps its count and its state together.
BreakerStep == P!B!Allow \/ P!B!Succeed \/ P!B!Fail \/ P!B!Refuse \/ P!B!Rest \/ UNCHANGED breaker

LEMMA BreakerKept ==
  P!B!BreakerType /\ P!B!OpenWhileFailing /\ BreakerStep => P!B!BreakerType' /\ P!B!OpenWhileFailing'
<1> SUFFICES ASSUME P!B!BreakerType, P!B!OpenWhileFailing, BreakerStep
             PROVE  P!B!BreakerType' /\ P!B!OpenWhileFailing'
  OBVIOUS
<1> USE SettingsAssumption DEF P!B!BreakerType, P!B!BreakerStates, P!B!OpenWhileFailing
<1>1. CASE P!B!Allow
  BY <1>1 DEF P!B!Allow, P!B!Passes
<1>2. CASE P!B!Succeed
  BY <1>2 DEF P!B!Succeed
<1>3. CASE P!B!Fail
  <2> DEFINE failures == IF breaker.failures < Threshold THEN breaker.failures + 1 ELSE Threshold
             opens == breaker.state = "HALF_OPEN" \/ failures >= Threshold
  <2>1. failures \in 0..Threshold
    OBVIOUS
  <2>2. breaker' = [state    |-> IF opens THEN "OPEN" ELSE breaker.state,
                    failures |-> failures,
                    rest     |-> IF opens THEN ResetAfter ELSE 0]
    BY <1>3 DEF P!B!Fail
  <2>3. P!B!BreakerType'
    BY <2>1, <2>2
  <2>4. CASE breaker.state = "CLOSED"
    BY <2>1, <2>2, <2>4
  <2>5. CASE breaker.state # "CLOSED"
    <3>1. breaker.failures = Threshold /\ failures = Threshold
      BY <2>5
    <3> QED BY <2>2, <2>3, <2>5, <3>1
  <2> QED BY <2>3, <2>4, <2>5
<1>4. CASE P!B!Refuse \/ UNCHANGED breaker
  BY <1>4 DEF P!B!Refuse
<1>5. CASE P!B!Rest
  BY <1>5 DEF P!B!Rest
<1> QED BY <1>1, <1>2, <1>3, <1>4, <1>5 DEF BreakerStep

LEMMA NextSteps == P!Next => BreakerStep
BY DEF P!Next, BreakerStep, P!Request, P!Answer, P!Reject, P!Unanswered, P!Put,
  P!Forget, P!Advance, P!Misreport,
  P!Ask, P!StatusOf, P!NoStatus, P!Reconcile, P!Skip, P!Deliver, P!Lose, P!Load,
  P!Refused, P!Stop, P!Tick
-----------------------------------------------------------------------------
(* Types.                                                                  *)

LEMMA InitType == P!Init => P!TypeOK
BY BreakerInit, SettingsAssumption
  DEF P!Init, P!TypeOK, P!Operation, P!None, P!NoPass, P!NoRequest, P!Event, P!EventId

LEMMA RememberedType ==
  ASSUME P!TypeOK, NEW o \in Ops PROVE P!Remembered(o) \in P!Operation
BY SettingsAssumption DEF P!TypeOK, P!Remembered, P!Operation, P!None, P!Status,
  P!Terminal

\* An event that is applied leaves a state of the operation and an id.
LEMMA ApplyType ==
  ASSUME P!TypeOK, NEW source \in {"webhook", "reconcile"},
         NEW e, e.op \in Ops, e.status \in P!Status, e.at \in 0..MaxChanges,
         P!Apply(e, <<source, e.op, e.status>>)
  PROVE  store' \in [Ops -> P!Operation] /\ applied' \subseteq P!EventId
<1>1. CASE P!Applies(e, <<source, e.op, e.status>>)
  <2>1. [status |-> e.status, at |-> e.at] \in P!Operation
    BY DEF P!Operation
  <2>2. <<source, e.op, e.status>> \in P!EventId
    BY DEF P!EventId
  <2> QED BY <1>1, <2>1, <2>2 DEF P!TypeOK, P!Apply
<1>2. CASE ~P!Applies(e, <<source, e.op, e.status>>)
  BY <1>2 DEF P!TypeOK, P!Apply
<1> QED BY <1>1, <1>2

\* What the reconciler was told: nothing, or a state of the operation.
LEMMA RemoteType ==
  ASSUME P!TypeOK, NEW o \in Ops, P!Reconcile(o), pass.seen # P!None
  PROVE  P!Remote(o).op = o /\ P!Remote(o).status \in P!Status /\ P!Remote(o).at \in 0..MaxChanges
BY DEF P!TypeOK, P!Remote, P!Operation, P!Reconcile

\* A request that is under way names its operation.
LEMMA AskedOfOperation ==
  ASSUME P!TypeOK, NEW p \in Callers, client[p].at # "idle"
  PROVE  client[p].op \in Ops /\ client[p].seen \in P!Operation
BY DEF P!TypeOK, P!NoRequest, P!Asked

LEMMA NextType ==
  ASSUME P!TypeOK, P!B!BreakerType', [P!Next]_(P!vars) PROVE P!TypeOK'
<1> USE DEF P!TypeOK
<1>1. ASSUME NEW p \in Callers, NEW o \in Ops, P!Request(p, o) PROVE P!TypeOK'
  <2>1. [at |-> "calling", op |-> o, seen |-> P!None] \in P!Asked
    BY NoneIsNotSettled DEF P!Asked
  <2> QED BY <1>1, <2>1 DEF P!Request, P!Becomes
<1>2. ASSUME NEW p \in Callers, P!Answer(p) PROVE P!TypeOK'
  <2>1. client[p].op \in Ops
    BY <1>2, AskedOfOperation DEF P!Answer
  <2>2. P!Remembered(client[p].op) \in P!Operation
    BY <2>1, RememberedType
  <2>3. [at |-> "answered", op |-> client[p].op, seen |-> P!Remembered(client[p].op)] \in P!Asked
    BY <2>1, <2>2 DEF P!Asked
  <2> QED BY <1>2, <2>1, <2>2, <2>3 DEF P!Answer, P!Becomes
<1>3. ASSUME NEW p \in Callers, P!Reject(p) \/ P!Forget(p) PROVE P!TypeOK'
  BY <1>3 DEF P!Reject, P!Forget, P!Becomes
<1>4. ASSUME NEW p \in Callers, P!Unanswered(p) PROVE P!TypeOK'
  <2>1. P!Remembered(client[p].op) \in P!Operation
    BY <1>4, AskedOfOperation, RememberedType DEF P!Unanswered
  <2> QED BY <1>4, <2>1 DEF P!Unanswered, P!Becomes
<1>5. ASSUME NEW p \in Callers, P!Put(p) PROVE P!TypeOK'
  BY <1>5, AskedOfOperation DEF P!Put, P!Becomes
<1>7. ASSUME NEW o \in Ops, NEW s \in P!Status, P!Advance(o, s) PROVE P!TypeOK'
  <2>1. provider[o].at + 1 \in 0..MaxChanges
    BY <1>7, SettingsAssumption DEF P!Advance, P!CanFollow, P!Operation, P!None,
      P!Status, P!Terminal
  <2>2. [status |-> s, at |-> provider[o].at + 1] \in P!Operation
    BY <2>1 DEF P!Operation
  <2>3. [op |-> o, status |-> s, at |-> provider[o].at + 1, amount |-> "same"] \in P!Event
    BY <2>1 DEF P!Event
  <2> QED BY <1>7, <2>2, <2>3 DEF P!Advance
<1>8. ASSUME NEW o \in Ops, P!Misreport(o) PROVE P!TypeOK'
  BY <1>8, SettingsAssumption DEF P!Misreport, P!Event, P!Status, P!Terminal
<1>9. ASSUME NEW o \in Ops, P!Ask(o) PROVE P!TypeOK'
  BY <1>9 DEF P!Ask
<1>10. ASSUME NEW o \in Ops, P!StatusOf(o) PROVE P!TypeOK'
  BY <1>10 DEF P!StatusOf
<1>11. ASSUME NEW o \in Ops, P!NoStatus(o) PROVE P!TypeOK'
  BY <1>11, NoneIsNotSettled DEF P!NoStatus, P!NoPass
<1>12. ASSUME NEW o \in Ops, P!Reconcile(o) PROVE P!TypeOK'
  <2>1. pass' \in [at : {"idle", "next", "calling", "answered"}, todo : SUBSET Ops,
                   op : Ops \cup {NoOp}, seen : P!Operation]
    BY <1>12, NoneIsNotSettled DEF P!Reconcile, P!Continue, P!Rest, P!NoPass
  <2>2. store' \in [Ops -> P!Operation] /\ applied' \subseteq P!EventId
    <3>1. CASE pass.seen # P!None
      BY <1>12, <3>1, RemoteType, ApplyType DEF P!Reconcile, P!Remote
    <3>2. CASE pass.seen = P!None
      <4>1. ~P!Applies(P!Remote(o), <<"reconcile", o, pass.seen.status>>)
        BY <3>2 DEF P!Applies, P!Remote, P!CanFollow, P!None, P!Status, P!Terminal
      <4> QED BY <1>12, <4>1 DEF P!Reconcile, P!Apply
    <3> QED BY <3>1, <3>2
  <2> QED BY <1>12, <2>1, <2>2 DEF P!Reconcile
<1>13. ASSUME NEW o \in Ops, P!Skip(o) PROVE P!TypeOK'
  BY <1>13, NoneIsNotSettled DEF P!Skip, P!Continue, P!Rest, P!NoPass
<1>14. ASSUME NEW e \in webhooks, P!Deliver(e) PROVE P!TypeOK'
  <2>1. e.op \in Ops /\ e.status \in P!Status /\ e.at \in 0..MaxChanges
    BY DEF P!Event
  <2>2. store' \in [Ops -> P!Operation] /\ applied' \subseteq P!EventId
    BY <1>14, <2>1, ApplyType DEF P!Deliver
  <2>3. webhooks' \subseteq webhooks
    BY <1>14 DEF P!Deliver
  <2> QED BY <1>14, <2>2, <2>3 DEF P!Deliver
<1>15. ASSUME NEW e \in webhooks, P!Lose(e) PROVE P!TypeOK'
  BY <1>15 DEF P!Lose
<1>16. ASSUME NEW todo \in SUBSET Ops, P!Load(todo) PROVE P!TypeOK'
  BY <1>16, NoneIsNotSettled DEF P!Load, P!NoPass
<1>17. CASE P!Refused \/ P!Stop
  BY <1>17, NoneIsNotSettled DEF P!Refused, P!Stop, P!NoPass
<1>18. CASE P!Tick \/ UNCHANGED P!vars
  BY <1>18 DEF P!Tick, P!vars
<1> QED
  BY <1>1, <1>2, <1>3, <1>4, <1>5, <1>7, <1>8, <1>9, <1>10, <1>11, <1>12, <1>13,
     <1>14, <1>15, <1>16, <1>17, <1>18 DEF P!Next

-----------------------------------------------------------------------------
(* What was told stays true.                                               *)

\* The provider never takes back that an operation is settled.
LEMMA SettledAtProvider ==
  ASSUME P!TypeOK, [P!Next]_(P!vars), NEW o \in Ops, provider[o].status \in P!Terminal
  PROVE  provider'[o] = provider[o]
<1>1. ASSUME NEW p \in Callers, P!Answer(p) \/ P!Unanswered(p) PROVE provider'[o] = provider[o]
  BY <1>1, NoneIsNotSettled DEF P!TypeOK, P!Answer, P!Unanswered, P!Remembered
<1>2. ASSUME NEW p \in Ops, NEW s \in P!Status, P!Advance(p, s) PROVE provider'[o] = provider[o]
  BY <1>2 DEF P!TypeOK, P!Advance, P!CanFollow, P!Terminal
<1> QED
  BY <1>1, <1>2 DEF P!Next, P!vars, P!Request, P!Reject, P!Put, P!Forget,
    P!Misreport, P!Ask, P!StatusOf, P!NoStatus,
    P!Reconcile, P!Skip, P!Deliver, P!Lose, P!Load, P!Refused, P!Stop, P!Tick

\* So it stays true of everything that was told.
LEMMA TrueStays ==
  ASSUME P!TypeOK, [P!Next]_(P!vars), NEW o \in Ops, NEW told, True(o, told)
  PROVE  told.status \in P!Terminal => provider'[o].status = told.status /\ provider'[o].at = told.at
BY SettledAtProvider DEF True

\* What a transaction stores is what the event tells, if it tells anything.
LEMMA AppliedIsTrue ==
  ASSUME P!TypeOK, [P!Next]_(P!vars), ToldTrue, NEW e, e.op \in Ops, NEW id, P!Apply(e, id),
         e.amount = "same" => True(e.op, e), NEW o \in Ops
  PROVE  True(o, store[o])'
<1>1. CASE P!Applies(e, id) /\ o = e.op
  <2>1. store'[o] = [status |-> e.status, at |-> e.at] /\ e.amount = "same"
    BY <1>1 DEF P!Apply, P!Applies, P!TypeOK
  <2>2. e.status \in P!Terminal => provider'[o].status = e.status /\ provider'[o].at = e.at
    BY <1>1, <2>1, TrueStays
  <2> QED BY <2>1, <2>2 DEF True
<1>2. CASE ~(P!Applies(e, id) /\ o = e.op)
  <2>1. store'[o] = store[o]
    BY <1>2 DEF P!Apply, P!TypeOK
  <2> QED BY <2>1, TrueStays DEF ToldTrue, True
<1> QED BY <1>1, <1>2

LEMMA StoreStaysTrue ==
  ASSUME IInv, [P!Next]_(P!vars), NEW o \in Ops
  PROVE  True(o, store[o])'
<1> USE DEF IInv
<1>1. ASSUME NEW p \in Callers, P!Put(p)
      PROVE  True(o, store[o])'
  <2>1. CASE o = client[p].op
    <3>1. store'[o] = client[p].seen /\ True(o, client[p].seen)
      BY <1>1, <2>1 DEF P!Put, ToldTrue, P!TypeOK
    <3> QED BY <3>1, TrueStays DEF True
  <2>2. CASE o # client[p].op
    <3>1. store'[o] = store[o]
      BY <1>1, <2>2 DEF P!Put, P!TypeOK
    <3> QED BY <3>1, TrueStays DEF ToldTrue, True
  <2> QED BY <2>1, <2>2
<1>2. ASSUME NEW e \in webhooks, P!Deliver(e)
      PROVE  True(o, store[o])'
  <2>1. e.op \in Ops /\ (e.amount = "same" => True(e.op, e))
    BY DEF P!TypeOK, P!Event, ToldTrue
  <2> QED BY <1>2, <2>1, AppliedIsTrue DEF P!Deliver
<1>3. ASSUME NEW p \in Ops, P!Reconcile(p)
      PROVE  True(o, store[o])'
  <2>1. P!Remote(p).op \in Ops /\ True(P!Remote(p).op, P!Remote(p))
    BY <1>3 DEF P!Reconcile, P!Remote, ToldTrue, True
  <2> QED BY <1>3, <2>1, AppliedIsTrue DEF P!Reconcile
<1>4. CASE UNCHANGED store
  BY <1>4, TrueStays DEF ToldTrue, True
<1> QED
  BY <1>1, <1>2, <1>3, <1>4 DEF P!Next, P!vars, P!Request, P!Answer, P!Reject,
    P!Unanswered, P!Forget, P!Advance,
    P!Misreport, P!Ask, P!StatusOf, P!NoStatus, P!Skip, P!Lose, P!Load, P!Refused,
    P!Stop, P!Tick

\* An answer tells what the provider says.
LEMMA AnswersStayTrue ==
  ASSUME IInv, [P!Next]_(P!vars), NEW p \in Callers, client'[p].at = "answered"
  PROVE  client'[p].seen # P!None /\ True(client[p].op, client[p].seen)'
<1> USE DEF IInv
<1>1. CASE P!Answer(p)
  <2>1. client[p].op \in Ops /\ client'[p].op = client[p].op
        /\ client'[p].seen = P!Remembered(client[p].op)
    BY <1>1, AskedOfOperation DEF P!Answer, P!Becomes, P!TypeOK
  <2>2. provider'[client[p].op] = P!Remembered(client[p].op)
    BY <1>1, <2>1 DEF P!Answer, P!TypeOK
  <2>3. P!Remembered(client[p].op) # P!None
    BY DEF P!Remembered, P!None
  <2> QED BY <2>1, <2>2, <2>3 DEF True
<1>2. CASE ~P!Answer(p)
  <2>1. \/ UNCHANGED client
        \/ \E q \in Callers \ {p} : P!Answer(q)
        \/ \E q \in Callers, o \in Ops : P!Request(q, o)
        \/ \E q \in Callers : P!Becomes(q, P!NoRequest)
    BY <1>2 DEF P!Next, P!vars, P!Reject, P!Unanswered, P!Put, P!Forget, P!Advance,
      P!Misreport,
      P!Ask, P!StatusOf, P!NoStatus, P!Reconcile, P!Skip, P!Deliver, P!Lose, P!Load,
      P!Refused, P!Stop, P!Tick
  <2>2. client'[p] = client[p]
    BY <2>1 DEF P!Answer, P!Request, P!Becomes, P!NoRequest, P!TypeOK
  <2>3. client[p].op \in Ops /\ client[p].seen # P!None /\ True(client[p].op, client[p].seen)
    BY <2>2, AskedOfOperation DEF ToldTrue
  <2> QED BY <2>2, <2>3, TrueStays DEF True
<1> QED BY <1>1, <1>2

\* A webhook is sent with the change it tells of.
LEMMA WebhooksStayTrue ==
  ASSUME IInv, [P!Next]_(P!vars), NEW e \in webhooks', e.amount = "same"
  PROVE  e.status \in P!Terminal => provider'[e.op].status = e.status /\ provider'[e.op].at = e.at
<1> USE DEF IInv
<1>1. CASE e \in webhooks
  BY <1>1, TrueStays DEF ToldTrue, P!TypeOK, P!Event
<1>2. CASE e \notin webhooks
  <2>1. \/ webhooks' \subseteq webhooks
        \/ \E o \in Ops : P!Misreport(o) \/ \E s \in P!Status : P!Advance(o, s)
    BY DEF P!Next, P!vars, P!Request, P!Answer, P!Reject, P!Unanswered, P!Put, P!Forget,
      P!Ask, P!StatusOf, P!NoStatus, P!Reconcile, P!Skip, P!Deliver, P!Lose, P!Load,
      P!Refused, P!Stop, P!Tick
  <2>2. ~\E o \in Ops : P!Misreport(o)
    BY <1>2 DEF P!Misreport
  <2>3. PICK o \in Ops, s \in P!Status : P!Advance(o, s)
    BY <1>2, <2>1, <2>2
  <2>4. e = [op |-> o, status |-> s, at |-> provider[o].at + 1, amount |-> "same"]
    BY <1>2, <2>3 DEF P!Advance
  <2> QED BY <2>3, <2>4 DEF P!Advance, P!TypeOK
<1> QED BY <1>1, <1>2

\* The reconciler was told what the provider says.
LEMMA PassStaysTrue ==
  ASSUME IInv, [P!Next]_(P!vars), pass'.at = "answered"
  PROVE  /\ pass'.op \in Ops
         /\ True(pass.op, pass.seen)'
<1> USE DEF IInv
<1>1. ASSUME NEW o \in Ops, P!StatusOf(o)
      PROVE  pass'.op = o /\ pass'.seen = provider'[o]
  BY <1>1 DEF P!StatusOf, P!TypeOK
<1>2. CASE \E o \in Ops : P!StatusOf(o)
  BY <1>1, <1>2 DEF True
<1>3. CASE \A o \in Ops : ~P!StatusOf(o)
  <2>1. ASSUME NEW o \in Ops, P!Continue(o) PROVE FALSE
    BY <2>1 DEF P!Continue, P!NoPass
  <2>2. ASSUME NEW o \in Ops, P!Ask(o) PROVE FALSE
    BY <2>2 DEF P!Ask, P!TypeOK
  <2>3. ASSUME NEW todo \in SUBSET Ops, P!Load(todo) PROVE FALSE
    BY <2>3 DEF P!Load, P!NoPass
  <2>4. pass' # P!NoPass
    BY DEF P!NoPass
  <2>5. pass' = pass
    BY <1>3, <2>1, <2>2, <2>3, <2>4 DEF P!Next, P!vars, P!Request, P!Answer,
      P!Reject, P!Unanswered, P!Put,
      P!Forget, P!Advance, P!Misreport, P!NoStatus, P!Reconcile, P!Skip, P!Deliver,
      P!Lose, P!Refused, P!Stop, P!Tick
  <2> QED BY <2>5, TrueStays DEF ToldTrue, True
<1> QED BY <1>2, <1>3

LEMMA ToldStaysTrue == IInv /\ [P!Next]_(P!vars) => ToldTrue'
BY StoreStaysTrue, AnswersStayTrue, WebhooksStayTrue, PassStaysTrue DEF ToldTrue, True

-----------------------------------------------------------------------------

LEMMA Inductive == IInv /\ [P!Next]_(P!vars) => IInv'
<1> SUFFICES ASSUME IInv, [P!Next]_(P!vars) PROVE IInv'
  OBVIOUS
<1>1. BreakerStep
  BY NextSteps DEF P!vars, BreakerStep
<1>2. P!B!BreakerType' /\ P!B!OpenWhileFailing'
  BY <1>1, BreakerKept DEF IInv, P!TypeOK
<1>3. P!TypeOK'
  BY <1>2, NextType DEF IInv
<1> QED BY <1>2, <1>3, ToldStaysTrue DEF IInv

LEMMA Initially == P!Init => IInv
<1> SUFFICES ASSUME P!Init PROVE ToldTrue
  BY InitType, BreakerInit DEF P!Init, IInv
<1> QED BY NoneIsNotSettled DEF P!Init, ToldTrue, True, P!NoRequest, P!NoPass

\* Whoever tells the system that an operation is settled (an answer that is
\* stored late, a webhook, a reconciliation) tells what the provider says.
THEOREM Invariance == P!Spec => []IInv
BY Initially, Inductive, PTL DEF P!Spec

\* Every variable of the payments keeps its type.
THEOREM TypeCorrect == P!Spec => []P!TypeOK
BY Invariance, PTL DEF IInv

\* An operation that is stored as settled is settled so at the provider, and
\* it stays as it is, unless an answer of the time before the decision is stored
\* after it.
THEOREM SettlementsAreTrue == P!Spec => SettledTruly
<1> DEFINE TakesBack(o) ==
      \E p \in Callers : /\ client[p].at = "answered" /\ client[p].op = o
                        /\ client[p].seen = store'[o] /\ store'[o].status = "PENDING"
<1>1. IInv' => P!StoreAgrees'
  BY DEF IInv, ToldTrue, True, P!StoreAgrees
<1>2. ASSUME IInv, [P!Next]_(P!vars), NEW o \in Ops, store[o].status \in P!Terminal, store'[o] # store[o]
      PROVE  TakesBack(o)
  <2>1. ASSUME NEW e, NEW id, P!Apply(e, id) PROVE FALSE
    <3>1. CASE P!Applies(e, id)
      <4>1. e.op # o
        BY <1>2, <3>1 DEF P!Applies, P!CanFollow, P!Terminal
      <4> QED BY <1>2, <2>1, <3>1, <4>1 DEF P!Apply, IInv, P!TypeOK
    <3>2. CASE ~P!Applies(e, id)
      BY <1>2, <2>1, <3>2 DEF P!Apply
    <3> QED BY <3>1, <3>2
  <2>2. PICK p \in Callers : P!Put(p)
    BY <1>2, <2>1 DEF P!Next, P!vars, P!Request, P!Answer, P!Reject, P!Unanswered,
      P!Forget, P!Advance,
      P!Misreport, P!Ask, P!StatusOf, P!NoStatus, P!Reconcile, P!Skip, P!Deliver,
      P!Lose, P!Load, P!Refused, P!Stop, P!Tick
  <2>3. /\ client[p].at = "answered" /\ client[p].op = o
        /\ store'[o] = client[p].seen
    BY <1>2, <2>2 DEF P!Put, IInv, P!TypeOK
  <2>4. client[p].seen \in P!Operation /\ client[p].seen # P!None /\ True(o, client[p].seen)
    BY <1>2, <2>3, AskedOfOperation DEF IInv, ToldTrue
  <2>5. store[o] \in P!Operation /\ store[o] # P!None /\ True(o, store[o])
    BY <1>2, NoneIsNotSettled DEF IInv, P!TypeOK, ToldTrue
  <2>6. CASE client[p].seen.status \in P!Terminal
    <3>1. client[p].seen.status = store[o].status /\ client[p].seen.at = store[o].at
      BY <1>2, <2>4, <2>5, <2>6 DEF True
    <3>2. client[p].seen = store[o]
      BY <2>4, <2>5, <3>1 DEF P!Operation
    <3> QED BY <1>2, <2>3, <3>2
  <2>7. CASE client[p].seen.status \notin P!Terminal
    <3>1. client[p].seen.status = "PENDING"
      BY <2>4, <2>7 DEF P!Operation, P!Status
    <3> QED BY <2>3, <3>1
  <2> QED BY <2>6, <2>7
<1>3. IInv /\ IInv' /\ [P!Next]_(P!vars) =>
        [/\ P!StoreAgrees'
         /\ \A o \in Ops : store[o].status \in P!Terminal /\ store'[o] # store[o] =>
              TakesBack(o)]_(P!vars)
  BY <1>1, <1>2
<1> QED BY <1>3, Invariance, PTL DEF P!Spec, SettledTruly, P!SettledTruly

\* The circuit is away from closed exactly while the last answers, Threshold
\* of them, were failures.
THEOREM CircuitFollowsFailures == P!Spec => []OpenWhileFailing
BY Invariance, PTL DEF IInv, OpenWhileFailing, P!OpenWhileFailing

=============================================================================
