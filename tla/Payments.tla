------------------------------ MODULE Payments ------------------------------
(***************************************************************************)
(* Payment operations: what the provider says of them, what the system has *)
(* stored, and the two ways the one follows the other.  Webhooks are       *)
(* delivered at least once, in any order, or not at all; the reconciler    *)
(* asks the provider for what has been unsettled for too long.  Calls of   *)
(* the provider go through a circuit breaker.                              *)
(*                                                                         *)
(* The operation is a deposit or a payout, which differ in what the        *)
(* provider checks.  The time of an operation is the provider's and counts *)
(* its changes.                                                            *)
(*                                                                         *)
(* Nothing of the repository starts these calls outside its tests: who     *)
(* requests an operation, or a pass of the reconciler, does so at any time *)
(* or never.                                                               *)
(***************************************************************************)
EXTENDS PaymentOptions, FiniteSets

VARIABLES
  provider,  \* the operations as the provider knows them
  store,     \* the operations as the system knows them
  applied,   \* ids of the events that were applied
  webhooks,  \* events the provider delivers
  client,    \* the request of each caller: its progress, and the answer
  pass,      \* the pass of the reconciler
  breaker

vars == <<provider, store, applied, webhooks, client, pass, breaker>>

B == INSTANCE Breaker

Terminal == {"SUCCEEDED", "FAILED"}
Status   == {"PENDING"} \cup Terminal
None     == [status |-> "NONE", at |-> 0]
Operation == [status : Status, at : 0..MaxChanges] \cup {None}

\* An event's id names its operation and status.  Its amount is that of its
\* operation, or another.
Event   == [op : Ops, status : Status, at : 0..MaxChanges, amount : {"same", "other"}]
EventId == {"webhook", "reconcile"} \X Ops \X Status

NoRequest == [at |-> "idle", op |-> NoOp, seen |-> None]
Asked     == [at : {"calling", "answered"}, op : Ops, seen : Operation]

NoPass == [at |-> "idle", todo |-> {}, op |-> NoOp, seen |-> None]

TypeOK ==
  /\ provider \in [Ops -> Operation]
  /\ store \in [Ops -> Operation]
  /\ applied \subseteq EventId
  /\ webhooks \subseteq Event
  /\ client \in [Callers -> {NoRequest} \cup Asked]
  /\ pass \in [at : {"idle", "next", "calling", "answered"}, todo : SUBSET Ops,
               op : Ops \cup {NoOp}, seen : Operation]
  /\ B!BreakerType

Init ==
  /\ provider = [o \in Ops |-> None]
  /\ store = [o \in Ops |-> None]
  /\ applied = {}
  /\ webhooks = {}
  /\ client = [p \in Callers |-> NoRequest]
  /\ pass = NoPass
  /\ B!InitBreaker

-----------------------------------------------------------------------------
(* The provider.                                                           *)

\* The key of the request finds the operation, or a new one is made.
Remembered(o) == IF provider[o] = None THEN [status |-> "PENDING", at |-> 0] ELSE provider[o]

CanFollow(status, next) == status = "PENDING" /\ next \in Status

\* The user pays or does not, the bank accepts or does not.
Advance(o, status) ==
  /\ CanFollow(provider[o].status, status)
  /\ provider[o].at < MaxChanges
  /\ provider' = [provider EXCEPT ![o] = [status |-> status, at |-> @.at + 1]]
  /\ webhooks' = webhooks \cup
       {[op |-> o, status |-> status, at |-> provider[o].at + 1, amount |-> "same"]}
  /\ UNCHANGED <<store, applied, client, pass, breaker>>

\* An event with the amount of another operation.
Misreport(o) ==
  /\ provider[o] # None
  /\ webhooks' = webhooks \cup {[op |-> o, status |-> "SUCCEEDED", at |-> MaxChanges, amount |-> "other"]}
  /\ UNCHANGED <<provider, store, applied, client, pass, breaker>>

-----------------------------------------------------------------------------
(* A request for an operation.  It is repeated with its key, maybe while   *)
(* an earlier one is under way or after the operation was stored.          *)

Becomes(p, request) == client' = [client EXCEPT ![p] = request]

Request(p, o) ==
  /\ client[p] = NoRequest
  /\ B!Allow
  /\ Becomes(p, [at |-> "calling", op |-> o, seen |-> None])
  /\ UNCHANGED <<provider, store, applied, webhooks, pass>>

\* The provider answers with the operation.
Answer(p) ==
  /\ client[p].at = "calling"
  /\ LET o == client[p].op IN
       /\ provider' = [provider EXCEPT ![o] = Remembered(o)]
       /\ Becomes(p, [at |-> "answered", op |-> o, seen |-> Remembered(o)])
  /\ B!Succeed
  /\ UNCHANGED <<store, applied, webhooks, pass>>

\* The provider refuses: the request is not valid, the card is unknown.
Reject(p) ==
  /\ client[p].at = "calling"
  /\ provider[client[p].op] = None
  /\ Becomes(p, NoRequest)
  /\ B!Succeed
  /\ UNCHANGED <<provider, store, applied, webhooks, pass>>

\* The provider does not answer, before or after it made the operation.
Unanswered(p) ==
  /\ client[p].at = "calling"
  /\ \/ UNCHANGED provider
     \/ provider' = [provider EXCEPT ![client[p].op] = Remembered(client[p].op)]
  /\ Becomes(p, NoRequest)
  /\ B!Fail
  /\ UNCHANGED <<store, applied, webhooks, pass>>

\* The answer is stored as it was given, whatever has become of the operation
\* and whatever is stored.
Put(p) ==
  /\ client[p].at = "answered"
  /\ store' = [store EXCEPT ![client[p].op] = client[p].seen]
  /\ Becomes(p, NoRequest)
  /\ UNCHANGED <<provider, applied, webhooks, pass, breaker>>

\* The service stops before it has stored the answer.
Forget(p) ==
  /\ client[p].at = "answered"
  /\ Becomes(p, NoRequest)
  /\ UNCHANGED <<provider, store, applied, webhooks, pass, breaker>>

-----------------------------------------------------------------------------
(* Events.                                                                 *)

\* Mutant of Applies: only the repeat is looked for.
AppliesAnyNew(e, id) ==
  store[e.op] # None /\ e.amount = "same" /\ id \notin applied

\* What was settled stays; what tells nothing new, or is older than what is
\* known, is ignored; an amount that is not the operation's is an error.
Applies(e, id) ==
  /\ store[e.op] # None /\ id \notin applied
  /\ e.amount = "same"
  /\ e.status # store[e.op].status /\ CanFollow(store[e.op].status, e.status)
  /\ e.at >= store[e.op].at

\* One transaction: the event, the state and the journal.
Apply(e, id) ==
  IF Applies(e, id)
  THEN /\ store' = [store EXCEPT ![e.op] = [status |-> e.status, at |-> e.at]]
       /\ applied' = applied \cup {id}
  ELSE UNCHANGED <<store, applied>>

\* A webhook is answered with success if it was applied or ignored, which
\* does not keep the provider from delivering it again; with an error, if the
\* operation is not known yet or the amount is wrong: then it comes again.
Deliver(e) ==
  /\ e \in webhooks
  /\ Apply(e, <<"webhook", e.op, e.status>>)
  /\ IF store[e.op] # None /\ e.amount = "same"
     THEN webhooks' \in {webhooks, webhooks \ {e}} ELSE UNCHANGED webhooks
  /\ UNCHANGED <<provider, client, pass, breaker>>

\* The provider gives up, or the request does not get through.
Lose(e) ==
  /\ e \in webhooks
  /\ webhooks' = webhooks \ {e}
  /\ UNCHANGED <<provider, store, applied, client, pass, breaker>>

-----------------------------------------------------------------------------
(* Reconciliation.                                                         *)

Unsettled == {o \in Ops : store[o].status = "PENDING"}

\* Some of those that have been unsettled long enough, in no certain order.
Load(todo) ==
  /\ pass.at = "idle"
  /\ todo \subseteq Unsettled /\ todo # {} /\ Cardinality(todo) <= Limit
  /\ pass' = [NoPass EXCEPT !.at = "next", !.todo = todo]
  /\ UNCHANGED <<provider, store, applied, webhooks, client, breaker>>

Rest(o) == pass.todo \ {o}
Continue(o) == pass' = IF Rest(o) = {} THEN NoPass
                       ELSE [NoPass EXCEPT !.at = "next", !.todo = Rest(o)]

Ask(o) ==
  /\ pass.at = "next" /\ o \in pass.todo
  /\ B!Allow
  /\ pass' = [pass EXCEPT !.at = "calling", !.op = o]
  /\ UNCHANGED <<provider, store, applied, webhooks, client>>

\* The circuit is open: the pass ends here.
Refused ==
  /\ pass.at = "next"
  /\ B!Refuse
  /\ pass' = NoPass
  /\ UNCHANGED <<provider, store, applied, webhooks, client>>

StatusOf(o) ==
  /\ pass.at = "calling" /\ pass.op = o
  /\ pass' = [pass EXCEPT !.at = "answered", !.seen = provider[o]]
  /\ B!Succeed
  /\ UNCHANGED <<provider, store, applied, webhooks, client>>

\* The provider is unavailable: the pass ends here.
NoStatus(o) ==
  /\ pass.at = "calling" /\ pass.op = o
  /\ pass' = NoPass
  /\ B!Fail
  /\ UNCHANGED <<provider, store, applied, webhooks, client>>

Remote(o) == [op |-> o, status |-> pass.seen.status, at |-> pass.seen.at, amount |-> "same"]

\* The answer is applied as an event of its own.
Reconcile(o) ==
  /\ pass.at = "answered" /\ pass.op = o
  /\ Apply(Remote(o), <<"reconcile", o, pass.seen.status>>)
  /\ Continue(o)
  /\ UNCHANGED <<provider, webhooks, client, breaker>>

\* It cannot be applied: the pass goes on.
Skip(o) ==
  /\ pass.at = "answered" /\ pass.op = o
  /\ Continue(o)
  /\ UNCHANGED <<provider, store, applied, webhooks, client, breaker>>

Stop ==
  /\ pass.at # "idle"
  /\ pass' = NoPass
  /\ UNCHANGED <<provider, store, applied, webhooks, client, breaker>>

Tick == B!Rest /\ UNCHANGED <<provider, store, applied, webhooks, client, pass>>

Next ==
  \/ \E p \in Callers :
       \/ \E o \in Ops : Request(p, o)
       \/ Answer(p) \/ Reject(p) \/ Unanswered(p) \/ Put(p) \/ Forget(p)
  \/ \E o \in Ops :
       \/ (\E s \in Status : Advance(o, s)) \/ Misreport(o)
       \/ Ask(o) \/ StatusOf(o) \/ NoStatus(o) \/ Reconcile(o) \/ Skip(o)
  \/ \E e \in webhooks : Deliver(e) \/ Lose(e)
  \/ \E todo \in SUBSET Ops : Load(todo)
  \/ Refused \/ Stop \/ Tick

Spec == Init /\ [][Next]_vars

-----------------------------------------------------------------------------

\* An operation that is stored as settled is settled so at the provider,
\* though what is stored came by a request, a webhook or a reconciliation
\* that began long before.
StoreAgrees ==
  \A o \in Ops : store[o].status \in Terminal => store[o].status = provider[o].status

\* What is stored as settled is what the provider decided, and no event that
\* comes later, twice or out of order changes it.  What may still take it back
\* is an answer of the time before the decision, stored after it.
SettledTruly ==
  [][/\ StoreAgrees'
     /\ \A o \in Ops : store[o].status \in Terminal /\ store'[o] # store[o] =>
          \E p \in Callers : /\ client[p].at = "answered" /\ client[p].op = o
                            /\ client[p].seen = store'[o] /\ store'[o].status = "PENDING"]_vars

\* The circuit is away from closed exactly while the answers fail.
OpenWhileFailing == B!OpenWhileFailing

=============================================================================
