------------------------------ MODULE Delivery ------------------------------
(***************************************************************************)
(* The delivery queue of the notify service: the table delivery, and the   *)
(* instances of the service that take tasks from it.                       *)
(*                                                                         *)
(* An instance claims a batch of tasks under a lease (their next attempt   *)
(* is moved into the future) and handles them one by one: it counts what   *)
(* the user was sent lately, sends, and writes the result into the row.    *)
(* The row is written by its id alone: nothing but the lease keeps a       *)
(* second instance away from it.                                           *)
(*                                                                         *)
(* Time is discrete.  A row holds the time left until its next attempt,    *)
(* and handling one task takes at most HandleTime.  The queue is that of   *)
(* one user, for whom the rate is limited in each channel.                 *)
(***************************************************************************)
EXTENDS Integers, FiniteSets

CONSTANTS
  Events,      \* one per publication without a key, one per key otherwise
  Channels,
  Instances,
  NoTask,      \* what an instance handles between two tasks
  BatchSize,
  Lease,
  HandleTime,  \* bound: how long the channel and the database take for one task
  MaxAttempts,
  RetryBase,
  RetryMax,
  RatePause,   \* how long a task waits that is over the rate
  RateLimit,   \* 0: no limit
  MaxFaults    \* bound: how often a result is lost, an instance stops, or a row
               \* comes due again in somebody's hands

\* An event has one delivery in a channel: UNIQUE (event_id, channel).
Deliveries == Events \X Channels

\* A claimed task, with the attempts its row had then.
Task == [of : Deliveries, attempts : Nat]

ASSUME TimesAssumption ==
  /\ BatchSize \in Nat \ {0} /\ MaxAttempts \in Nat \ {0}
  /\ {Lease, HandleTime, RetryBase, RetryMax, RatePause, RateLimit, MaxFaults} \subseteq Nat
  /\ RetryMax # 0  \* 0 would mean no maximum; nothing sets it
  /\ Lease # 0     \* two minutes in the code
ASSUME InstancesAssumption ==
  IsFiniteSet(Instances) /\ IsFiniteSet(Deliveries) /\ NoTask \notin Task

VARIABLES
  published, \* events that are in the table event
  row,       \* the table delivery; "NONE" where there is no row
  recent,    \* rows DELIVERED whose updated_at is within the rate's window
  batch,     \* what each instance has claimed and not finished
  job,       \* the task an instance handles, and what it is to write
  busy,      \* how long it has been handling it
  sent,      \* history: how often the channel took the message
  faults,    \* how many results were lost
  overruns   \* history: how often a row came due again while it was held

vars == <<published, row, recent, batch, job, busy, sent, faults, overruns>>

Marks == {"DELIVERED", "FAILED", "RETRY", "DEFER"}
Job   == [at : {"idle", "send", "settle"}, task : Task \cup {NoTask},
          mark : Marks \cup {"none"}]
Idle  == [at |-> "idle", task |-> NoTask, mark |-> "none"]

TypeOK ==
  /\ published \subseteq Events
  /\ row \in [Deliveries -> [state : {"NONE", "PENDING", "DELIVERED", "FAILED"},
                             attempts : Nat, wait : Nat]]
  /\ recent \subseteq Deliveries
  /\ batch \in [Instances -> SUBSET Task]
  /\ job \in [Instances -> Job]
  /\ busy \in [Instances -> 0..HandleTime]
  /\ sent \in [Deliveries -> Nat]
  /\ faults \in Nat /\ overruns \in Nat /\ faults + overruns <= MaxFaults

Init ==
  /\ published = {}
  /\ row = [d \in Deliveries |-> [state |-> "NONE", attempts |-> 0, wait |-> 0]]
  /\ recent = {}
  /\ batch = [w \in Instances |-> {}]
  /\ job = [w \in Instances |-> Idle]
  /\ busy = [w \in Instances |-> 0]
  /\ sent = [d \in Deliveries |-> 0]
  /\ faults = 0
  /\ overruns = 0

-----------------------------------------------------------------------------
(* The queue.                                                              *)

Queued(e, channels) ==
  [d \in Deliveries |-> IF d[1] = e /\ d[2] \in channels /\ row[d].state = "NONE"
                        THEN [row[d] EXCEPT !.state = "PENDING"] ELSE row[d]]

\* An event and its deliveries, in the channels the user has enabled, are
\* one transaction.  A known key leaves everything as it is.
Publish(e, channels) ==
  /\ e \notin published
  /\ published' = published \cup {e}
  /\ row' = Queued(e, channels)
  /\ UNCHANGED <<recent, batch, job, busy, sent, faults, overruns>>

\* Mutant of Due: the lease is not looked at.
Unsettled == {d \in Deliveries : row[d].state = "PENDING"}

Due == {d \in Deliveries : row[d].state = "PENDING" /\ row[d].wait = 0}

\* As many as the batch holds.
Claimable == {taken \in SUBSET Due :
                Cardinality(taken) = IF Cardinality(Due) > BatchSize
                                     THEN BatchSize ELSE Cardinality(Due)}

Claim(w) ==
  /\ batch[w] = {}
  /\ Due # {}
  /\ \E taken \in Claimable :
       /\ batch' = [batch EXCEPT ![w] =
                      {[of |-> d, attempts |-> row[d].attempts] : d \in taken}]
       /\ row' = [d \in Deliveries |-> IF d \in taken THEN [row[d] EXCEPT !.wait = Lease]
                                                      ELSE row[d]]
  /\ UNCHANGED <<published, recent, job, busy, sent, faults, overruns>>

-----------------------------------------------------------------------------
(* One task.                                                               *)

At(w, at) == job[w].at = at
Takes(w, t, at, mark) == job' = [job EXCEPT ![w] = [at |-> at, task |-> t, mark |-> mark]]
Writes(w, mark) == Takes(w, job[w].task, "settle", mark)

\* After a failure worth repeating.
Again(task) == IF task.attempts + 1 >= MaxAttempts THEN "FAILED" ELSE "RETRY"

\* Mutant of Allowed: one message more.
AllowedOneMore(d) ==
  RateLimit = 0 \/ Cardinality({r \in recent : r[2] = d[2]}) <= RateLimit

Allowed(d) ==
  RateLimit = 0 \/ Cardinality({r \in recent : r[2] = d[2]}) < RateLimit

\* The next task of the batch.  Without a sender for its channel it has
\* failed; else the rate is looked up, and the template is filled in.
Begin(w, t) ==
  /\ At(w, "idle")
  /\ t \in batch[w]
  /\ \/ Takes(w, t, "settle", "FAILED")             \* no sender
     \/ Takes(w, t, "settle", Again(t))             \* the count cannot be read
     \/ ~Allowed(t.of) /\ Takes(w, t, "settle", "DEFER")
     \/ Allowed(t.of) /\ Takes(w, t, "send", "none")  \* or no template: as no sender
  /\ UNCHANGED <<published, row, recent, batch, busy, sent, faults, overruns>>

Send(w) ==
  /\ At(w, "send")
  /\ sent' = [sent EXCEPT ![job[w].task.of] = @ + 1]
  /\ Writes(w, "DELIVERED")
  /\ UNCHANGED <<published, row, recent, batch, busy, faults, overruns>>

\* The channel refuses for good, or does not answer.
SendFails(w) ==
  /\ At(w, "send")
  /\ Writes(w, "FAILED") \/ Writes(w, Again(job[w].task))
  /\ UNCHANGED <<published, row, recent, batch, busy, sent, faults, overruns>>

\* The channel takes the message, and its answer does not come back.
AnswerLost(w) ==
  /\ At(w, "send")
  /\ faults + overruns < MaxFaults
  /\ faults' = faults + 1
  /\ sent' = [sent EXCEPT ![job[w].task.of] = @ + 1]
  /\ Writes(w, Again(job[w].task))
  /\ UNCHANGED <<published, row, recent, batch, busy, overruns>>

\* Twice the base with every attempt, up to the maximum.
Backoff(attempts) ==
  LET grown == RetryBase * 2^attempts
  IN  IF grown \in 0..RetryMax THEN grown ELSE RetryMax

\* Mutants of Settled: DELIVERED is not written; the attempt is not counted.
SettledSilently(d, task, mark) ==
  CASE mark = "DELIVERED" -> row[d]
    [] mark = "FAILED"    -> [row[d] EXCEPT !.state = "FAILED", !.attempts = @ + 1, !.wait = 0]
    [] mark = "RETRY"     -> [row[d] EXCEPT !.attempts = @ + 1, !.wait = Backoff(task.attempts)]
    [] mark = "DEFER"     -> [row[d] EXCEPT !.wait = RatePause]
SettledUncounted(d, task, mark) ==
  CASE mark = "DELIVERED" -> [row[d] EXCEPT !.state = "DELIVERED", !.wait = 0]
    [] mark = "FAILED"    -> [row[d] EXCEPT !.state = "FAILED", !.attempts = @ + 1, !.wait = 0]
    [] mark = "RETRY"     -> [row[d] EXCEPT !.wait = Backoff(task.attempts)]
    [] mark = "DEFER"     -> [row[d] EXCEPT !.wait = RatePause]

\* Delivered, Failed, Retry and Defer: what they write, whatever is there.
\* (Out of the queue next_attempt_at is kept and read by nobody: wait is 0.)
Settled(d, task, mark) ==
  CASE mark = "DELIVERED" -> [row[d] EXCEPT !.state = "DELIVERED", !.wait = 0]
    [] mark = "FAILED"    -> [row[d] EXCEPT !.state = "FAILED", !.attempts = @ + 1, !.wait = 0]
    [] mark = "RETRY"     -> [row[d] EXCEPT !.attempts = @ + 1, !.wait = Backoff(task.attempts)]
    [] mark = "DEFER"     -> [row[d] EXCEPT !.wait = RatePause]

\* The task is done with; the next one of the batch follows at once.
Leaves(w) ==
  /\ batch' = [batch EXCEPT ![w] = @ \ {job[w].task}]
  /\ job' = [job EXCEPT ![w] = Idle]
  /\ busy' = [busy EXCEPT ![w] = 0]

Settle(w) ==
  /\ At(w, "settle")
  /\ LET d == job[w].task.of IN
       /\ row' = [row EXCEPT ![d] = Settled(d, job[w].task, job[w].mark)]
       /\ recent' = IF row'[d].state = "DELIVERED" THEN recent \cup {d} ELSE recent \ {d}
  /\ Leaves(w)
  /\ UNCHANGED <<published, sent, faults, overruns>>

\* The result could not be written: it is only logged.
MarkLost(w) ==
  /\ At(w, "settle")
  /\ faults + overruns < MaxFaults
  /\ faults' = faults + 1
  /\ Leaves(w)
  /\ UNCHANGED <<published, row, recent, sent, overruns>>

\* The instance stops: the rest of its batch comes back when the lease ends.
Stop(w) ==
  /\ batch[w] # {}
  /\ faults + overruns < MaxFaults
  /\ faults' = faults + 1
  /\ batch' = [batch EXCEPT ![w] = {}]
  /\ job' = [job EXCEPT ![w] = Idle]
  /\ busy' = [busy EXCEPT ![w] = 0]
  /\ UNCHANGED <<published, row, recent, sent, overruns>>

-----------------------------------------------------------------------------
(* Time.                                                                   *)

\* A delivery leaves the rate's window.
Expire(d) ==
  /\ d \in recent
  /\ recent' = recent \ {d}
  /\ UNCHANGED <<published, row, batch, job, busy, sent, faults, overruns>>

Held(w) == {t.of : t \in batch[w]}

\* A lease runs out: with the next tick a row is due that somebody holds.
RunsOut == \E w \in Instances : \E d \in Held(w) : row[d].state = "PENDING" /\ row[d].wait = 1

\* A task does not take longer than HandleTime.
Tick ==
  /\ \A w \in Instances : batch[w] # {} => busy[w] < HandleTime
  /\ RunsOut => faults + overruns < MaxFaults
  /\ overruns' = IF RunsOut THEN overruns + 1 ELSE overruns
  /\ row' = [d \in Deliveries |-> IF row[d].state = "PENDING" /\ row[d].wait > 0
                                  THEN [row[d] EXCEPT !.wait = @ - 1] ELSE row[d]]
  /\ busy' = [w \in Instances |-> IF batch[w] = {} THEN 0 ELSE busy[w] + 1]
  /\ UNCHANGED <<published, recent, batch, job, sent, faults>>

Work(w) == (\E t \in batch[w] : Begin(w, t)) \/ Send(w) \/ SendFails(w) \/ Settle(w)

Next ==
  \/ \E e \in Events, channels \in SUBSET Channels : Publish(e, channels)
  \/ \E w \in Instances : Claim(w) \/ Work(w) \/ AnswerLost(w) \/ MarkLost(w) \/ Stop(w)
  \/ \E d \in Deliveries : Expire(d)
  \/ Tick

Spec == Init /\ [][Next]_vars

\* Run never ends, every call of a channel or of the database does, and time
\* passes.
Fairness ==
  /\ \A w \in Instances : WF_vars(Work(w))
  /\ WF_vars(\E w \in Instances : Claim(w))
  /\ WF_vars(\E d \in Deliveries : Expire(d))
  /\ WF_vars(Tick)

FairSpec == Spec /\ Fairness

-----------------------------------------------------------------------------

\* The lease outlasts a batch, not only the handling of one task: then none
\* ever runs out (DeliveryProofs).  The times of the code do not meet it.
LongLease == BatchSize * HandleTime < Lease

\* No two instances have one task at the same time: what the lease is for.
TakenOnce == \A v, w \in Instances : v # w => Held(v) \cap Held(w) = {}

\* As long as no lease has run out before its batch was handled, no two
\* instances have one task: neither retries, nor tasks put off, nor results
\* that are lost, nor stops bring a row to a second holder.
LeaseKeeps == overruns = 0 => TakenOnce

\* The user gets a message once, and not at all if it is recorded as failed:
\* every repetition has a lost result or a lease that ran out of its own,
\* however many instances write over each other's rows then.
SentOnce ==
  \A d \in Deliveries : /\ sent[d] <= 1 + faults + overruns
                        /\ row[d].state = "FAILED" => sent[d] <= faults + overruns

\* A task is dropped with its last attempt, not later, until a lease runs out
\* (then two instances count their attempts in one row).
GivesUp ==
  overruns = 0 =>
    \A d \in Deliveries : /\ row[d].attempts <= MaxAttempts
                          /\ row[d].state = "PENDING" => row[d].attempts < MaxAttempts

\* Until a lease runs out: of a user's messages in a channel no more are
\* recorded as delivered within a window than the limit, and one for every
\* other instance that counted before these were recorded.  A message that
\* was taken and whose result was lost is counted neither here nor by the
\* code: the channel may have taken more.
RateHolds ==
  overruns = 0 /\ RateLimit > 0 => \A c \in Channels :
    Cardinality({r \in recent : r[2] = c}) < RateLimit + Cardinality(Instances)

\* A delivery is queued with its event or never, and leaves the queue once.
\* What was recorded then stays, unless a lease has run out: a second holder
\* writes his result over it, but never brings the task back into the queue.
EndsAreFinal ==
  [][\A d \in Deliveries :
       /\ d[1] \in published /\ row[d].state = "NONE" => row'[d].state = "NONE"
       /\ row[d].state \in {"DELIVERED", "FAILED"} =>
            /\ row'[d].state \in {"DELIVERED", "FAILED"}
            /\ overruns = 0 => row'[d] = row[d]]_vars

\* The queue empties again and again, though channels fail, leases run out and
\* messages over the rate are put off: no delivery stays in it for ever.
\* (Events are finitely many here; with new ones arriving only the latter can
\* be said.)
QueueDrains == []<>(\A d \in Deliveries : row[d].state # "PENDING")

=============================================================================
