--------------------------- MODULE DeliveryProofs ---------------------------
(***************************************************************************)
(* Proofs about Delivery, for any number of events, channels and instances *)
(* and any times, whether or not the lease outlasts a batch.               *)
(*                                                                         *)
(* How often a message can be sent is a balance.  A delivery has been sent *)
(* so often, so many instances hold it and have not sent it, and one more  *)
(* can claim it unless its row is settled or kept from them by a claim.    *)
(* Only a lost result and a lease that runs out add to this sum (Bounded). *)
(*                                                                         *)
(* As long as no lease has run out the rows say what their holders read    *)
(* (Calm).  If the lease outlasts a batch none ever does: the time left to *)
(* a claimed row and the time already spent on the task at hand are        *)
(* together more than the rest of the batch can take (Timely).             *)
(***************************************************************************)
EXTENDS Delivery, FiniteSetTheorems, TLAPS

\* What an instance has in hand, and what it does with it.
Serves(w) ==
  /\ \A t, u \in batch[w] : t.of = u.of => t = u
  /\ \A t \in batch[w] : row[t.of].state # "NONE"
  /\ job[w].at # "idle" => job[w].task \in batch[w]
  /\ job[w].at = "settle" <=> job[w].mark # "none"
  /\ job[w].mark = "RETRY" => job[w].task.attempts + 1 < MaxAttempts

\* Who holds a delivery and has not sent it; whether a claim keeps it from
\* the others; and whether one more can claim it.
Unsent(w, d) == d \in Held(w) /\ ~(job[w].mark = "DELIVERED" /\ job[w].task.of = d)
Senders(d)   == {w \in Instances : Unsent(w, d)}
Kept(d)      == row[d].wait > 0 /\ \E w \in Instances : d \in Held(w)
Free(d)      == IF row[d].state \in {"NONE", "PENDING"} /\ ~Kept(d) THEN 1 ELSE 0

Sum(d) == sent[d] + Cardinality(Senders(d)) + Free(d)

Bounded(d) ==
  /\ Sum(d) <= 1 + faults + overruns
  /\ row[d].state = "FAILED" => Sum(d) <= faults + overruns

Whole ==
  /\ TypeOK
  /\ \A w \in Instances : Serves(w)
  /\ \A d \in Deliveries : Bounded(d)

\* GivesUp, and a row that is not there yet has had no attempt.
Attempted ==
  \A d \in Deliveries : /\ row[d].attempts <= MaxAttempts
                        /\ row[d].state = "PENDING" => row[d].attempts < MaxAttempts
                        /\ row[d].state = "NONE" => row[d].attempts = 0

\* What an instance knows of its tasks as long as no lease has run out.
Knows(w) ==
  \A t \in batch[w] : /\ row[t.of].state = "PENDING" /\ row[t.of].attempts = t.attempts
                      /\ row[t.of].wait > 0

Calm == (\A w \in Instances : Knows(w)) /\ TakenOnce /\ Attempted

IInv == Whole /\ (overruns = 0 => Calm)

-----------------------------------------------------------------------------
(* Arithmetic and types.                                                   *)

LEMMA Times ==
  /\ Lease \in Nat /\ Lease > 0 /\ HandleTime \in Nat /\ RetryBase \in Nat /\ RetryMax \in Nat
  /\ RatePause \in Nat /\ RateLimit \in Nat /\ MaxFaults \in Nat
  /\ BatchSize \in Nat /\ MaxAttempts \in Nat /\ MaxAttempts >= 1
  BY TimesAssumption

LEMMA BackoffType == \A n \in Nat : Backoff(n) \in Nat
  BY Times DEF Backoff

LEMMA FreeType == \A d : Free(d) \in {0, 1} /\ (row[d].state \notin {"NONE", "PENDING"} => Free(d) = 0)
  BY DEF Free

LEMMA SendersType ==
  ASSUME NEW d
  PROVE  IsFiniteSet(Senders(d)) /\ Cardinality(Senders(d)) \in Nat
  <1>1. Senders(d) \subseteq Instances
    BY DEF Senders
  <1> QED
    BY <1>1, InstancesAssumption, FS_Subset, FS_CardinalityType

\* A step of one instance adds it to the senders of a delivery, takes it away,
\* or leaves them.
LEMMA SendersStep ==
  ASSUME NEW w \in Instances, NEW d,
         \A v \in Instances : v # w => (Unsent(v, d)' <=> Unsent(v, d))
  PROVE  /\ Cardinality(Senders(d)) \in Nat /\ Cardinality(Senders(d))' \in Nat
         /\ Unsent(w, d)' <=> Unsent(w, d) => Cardinality(Senders(d))' = Cardinality(Senders(d))
         /\ Unsent(w, d) /\ ~Unsent(w, d)' => Cardinality(Senders(d))' = Cardinality(Senders(d)) - 1
         /\ ~Unsent(w, d) /\ Unsent(w, d)' => Cardinality(Senders(d))' = Cardinality(Senders(d)) + 1
  <1>1. IsFiniteSet(Senders(d)) /\ Cardinality(Senders(d)) \in Nat
    BY SendersType
  <1>2. CASE Unsent(w, d)' <=> Unsent(w, d)
    <2>1. Senders(d)' = Senders(d)
      BY <1>2 DEF Senders
    <2> QED
      BY <1>1, <1>2, <2>1
  <1>3. CASE Unsent(w, d) /\ ~Unsent(w, d)'
    <2>1. Senders(d)' = Senders(d) \ {w} /\ w \in Senders(d)
      BY <1>3 DEF Senders
    <2>2. Cardinality(Senders(d) \ {w}) = Cardinality(Senders(d)) - 1
      BY <1>1, <2>1, FS_RemoveElement
    <2>3. IsFiniteSet(Senders(d) \ {w}) /\ Cardinality(Senders(d) \ {w}) \in Nat
      BY <1>1, FS_Subset, FS_CardinalityType
    <2> QED
      BY <1>1, <1>3, <2>1, <2>2, <2>3
  <1>4. CASE ~Unsent(w, d) /\ Unsent(w, d)'
    <2>1. Senders(d)' = Senders(d) \cup {w} /\ w \notin Senders(d)
      BY <1>4 DEF Senders
    <2>2. Cardinality(Senders(d) \cup {w}) = Cardinality(Senders(d)) + 1
      BY <1>1, <2>1, FS_AddElement
    <2> QED
      BY <1>1, <1>4, <2>1, <2>2
  <1> QED
    BY <1>2, <1>3, <1>4

\* The numbers of the balance are numbers.
LEMMA SumType ==
  ASSUME TypeOK, NEW d \in Deliveries
  PROVE  /\ sent[d] \in Nat /\ Cardinality(Senders(d)) \in Nat /\ Free(d) \in {0, 1}
         /\ faults \in Nat /\ overruns \in Nat /\ Sum(d) \in Nat
         /\ Sum(d) = sent[d] + Cardinality(Senders(d)) + Free(d)
  <1>1. /\ sent[d] \in Nat /\ Cardinality(Senders(d)) \in Nat /\ Free(d) \in {0, 1}
        /\ faults \in Nat /\ overruns \in Nat
    BY SendersType, FreeType DEF TypeOK
  <1> QED
    BY <1>1 DEF Sum

LEMMA SumTypeAfter ==
  ASSUME TypeOK', NEW d \in Deliveries
  PROVE  /\ sent'[d] \in Nat /\ Cardinality(Senders(d))' \in Nat /\ Free(d)' \in {0, 1}
         /\ faults' \in Nat /\ overruns' \in Nat /\ Sum(d)' \in Nat
         /\ Sum(d)' = sent'[d] + Cardinality(Senders(d))' + Free(d)'
  <1>1. Senders(d)' \subseteq Instances
    BY DEF Senders
  <1>2. Cardinality(Senders(d))' \in Nat
    BY <1>1, InstancesAssumption, FS_Subset, FS_CardinalityType
  <1>3. sent'[d] \in Nat /\ faults' \in Nat /\ overruns' \in Nat
    BY DEF TypeOK
  <1>4. Free(d)' \in {0, 1}
    BY DEF Free
  <1> QED
    BY <1>2, <1>3, <1>4 DEF Sum

\* A balance that does not grow by more than what may be repeated.
LEMMA BoundedStep ==
  ASSUME TypeOK, TypeOK', NEW d \in Deliveries, Bounded(d), NEW k \in {0, 1},
         faults' + overruns' = faults + overruns + k,
         \/ Sum(d)' <= Sum(d) + k /\ (row'[d].state = "FAILED" => row[d].state = "FAILED")
         \/ Sum(d)' <= Sum(d) + k - 1
  PROVE  Bounded(d)'
  <1>1. PICK old \in Nat, f \in Nat, o \in Nat : old = Sum(d) /\ f = faults /\ o = overruns
    BY SumType
  <1>2. PICK new \in Nat, g \in Nat, p \in Nat : new = Sum(d)' /\ g = faults' /\ p = overruns'
    BY SumTypeAfter
  <1>3. /\ old <= 1 + f + o
        /\ row[d].state = "FAILED" => old <= f + o
    BY <1>1 DEF Bounded
  <1>4. g + p = f + o + k /\ k \in Nat /\ k <= 1
    <2>1. faults' + overruns' = faults + overruns + k
      OBVIOUS
    <2>2. k \in Nat /\ k <= 1
      OBVIOUS
    <2> QED
      BY <1>1, <1>2, <2>1, <2>2, Zenon
  <1>5. CASE new <= old + k /\ (row'[d].state = "FAILED" => row[d].state = "FAILED")
    <2>1. new <= 1 + g + p
      BY <1>3, <1>4, <1>5
    <2>2. ASSUME row'[d].state = "FAILED" PROVE new <= g + p
      <3>1. old <= f + o
        BY <1>3, <1>5, <2>2
      <3> QED
        BY <1>4, <1>5, <3>1
    <2> QED
      BY <1>2, <2>1, <2>2 DEF Bounded
  <1>6. CASE new <= old + k - 1
    <2>1. new <= g + p /\ new <= 1 + g + p
      BY <1>3, <1>4, <1>6
    <2> QED
      BY <1>2, <2>1 DEF Bounded
  <1> QED
    BY <1>1, <1>2, <1>5, <1>6

-----------------------------------------------------------------------------
(* The balance, action by action.                                          *)

LEMMA InitWhole == Init => Whole
  <1> SUFFICES ASSUME Init PROVE Whole
    OBVIOUS
  <1>1. TypeOK
    BY Times DEF Init, TypeOK, Idle, Job
  <1>2. \A w \in Instances : Serves(w)
    BY DEF Init, Serves, Idle
  <1>3. ASSUME NEW d \in Deliveries PROVE Bounded(d)
    <2>1. Senders(d) = {} /\ Cardinality(Senders(d)) = 0
      BY FS_EmptySet DEF Init, Senders, Unsent, Held
    <2>2. Free(d) \in {0, 1} /\ sent[d] = 0 /\ faults = 0 /\ overruns = 0 /\ row[d].state = "NONE"
      BY FreeType DEF Init
    <2>3. Sum(d) = 0 + 0 + Free(d)
      BY <2>1, <2>2 DEF Sum
    <2> QED
      BY <2>2, <2>3 DEF Bounded
  <1> QED
    BY <1>1, <1>2, <1>3 DEF Whole

LEMMA UnsentKept ==
  ASSUME NEW v, NEW d, batch'[v] = batch[v], job'[v] = job[v]
  PROVE  Unsent(v, d)' <=> Unsent(v, d)
  BY DEF Unsent, Held

LEMMA ServesKept ==
  ASSUME NEW w \in Instances, Serves(w), job'[w] = job[w], batch'[w] = batch[w],
         \A d \in Held(w) : row'[d].state = "NONE" => row[d].state = "NONE"
  PROVE  Serves(w)'
  BY DEF Serves, Held

\* The balance of a delivery in which nothing counted has changed.
LEMMA BoundedKept ==
  ASSUME TypeOK, TypeOK', NEW d \in Deliveries, Bounded(d),
         \A v \in Instances : Unsent(v, d)' <=> Unsent(v, d), Free(d)' = Free(d),
         sent'[d] = sent[d], faults' + overruns' = faults + overruns,
         row'[d].state = "FAILED" => row[d].state = "FAILED"
  PROVE  Bounded(d)'
  <1>1. Senders(d)' = Senders(d)
    BY DEF Senders
  <1>2. Sum(d)' = Sum(d)
    BY <1>1 DEF Sum
  <1>3. Sum(d) \in Nat /\ faults \in Nat /\ overruns \in Nat
    BY SumType
  <1> QED
    BY <1>2, <1>3, BoundedStep

LEMMA PublishWhole ==
  ASSUME Whole, NEW e \in Events, NEW channels \in SUBSET Channels, Publish(e, channels)
  PROVE  Whole'
  <1>1. /\ row' = Queued(e, channels)
        /\ UNCHANGED <<recent, batch, job, busy, sent, faults, overruns>>
    BY DEF Publish
  <1>2. TypeOK'
    BY <1>1 DEF Whole, TypeOK, Queued, Publish
  <1>3. \A d \in Deliveries : \/ row'[d] = row[d]
                              \/ row[d].state = "NONE" /\ row'[d].state = "PENDING" /\ row'[d].wait = row[d].wait
    BY <1>1 DEF Queued, Whole, TypeOK
  <1>4. \A w \in Instances : Held(w) \subseteq Deliveries
    BY DEF Whole, TypeOK, Held, Task
  <1>5. \A w \in Instances : Serves(w)'
    BY <1>1, <1>3, <1>4, ServesKept DEF Whole
  <1>6. ASSUME NEW d \in Deliveries PROVE Bounded(d)'
    <2>1. \A v \in Instances : Unsent(v, d)' <=> Unsent(v, d)
      BY <1>1, UnsentKept
    <2>2. Kept(d)' <=> Kept(d)
      BY <1>1, <1>3 DEF Kept, Held
    <2>3. Free(d)' = Free(d)
      BY <1>3, <2>2 DEF Free
    <2> QED
      BY <1>1, <1>2, <1>3, <2>1, <2>3, BoundedKept DEF Whole
  <1> QED
    BY <1>2, <1>5, <1>6 DEF Whole

LEMMA ClaimWhole ==
  ASSUME Whole, NEW w \in Instances, Claim(w)
  PROVE  Whole'
  <1>1. PICK taken \in Claimable :
          /\ batch' = [batch EXCEPT ![w] =
                         {[of |-> d, attempts |-> row[d].attempts] : d \in taken}]
          /\ row' = [d \in Deliveries |-> IF d \in taken THEN [row[d] EXCEPT !.wait = Lease]
                                                         ELSE row[d]]
    BY DEF Claim
  <1>2. batch[w] = {} /\ UNCHANGED <<published, recent, job, busy, sent, faults, overruns>>
    BY DEF Claim
  <1> DEFINE tasks == {[of |-> d, attempts |-> row[d].attempts] : d \in taken}
  <1>3. /\ taken \subseteq Deliveries
        /\ \A d \in taken : row[d].state = "PENDING" /\ row[d].wait = 0
    BY DEF Claimable, Due
  <1>4. tasks \subseteq Task
    BY <1>3 DEF Whole, TypeOK, Task
  <1>5. TypeOK'
    BY <1>1, <1>2, <1>3, <1>4, Times DEF Whole, TypeOK
  <1>6. batch'[w] = tasks /\ \A v \in Instances : v # w => batch'[v] = batch[v]
    BY <1>1 DEF Whole, TypeOK
  <1>7. job[w].at = "idle" /\ job[w].mark = "none"
    BY <1>2 DEF Whole, Serves, TypeOK, Job
  <1>8. \A d \in Deliveries : row'[d].state = row[d].state
    BY <1>1 DEF Whole, TypeOK
  <1>9. \A v \in Instances : Held(v) \subseteq Deliveries
    BY DEF Whole, TypeOK, Held, Task
  <1>10. ASSUME NEW v \in Instances PROVE Serves(v)'
    <2>1. CASE v = w
      <3>1. \A t, u \in tasks : t.of = u.of => t = u
        OBVIOUS
      <3>2. ASSUME NEW t \in tasks PROVE row'[t.of].state # "NONE"
        <4>1. t.of \in taken
          OBVIOUS
        <4> QED
          BY <4>1, <1>3, <1>8
      <3>3. job'[w] = job[w]
        BY <1>2
      <3>4. batch'[w] = tasks
        BY <1>6
      <3> HIDE DEF tasks
      <3>5. /\ \A t, u \in batch'[v] : t.of = u.of => t = u
            /\ \A t \in batch'[v] : row'[t.of].state # "NONE"
        BY <2>1, <3>1, <3>2, <3>4
      <3>6. job'[v].at = "idle" /\ job'[v].mark = "none"
        BY <2>1, <3>3, <1>7
      <3> QED
        BY <3>5, <3>6 DEF Serves
    <2>2. CASE v # w
      BY <2>2, <1>2, <1>6, <1>8, <1>9, ServesKept DEF Whole
    <2> QED
      BY <2>1, <2>2
  <1>11. Held(w) = {} /\ Held(w)' = taken
    <2>1. {t.of : t \in tasks} = taken
      <3>1. \A d \in taken : [of |-> d, attempts |-> row[d].attempts] \in tasks
        OBVIOUS
      <3>2. \A t \in tasks : t.of \in taken
        OBVIOUS
      <3>3. ASSUME NEW d \in taken PROVE \E t \in tasks : d = t.of
        <4> WITNESS [of |-> d, attempts |-> row[d].attempts] \in tasks
        <4> QED
          OBVIOUS
      <3> QED
        BY <3>2, <3>3
    <2>2. Held(w)' = {t.of : t \in tasks}
      BY <1>6 DEF Held
    <2> QED
      BY <2>1, <2>2, <1>2 DEF Held
  <1>12. \A v \in Instances : v # w => Held(v)' = Held(v)
    BY <1>6 DEF Held
  <1>13. ASSUME NEW d \in Deliveries PROVE Bounded(d)'
    <2>1. \A v \in Instances : v # w => (Unsent(v, d)' <=> Unsent(v, d))
      BY <1>2, <1>6, UnsentKept
    <2>2. ~Unsent(w, d) /\ (Unsent(w, d)' <=> d \in taken)
      BY <1>2, <1>7, <1>11 DEF Unsent
    <2>3. CASE d \in taken
      <3>1. Free(d) = 1
        BY <2>3, <1>3 DEF Free, Kept
      <3>2. row'[d].wait = Lease /\ d \in Held(w)'
        BY <2>3, <1>1, <1>11 DEF Whole, TypeOK
      <3>3. Free(d)' = 0
        BY <3>2, Times DEF Free, Kept
      <3>4. Cardinality(Senders(d))' = Cardinality(Senders(d)) + 1
        BY <2>1, <2>2, <2>3, SendersStep
      <3>5. Sum(d)' <= Sum(d)
        BY <3>1, <3>3, <3>4, <1>2, <1>5, SumType, SumTypeAfter DEF Whole
      <3>6. Sum(d)' <= Sum(d) + 0 /\ faults' + overruns' = faults + overruns + 0
        BY <3>5, <1>2, <1>5, SumType, SumTypeAfter DEF Whole
      <3> QED
        BY <3>6, <1>5, <1>8, BoundedStep DEF Whole
    <2>4. CASE d \notin taken
      <3>1. row'[d] = row[d]
        BY <2>4, <1>1
      <3>2. Kept(d)' <=> Kept(d)
        <4>1. \A v \in Instances : d \in Held(v)' <=> d \in Held(v)
          BY <2>4, <1>11, <1>12
        <4> QED
          BY <3>1, <4>1 DEF Kept
      <3>3. Free(d)' = Free(d)
        BY <3>1, <3>2 DEF Free
      <3>4. \A v \in Instances : Unsent(v, d)' <=> Unsent(v, d)
        BY <2>1, <2>2, <2>4
      <3> QED
        BY <3>1, <3>3, <3>4, <1>2, <1>5, BoundedKept DEF Whole
    <2> QED
      BY <2>3, <2>4
  <1> QED
    BY <1>5, <1>10, <1>13 DEF Whole

\* The steps that write nothing but the instance's own record (and history).
LEMMA OwnStep ==
  ASSUME Whole, NEW w \in Instances, NEW j \in Job, job' = [job EXCEPT ![w] = j],
         UNCHANGED <<published, row, recent, batch, busy, overruns>>,
         sent' \in [Deliveries -> Nat], faults' \in Nat, faults' + overruns <= MaxFaults,
         j.at # "idle" => j.task \in batch[w],
         j.at = "settle" <=> j.mark # "none",
         j.mark = "RETRY" => j.task.attempts + 1 < MaxAttempts
  PROVE  /\ TypeOK' /\ \A v \in Instances : Serves(v)'
         /\ job'[w] = j
         /\ \A d \in Deliveries : Free(d)' = Free(d) /\ row'[d] = row[d]
         /\ \A d \in Deliveries, v \in Instances :
              /\ v # w => (Unsent(v, d)' <=> Unsent(v, d))
              /\ Held(v)' = Held(v)
  <1>1. TypeOK'
    BY DEF Whole, TypeOK
  <1>2. job'[w] = j /\ \A v \in Instances : v # w => job'[v] = job[v]
    BY DEF Whole, TypeOK
  <1>3. \A v \in Instances : Serves(v)'
    <2>1. Serves(w)'
      BY <1>2 DEF Serves, Whole
    <2>2. ASSUME NEW v \in Instances, v # w PROVE Serves(v)'
      BY <2>2, <1>2, ServesKept DEF Whole
    <2> QED
      BY <2>1, <2>2
  <1>4. \A v \in Instances : Held(v)' = Held(v)
    BY DEF Held
  <1>5. \A d \in Deliveries : Free(d)' = Free(d)
    BY <1>4 DEF Free, Kept
  <1>6. \A d \in Deliveries, v \in Instances : v # w => (Unsent(v, d)' <=> Unsent(v, d))
    BY <1>2, UnsentKept
  <1> QED
    BY <1>1, <1>2, <1>3, <1>4, <1>5, <1>6

LEMMA AgainMark ==
  ASSUME NEW t \in Task
  PROVE  /\ Again(t) \in {"FAILED", "RETRY"}
         /\ Again(t) = "RETRY" => t.attempts + 1 < MaxAttempts
  BY Times DEF Again, Task

\* An instance that does not send: Begin and SendFails.
LEMMA QuietWhole ==
  ASSUME Whole, NEW w \in Instances, (\E t \in batch[w] : Begin(w, t)) \/ SendFails(w)
  PROVE  Whole'
  <1>1. UNCHANGED <<published, row, recent, batch, busy, sent, faults, overruns>>
    BY DEF Begin, SendFails
  <1>2. PICK j \in Job :
          /\ job' = [job EXCEPT ![w] = j]
          /\ j.at # "idle" /\ j.task \in batch[w]
          /\ j.at = "settle" <=> j.mark # "none"
          /\ j.mark = "RETRY" => j.task.attempts + 1 < MaxAttempts
          /\ j.mark # "DELIVERED" /\ job[w].mark = "none"
    <2>1. CASE SendFails(w)
      <3>1. /\ job[w].task \in batch[w] /\ job[w].task \in Task /\ job[w].mark = "none"
        BY <2>1 DEF Whole, TypeOK, SendFails, At, Serves
      <3>2. PICK mark \in {"FAILED", "RETRY"} :
              /\ job' = [job EXCEPT ![w] = [at |-> "settle", task |-> job[w].task, mark |-> mark]]
              /\ mark = "RETRY" => job[w].task.attempts + 1 < MaxAttempts
        BY <2>1, <3>1, AgainMark DEF SendFails, Writes, Takes
      <3>3. [at |-> "settle", task |-> job[w].task, mark |-> mark] \in Job
        BY <3>1 DEF Job, Marks
      <3> QED
        BY <3>1, <3>2, <3>3
    <2>2. CASE \E t \in batch[w] : Begin(w, t)
      <3>1. PICK t \in batch[w] : Begin(w, t)
        BY <2>2
      <3>2. t \in Task /\ job[w].mark = "none"
        BY <3>1 DEF Whole, TypeOK, Begin, At, Serves
      <3>3. PICK at \in {"send", "settle"}, mark \in {"none", "FAILED", "RETRY", "DEFER"} :
              /\ job' = [job EXCEPT ![w] = [at |-> at, task |-> t, mark |-> mark]]
              /\ at = "settle" <=> mark # "none"
              /\ mark = "RETRY" => t.attempts + 1 < MaxAttempts
        BY <3>1, <3>2, AgainMark DEF Begin, Takes
      <3>4. [at |-> at, task |-> t, mark |-> mark] \in Job
        BY <3>2 DEF Job, Marks
      <3> QED
        BY <3>2, <3>3, <3>4
    <2> QED
      BY <2>1, <2>2
  <1>3. sent' \in [Deliveries -> Nat] /\ faults' \in Nat /\ faults' + overruns <= MaxFaults
    BY <1>1 DEF Whole, TypeOK
  <1>4. /\ TypeOK' /\ \A v \in Instances : Serves(v)'
        /\ job'[w] = j
        /\ \A d \in Deliveries : Free(d)' = Free(d) /\ row'[d] = row[d]
        /\ \A d \in Deliveries, v \in Instances :
             /\ v # w => (Unsent(v, d)' <=> Unsent(v, d))
             /\ Held(v)' = Held(v)
    BY <1>1, <1>2, <1>3, OwnStep
  <1>5. ASSUME NEW d \in Deliveries PROVE Bounded(d)'
    <2>1. Unsent(w, d)' <=> Unsent(w, d)
      BY <1>2, <1>4 DEF Unsent
    <2> QED
      BY <1>1, <1>4, <2>1, BoundedKept DEF Whole
  <1> QED
    BY <1>4, <1>5 DEF Whole

\* The channel takes the message, whether its answer comes back or not.
LEMMA SendWhole ==
  ASSUME Whole, NEW w \in Instances, Send(w) \/ AnswerLost(w)
  PROVE  Whole'
  <1> DEFINE d == job[w].task.of
  <1>1. /\ job[w].task \in batch[w] /\ job[w].task \in Task /\ job[w].mark = "none"
        /\ d \in Deliveries
    BY DEF Whole, TypeOK, Send, AnswerLost, At, Serves, Task
  <1>2. PICK mark \in Marks, k \in {0, 1} :
          /\ job' = [job EXCEPT ![w] = [at |-> "settle", task |-> job[w].task, mark |-> mark]]
          /\ mark = "RETRY" => job[w].task.attempts + 1 < MaxAttempts
          /\ faults' = faults + k /\ faults + k + overruns <= MaxFaults
          /\ mark = "DELIVERED" <=> k = 0
    <2>1. CASE Send(w)
      <3>1. faults' = faults + 0 /\ faults + 0 + overruns <= MaxFaults
        BY <2>1 DEF Send, Whole, TypeOK
      <3> QED
        BY <2>1, <3>1 DEF Send, Writes, Takes, Marks
    <2>2. CASE AnswerLost(w)
      <3>1. faults' = faults + 1 /\ faults + 1 + overruns <= MaxFaults
        BY <2>2, Times DEF AnswerLost, Whole, TypeOK
      <3> QED
        <4>1. job' = [job EXCEPT ![w] = [at |-> "settle", task |-> job[w].task,
                                         mark |-> Again(job[w].task)]]
          BY <2>2 DEF AnswerLost, Writes, Takes
        <4>2. /\ Again(job[w].task) \in Marks /\ Again(job[w].task) # "DELIVERED"
              /\ Again(job[w].task) = "RETRY" => job[w].task.attempts + 1 < MaxAttempts
          BY <1>1, AgainMark DEF Marks
        <4>3. PICK m \in Marks : m = Again(job[w].task)
          BY <4>2
        <4>4. \E mark \in Marks :
                /\ job' = [job EXCEPT ![w] = [at |-> "settle", task |-> job[w].task, mark |-> mark]]
                /\ mark = "RETRY" => job[w].task.attempts + 1 < MaxAttempts
                /\ mark # "DELIVERED"
          BY <4>1, <4>2, <4>3, Zenon
        <4>5. 1 \in {0, 1} /\ 1 # 0
          OBVIOUS
        <4>6. PICK k \in {0, 1} : k = 1
          BY <4>5
        <4>7. faults' = faults + k /\ faults + k + overruns <= MaxFaults /\ k # 0
          BY <3>1, <4>6
        <4> QED
          BY <4>4, <4>7, Zenon
    <2> QED
      BY <2>1, <2>2
  <1>3. /\ sent' = [sent EXCEPT ![d] = @ + 1]
        /\ UNCHANGED <<published, row, recent, batch, busy, overruns>>
    BY DEF Send, AnswerLost
  <1>4. PICK j \in Job : j = [at |-> "settle", task |-> job[w].task, mark |-> mark]
    BY <1>1 DEF Job
  <1>5. sent' \in [Deliveries -> Nat] /\ faults' \in Nat /\ faults' + overruns <= MaxFaults
    BY <1>1, <1>2, <1>3 DEF Whole, TypeOK
  <1>6. /\ TypeOK' /\ \A v \in Instances : Serves(v)'
        /\ job'[w] = j
        /\ \A c \in Deliveries : Free(c)' = Free(c) /\ row'[c] = row[c]
        /\ \A c \in Deliveries, v \in Instances :
             /\ v # w => (Unsent(v, c)' <=> Unsent(v, c))
             /\ Held(v)' = Held(v)
    BY <1>1, <1>2, <1>3, <1>4, <1>5, OwnStep DEF Marks
  <1>7. faults' + overruns' = faults + overruns + k
    BY <1>2, <1>3 DEF Whole, TypeOK
  <1>8. Unsent(w, d) /\ (Unsent(w, d)' <=> mark # "DELIVERED")
    <2>1. d \in Held(w) /\ d \in Held(w)'
      BY <1>1, <1>6 DEF Held
    <2>2. Unsent(w, d)
      BY <1>1, <2>1 DEF Unsent
    <2>3. job'[w].mark = mark /\ job'[w].task = job[w].task
      BY <1>4, <1>6
    <2>4. Unsent(w, d)' <=> mark # "DELIVERED"
      BY <2>1, <2>3 DEF Unsent
    <2> QED
      BY <2>2, <2>4
  <1>9. ASSUME NEW c \in Deliveries PROVE Bounded(c)'
    <2>1. CASE c = d
      <3>1. sent'[c] = sent[c] + 1
        BY <2>1, <1>3 DEF Whole, TypeOK
      <3>2. Cardinality(Senders(c))' = Cardinality(Senders(c)) - (1 - k)
        BY <2>1, <1>2, <1>6, <1>8, SendersStep
      <3>3. Sum(c)' <= Sum(c) + k
        BY <3>1, <3>2, <1>6, SumType, SumTypeAfter DEF Whole
      <3> QED
        BY <3>3, <1>6, <1>7, BoundedStep DEF Whole
    <2>2. CASE c # d
      <3>1. Unsent(w, c)' <=> Unsent(w, c)
        BY <2>2, <1>1, <1>4, <1>6 DEF Unsent
      <3>2. sent'[c] = sent[c]
        BY <2>2, <1>3 DEF Whole, TypeOK
      <3>3. Cardinality(Senders(c))' = Cardinality(Senders(c))
        BY <3>1, <1>6, SendersStep
      <3>4. Sum(c)' <= Sum(c) + k
        BY <3>2, <3>3, <1>6, SumType, SumTypeAfter DEF Whole
      <3> QED
        BY <3>4, <1>6, <1>7, BoundedStep DEF Whole
    <2> QED
      BY <2>1, <2>2
  <1> QED
    BY <1>6, <1>9 DEF Whole

\* The steps by which a task, or all of them, leave the batch of w.
LEMMA Shrinks ==
  ASSUME Whole, NEW w \in Instances, NEW rest \in SUBSET batch[w],
         batch' = [batch EXCEPT ![w] = rest],
         job' = [job EXCEPT ![w] = Idle], busy' = [busy EXCEPT ![w] = 0],
         \A v \in Instances : \A t \in batch[v] : row'[t.of].state = "NONE" => row[t.of].state = "NONE"
  PROVE  /\ \A v \in Instances : Serves(v)'
         /\ batch' \in [Instances -> SUBSET Task] /\ job' \in [Instances -> Job]
         /\ busy' \in [Instances -> 0..HandleTime]
         /\ batch'[w] = rest /\ job'[w].mark = "none"
         /\ \A v \in Instances : v # w => batch'[v] = batch[v] /\ job'[v] = job[v]
         /\ \A d \in Deliveries, v \in Instances :
              /\ v # w => (Unsent(v, d)' <=> Unsent(v, d))
              /\ Unsent(w, d)' <=> d \in {t.of : t \in rest}
  <1>1. /\ batch'[w] = rest /\ job'[w] = Idle /\ job'[w].mark = "none"
        /\ \A v \in Instances : v # w => batch'[v] = batch[v] /\ job'[v] = job[v]
    BY DEF Whole, TypeOK, Idle
  <1>2. /\ batch' \in [Instances -> SUBSET Task] /\ job' \in [Instances -> Job]
        /\ busy' \in [Instances -> 0..HandleTime]
    BY Times DEF Whole, TypeOK, Idle, Job
  <1>3. ASSUME NEW v \in Instances PROVE Serves(v)'
    <2>1. CASE v = w
      <3>1. /\ \A t, u \in rest : t.of = u.of => t = u
            /\ \A t \in rest : row'[t.of].state # "NONE"
        BY DEF Whole, Serves
      <3>2. batch'[v] = rest /\ job'[v] = Idle
        BY <2>1, <1>1
      <3> QED
        BY <3>1, <3>2 DEF Serves, Idle
    <2>2. CASE v # w
      BY <2>2, <1>1, ServesKept DEF Whole, Held
    <2> QED
      BY <2>1, <2>2
  <1>4. ASSUME NEW d \in Deliveries, NEW v \in Instances
        PROVE  /\ v # w => (Unsent(v, d)' <=> Unsent(v, d))
               /\ Unsent(w, d)' <=> d \in {t.of : t \in rest}
    <2>1. v # w => (Unsent(v, d)' <=> Unsent(v, d))
      BY <1>1, UnsentKept
    <2>2. Held(w)' = {t.of : t \in rest}
      BY <1>1 DEF Held
    <2> QED
      BY <2>1, <2>2, <1>1 DEF Unsent
  <1> QED
    BY <1>1, <1>2, <1>3, <1>4

\* A lost result, or a stop: one more can claim what leaves the batch.
LEMMA FaultWhole ==
  ASSUME Whole, NEW w \in Instances, MarkLost(w) \/ Stop(w)
  PROVE  Whole'
  <1>1. /\ UNCHANGED <<published, row, recent, sent, overruns>>
        /\ faults + overruns < MaxFaults /\ faults' = faults + 1
    BY DEF MarkLost, Stop
  <1>2. PICK rest \in SUBSET batch[w] :
          /\ batch' = [batch EXCEPT ![w] = rest]
          /\ job' = [job EXCEPT ![w] = Idle] /\ busy' = [busy EXCEPT ![w] = 0]
          /\ \A t \in rest : job[w].mark = "DELIVERED" => t.of # job[w].task.of
    <2>1. CASE MarkLost(w)
      <3>1. job[w].task \in batch[w] /\ \A t, u \in batch[w] : t.of = u.of => t = u
        BY <2>1 DEF MarkLost, At, Whole, Serves
      <3>2. \A t \in batch[w] \ {job[w].task} : t.of # job[w].task.of
        BY <3>1
      <3> QED
        BY <2>1, <3>2 DEF MarkLost, Leaves
    <2>2. CASE Stop(w)
      <3>1. {} \in SUBSET batch[w]
        OBVIOUS
      <3> QED
        BY <2>2, <3>1 DEF Stop
    <2> QED
      BY <2>1, <2>2
  <1>3. /\ \A v \in Instances : Serves(v)'
        /\ batch' \in [Instances -> SUBSET Task] /\ job' \in [Instances -> Job]
        /\ busy' \in [Instances -> 0..HandleTime]
        /\ \A d \in Deliveries, v \in Instances :
             /\ v # w => (Unsent(v, d)' <=> Unsent(v, d))
             /\ Unsent(w, d)' <=> d \in {t.of : t \in rest}
    BY <1>1, <1>2, Shrinks
  <1>4. faults' \in Nat /\ overruns' \in Nat /\ faults' + overruns' <= MaxFaults
        /\ faults' + overruns' = faults + overruns + 1
    BY <1>1, Times DEF Whole, TypeOK
  <1>5. TypeOK'
    BY <1>1, <1>3, <1>4 DEF Whole, TypeOK
  <1>6. ASSUME NEW d \in Deliveries PROVE Bounded(d)'
    <2>1. Unsent(w, d)' => Unsent(w, d)
      BY <1>2, <1>3 DEF Unsent, Held
    <2>2. Cardinality(Senders(d))' <= Cardinality(Senders(d))
      BY <2>1, <1>3, SendersStep
    <2>3. Sum(d)' <= Sum(d) + 1
      BY <2>2, <1>1, <1>5, SumType, SumTypeAfter DEF Whole
    <2> QED
      BY <2>3, <1>1, <1>4, <1>5, BoundedStep DEF Whole
  <1> QED
    BY <1>3, <1>5, <1>6 DEF Whole

\* What a result makes of a row, whatever it finds there.
LEMMA SettledType ==
  ASSUME NEW d, NEW t \in Task, NEW mark \in Marks,
         row[d] \in [state : {"PENDING", "DELIVERED", "FAILED"}, attempts : Nat, wait : Nat]
  PROVE  /\ Settled(d, t, mark) \in [state : {"PENDING", "DELIVERED", "FAILED"},
                                     attempts : Nat, wait : Nat]
         /\ Settled(d, t, mark).state =
              IF mark \in {"DELIVERED", "FAILED"} THEN mark ELSE row[d].state
         /\ Settled(d, t, mark).attempts =
              IF mark \in {"FAILED", "RETRY"} THEN row[d].attempts + 1 ELSE row[d].attempts
  <1>1. Backoff(t.attempts) \in Nat /\ RatePause \in Nat
    BY BackoffType, Times DEF Task
  <1>2. PICK s \in {"PENDING", "DELIVERED", "FAILED"}, n \in Nat, k \in Nat :
          row[d] = [state |-> s, attempts |-> n, wait |-> k]
    OBVIOUS
  <1>3. PICK r : r = row[d] /\ r = [state |-> s, attempts |-> n, wait |-> k]
    BY <1>2
  <1>4. CASE mark = "DELIVERED"
    <2>1. PICK q : q = [state |-> "DELIVERED", attempts |-> n, wait |-> k]
      OBVIOUS
    <2>2. [r EXCEPT !.state = "DELIVERED"] = q
      BY <1>3, <2>1
    <2>3. Settled(d, t, mark) = [q EXCEPT !.wait = 0]
      BY <1>3, <1>4, <2>2 DEF Settled
    <2>4. Settled(d, t, mark) = [state |-> "DELIVERED", attempts |-> n, wait |-> 0]
      BY <2>1, <2>3
    <2> QED
      BY <1>2, <1>4, <2>4
  <1>5. CASE mark = "FAILED"
    <2>1. PICK p : p = [state |-> "FAILED", attempts |-> n, wait |-> k]
      OBVIOUS
    <2>2. PICK q : q = [state |-> "FAILED", attempts |-> n + 1, wait |-> k]
      OBVIOUS
    <2>3. [r EXCEPT !.state = "FAILED"] = p /\ [p EXCEPT !.attempts = n + 1] = q
      BY <1>3, <2>1, <2>2
    <2>4. Settled(d, t, mark) = [[[r EXCEPT !.state = "FAILED"]
                                    EXCEPT !.attempts = r.attempts + 1] EXCEPT !.wait = 0]
      BY <1>3, <1>5 DEF Settled
    <2>5. r.attempts = n
      BY <1>3
    <2>6. Settled(d, t, mark) = [q EXCEPT !.wait = 0]
      BY <2>3, <2>4, <2>5
    <2>7. Settled(d, t, mark) = [state |-> "FAILED", attempts |-> n + 1, wait |-> 0]
      BY <2>2, <2>6
    <2> QED
      BY <1>2, <1>5, <2>7
  <1>6. CASE mark = "RETRY"
    <2>1. PICK q : q = [state |-> s, attempts |-> n + 1, wait |-> k]
      OBVIOUS
    <2>2. [r EXCEPT !.attempts = r.attempts + 1] = q
      BY <1>3, <2>1
    <2>3. Settled(d, t, mark) = [q EXCEPT !.wait = Backoff(t.attempts)]
      BY <1>3, <1>6, <2>2 DEF Settled
    <2>4. Settled(d, t, mark) = [state |-> s, attempts |-> n + 1, wait |-> Backoff(t.attempts)]
      BY <2>1, <2>3
    <2> QED
      BY <1>1, <1>2, <1>6, <2>4
  <1>7. CASE mark = "DEFER"
    <2>1. Settled(d, t, mark) = [r EXCEPT !.wait = RatePause]
      BY <1>3, <1>7 DEF Settled
    <2>2. Settled(d, t, mark) = [state |-> s, attempts |-> n, wait |-> RatePause]
      BY <1>3, <2>1
    <2> QED
      BY <1>1, <1>2, <1>7, <2>2
  <1> QED
    BY <1>4, <1>5, <1>6, <1>7 DEF Marks

\* The same of the task an instance settles.
LEMMA SettledBy ==
  ASSUME Whole, NEW w \in Instances, Settle(w)
  PROVE  LET t == job[w].task
             d == job[w].task.of
             mark == job[w].mark
         IN  /\ t \in batch[w] /\ t \in Task /\ d \in Deliveries /\ mark \in Marks
             /\ mark = "RETRY" => t.attempts + 1 < MaxAttempts
             /\ \A u \in batch[w] : u.of = d => u = t
             /\ row[d].state \in {"PENDING", "DELIVERED", "FAILED"} /\ row[d].attempts \in Nat
             /\ row'[d] = Settled(d, t, mark)
             /\ \A c \in Deliveries : c # d => row'[c] = row[c]
             /\ row'[d] \in [state : {"PENDING", "DELIVERED", "FAILED"}, attempts : Nat, wait : Nat]
             /\ row'[d].state = IF mark \in {"DELIVERED", "FAILED"} THEN mark ELSE row[d].state
             /\ row'[d].attempts = IF mark \in {"FAILED", "RETRY"} THEN row[d].attempts + 1
                                                                  ELSE row[d].attempts
  <1> DEFINE t == job[w].task
             d == job[w].task.of
             mark == job[w].mark
  <1>1. /\ t \in batch[w] /\ mark # "none"
        /\ mark = "RETRY" => t.attempts + 1 < MaxAttempts
        /\ \A u \in batch[w] : u.of = d => u = t
        /\ row[d].state # "NONE"
    BY DEF Settle, At, Whole, Serves
  <1>2. t \in Task /\ mark \in Marks
    BY <1>1 DEF Whole, TypeOK, Job
  <1>3. d \in Deliveries
    BY <1>2 DEF Task
  <1>4. row[d] \in [state : {"PENDING", "DELIVERED", "FAILED"}, attempts : Nat, wait : Nat]
    BY <1>1, <1>3 DEF Whole, TypeOK
  <1>5. row' = [row EXCEPT ![d] = Settled(d, t, mark)]
    BY DEF Settle
  <1>6. /\ row'[d] = Settled(d, t, mark)
        /\ \A c \in Deliveries : c # d => row'[c] = row[c]
    BY <1>3, <1>5 DEF Whole, TypeOK
  <1>7. /\ Settled(d, t, mark) \in [state : {"PENDING", "DELIVERED", "FAILED"},
                                    attempts : Nat, wait : Nat]
        /\ Settled(d, t, mark).state =
             IF mark \in {"DELIVERED", "FAILED"} THEN mark ELSE row[d].state
        /\ Settled(d, t, mark).attempts =
             IF mark \in {"FAILED", "RETRY"} THEN row[d].attempts + 1 ELSE row[d].attempts
    BY <1>2, <1>4, SettledType
  <1>8. row[d].state \in {"PENDING", "DELIVERED", "FAILED"} /\ row[d].attempts \in Nat
    BY <1>4
  <1> QED
    BY <1>1, <1>2, <1>3, <1>6, <1>7, <1>8

LEMMA SettleWhole ==
  ASSUME Whole, NEW w \in Instances, Settle(w)
  PROVE  Whole'
  <1>0. PICK t \in batch[w], d \in Deliveries, mark \in Marks, rest \in SUBSET batch[w] :
          /\ t = job[w].task /\ d = job[w].task.of /\ mark = job[w].mark
          /\ rest = batch[w] \ {t}
    BY SettledBy
  <1>1. /\ t \in batch[w] /\ t \in Task /\ d \in Deliveries /\ mark \in Marks
        /\ \A u \in batch[w] : u.of = d => u = t
        /\ \A c \in Deliveries : c # d => row'[c] = row[c]
        /\ row'[d] \in [state : {"PENDING", "DELIVERED", "FAILED"}, attempts : Nat, wait : Nat]
        /\ mark = "DELIVERED" => row'[d].state = "DELIVERED"
        /\ mark = "FAILED" => row'[d].state = "FAILED"
        /\ mark \in {"RETRY", "DEFER"} => row'[d].state = row[d].state
    BY <1>0, SettledBy
  <1>2. /\ batch' = [batch EXCEPT ![w] = rest]
        /\ job' = [job EXCEPT ![w] = Idle] /\ busy' = [busy EXCEPT ![w] = 0]
        /\ recent' = IF row'[d].state = "DELIVERED" THEN recent \cup {d} ELSE recent \ {d}
        /\ UNCHANGED <<published, sent, faults, overruns>>
    BY <1>0 DEF Settle, Leaves
  <1>3. \A v \in Instances : \A u \in batch[v] : u.of \in Deliveries
    BY DEF Whole, TypeOK, Task
  <1>4. \A c \in Deliveries : row'[c].state = "NONE" => row[c].state = "NONE"
    BY <1>1
  <1>5. /\ \A v \in Instances : Serves(v)'
        /\ batch' \in [Instances -> SUBSET Task] /\ job' \in [Instances -> Job]
        /\ busy' \in [Instances -> 0..HandleTime]
        /\ batch'[w] = rest
        /\ \A v \in Instances : v # w => batch'[v] = batch[v] /\ job'[v] = job[v]
        /\ \A c \in Deliveries, v \in Instances :
             /\ v # w => (Unsent(v, c)' <=> Unsent(v, c))
             /\ Unsent(w, c)' <=> c \in {u.of : u \in rest}
    BY <1>2, <1>3, <1>4, Shrinks
  <1>6. TypeOK'
    <2>1. row' \in [Deliveries -> [state : {"NONE", "PENDING", "DELIVERED", "FAILED"},
                                  attempts : Nat, wait : Nat]]
      <3>1. row' = [row EXCEPT ![d] = row'[d]]
        BY <1>0, <1>1 DEF Settle, Whole, TypeOK
      <3> QED
        BY <1>1, <3>1 DEF Whole, TypeOK
    <2>2. recent' \subseteq Deliveries
      BY <1>1, <1>2 DEF Whole, TypeOK
    <2> QED
      BY <2>1, <2>2, <1>2, <1>5 DEF Whole, TypeOK
  <1>7. d \notin {u.of : u \in rest}
    BY <1>0, <1>1
  <1>8. \A c \in Deliveries : c # d => (c \in {u.of : u \in rest} <=> c \in Held(w))
    BY <1>0 DEF Held
  <1>9. Sum(d) \in Nat /\ Sum(d)' \in Nat /\ faults' + overruns' = faults + overruns + 0
    BY <1>1, <1>2, <1>6, SumType, SumTypeAfter DEF Whole
  <1>10. ASSUME NEW c \in Deliveries PROVE Bounded(c)'
    <2>1. CASE c # d
      <3>1. \A v \in Instances : Unsent(v, c)' <=> Unsent(v, c)
        BY <2>1, <1>0, <1>5, <1>8 DEF Unsent
      <3>2. \A v \in Instances : c \in Held(v)' <=> c \in Held(v)
        <4>1. Held(w)' = {u.of : u \in rest}
          BY <1>5 DEF Held
        <4>2. \A v \in Instances : v # w => Held(v)' = Held(v)
          BY <1>5 DEF Held
        <4> QED
          BY <2>1, <4>1, <4>2, <1>8
      <3>3. Free(c)' = Free(c)
        BY <2>1, <3>2, <1>1 DEF Free, Kept
      <3>4. faults' + overruns' = faults + overruns /\ sent'[c] = sent[c] /\ row'[c] = row[c]
        BY <2>1, <1>1, <1>2
      <3> QED
        BY <3>1, <3>3, <3>4, <1>6, BoundedKept DEF Whole
    <2>2. ASSUME mark = "DELIVERED" PROVE Bounded(d)'
      <3>1. ~Unsent(w, d) /\ ~Unsent(w, d)'
        BY <2>2, <1>0, <1>1, <1>5, <1>7 DEF Unsent
      <3>2. Cardinality(Senders(d))' = Cardinality(Senders(d))
        BY <3>1, <1>1, <1>5, SendersStep
      <3>3. row'[d].state = "DELIVERED" /\ Free(d)' = 0
        BY <2>2, <1>1 DEF Free
      <3>4. Sum(d)' <= Sum(d)
        BY <3>2, <3>3, <1>1, <1>2, <1>6, SumType, SumTypeAfter DEF Whole
      <3>5. Sum(d)' <= Sum(d) + 0
        BY <3>4, <1>9
      <3> QED
        BY <3>3, <3>5, <1>1, <1>6, <1>9, BoundedStep DEF Whole
    <2>3. ASSUME mark # "DELIVERED" PROVE Bounded(d)'
      <3>1. Unsent(w, d) /\ ~Unsent(w, d)'
        <4>1. d \in Held(w)
          BY <1>0, <1>1 DEF Held
        <4> QED
          BY <2>3, <4>1, <1>0, <1>1, <1>5, <1>7 DEF Unsent
      <3>2. Cardinality(Senders(d))' = Cardinality(Senders(d)) - 1
        BY <3>1, <1>1, <1>5, SendersStep
      <3>3. CASE mark = "FAILED"
        <4>1. row'[d].state = "FAILED" /\ Free(d)' = 0
          BY <3>3, <1>1 DEF Free
        <4>2. Sum(d)' <= Sum(d) + 0 - 1
          BY <3>2, <4>1, <1>1, <1>2, <1>6, SumType, SumTypeAfter DEF Whole
        <4> QED
          BY <4>2, <1>1, <1>6, <1>9, BoundedStep DEF Whole
      <3>4. CASE mark \in {"RETRY", "DEFER"}
        <4>1. Sum(d)' <= Sum(d) + 0
          BY <3>2, <1>1, <1>2, <1>6, SumType, SumTypeAfter DEF Whole
        <4> QED
          BY <3>4, <4>1, <1>1, <1>6, <1>9, BoundedStep DEF Whole
      <3> QED
        BY <2>3, <3>3, <3>4, <1>1 DEF Marks
    <2> QED
      BY <2>1, <2>2, <2>3
  <1> QED
    BY <1>5, <1>6, <1>10 DEF Whole

LEMMA TickWhole ==
  ASSUME Whole, Tick
  PROVE  Whole'
  <1>1. /\ \A w \in Instances : batch[w] # {} => busy[w] < HandleTime
        /\ row' = [d \in Deliveries |-> IF row[d].state = "PENDING" /\ row[d].wait > 0
                                        THEN [row[d] EXCEPT !.wait = @ - 1] ELSE row[d]]
        /\ busy' = [w \in Instances |-> IF batch[w] = {} THEN 0 ELSE busy[w] + 1]
        /\ UNCHANGED <<published, recent, batch, job, sent, faults>>
        /\ RunsOut => faults + overruns < MaxFaults
        /\ overruns' = IF RunsOut THEN overruns + 1 ELSE overruns
    BY DEF Tick
  <1>2. \A d \in Deliveries :
          /\ row'[d] \in [state : {"NONE", "PENDING", "DELIVERED", "FAILED"},
                          attempts : Nat, wait : Nat]
          /\ row'[d].state = row[d].state
          /\ row[d].state = "PENDING" /\ row[d].wait > 0 => row'[d].wait = row[d].wait - 1
          /\ row[d].wait \in Nat
    BY <1>1 DEF Whole, TypeOK
  <1>3. PICK k \in {0, 1} : /\ overruns' = overruns + k /\ faults' + overruns' = faults + overruns + k
                            /\ RunsOut <=> k = 1
                            /\ faults + overruns + k <= MaxFaults
    <2>1. faults \in Nat /\ overruns \in Nat /\ faults + overruns <= MaxFaults
      BY DEF Whole, TypeOK
    <2>2. CASE RunsOut
      <3>1. /\ overruns' = overruns + 1 /\ faults' + overruns' = faults + overruns + 1
            /\ faults + overruns + 1 <= MaxFaults
        BY <2>1, <2>2, <1>1, Times
      <3> QED
        BY <2>2, <3>1
    <2>3. CASE ~RunsOut
      <3>1. /\ overruns' = overruns + 0 /\ faults' + overruns' = faults + overruns + 0
            /\ faults + overruns + 0 <= MaxFaults
        BY <2>1, <2>3, <1>1, Times
      <3> QED
        BY <2>3, <3>1
    <2> QED
      BY <2>2, <2>3
  <1>4. TypeOK'
    <2>1. busy' \in [Instances -> 0..HandleTime]
      BY <1>1, Times DEF Whole, TypeOK
    <2>2. row' \in [Deliveries -> [state : {"NONE", "PENDING", "DELIVERED", "FAILED"},
                                  attempts : Nat, wait : Nat]]
      BY <1>1, <1>2
    <2>3. faults' \in Nat /\ overruns' \in Nat /\ faults' + overruns' <= MaxFaults
      BY <1>1, <1>3 DEF Whole, TypeOK
    <2> QED
      BY <2>1, <2>2, <2>3, <1>1 DEF Whole, TypeOK
  <1>5. \A w \in Instances : Serves(w)'
    <2>1. \A w \in Instances : Held(w) \subseteq Deliveries
      BY DEF Whole, TypeOK, Held, Task
    <2> QED
      BY <2>1, <1>1, <1>2, ServesKept DEF Whole
  <1>6. ASSUME NEW d \in Deliveries PROVE Bounded(d)'
    <2>1. Senders(d)' = Senders(d) /\ \A w \in Instances : Held(w)' = Held(w)
      BY <1>1 DEF Senders, Unsent, Held
    <2>2. Free(d)' <= Free(d) + k
      <3>1. CASE k = 1
        BY <3>1, <1>4, SumType, SumTypeAfter DEF Whole
      <3>2. CASE k = 0 /\ Free(d) = 1
        BY <3>2, <1>4, SumTypeAfter
      <3>3. CASE k = 0 /\ row[d].state \notin {"NONE", "PENDING"}
        BY <3>3, <1>2, <1>4, SumType, SumTypeAfter DEF Free, Whole
      <3>4. CASE k = 0 /\ Free(d) = 0 /\ row[d].state \in {"NONE", "PENDING"}
        <4>1. PICK w \in Instances : d \in Held(w) /\ row[d].wait > 0
          BY <3>4 DEF Free, Kept
        <4>2. row[d].state = "PENDING"
          BY <3>4, <4>1 DEF Whole, Serves, Held
        <4>3. row[d].wait # 1
          BY <3>4, <4>1, <4>2, <1>3 DEF RunsOut
        <4>4. row'[d].wait > 0
          BY <4>1, <4>2, <4>3, <1>2
        <4>5. Kept(d)'
          BY <4>1, <4>4, <2>1 DEF Kept
        <4>6. Free(d)' = 0
          BY <4>5 DEF Free
        <4> QED
          BY <3>4, <4>6
      <3> QED
        BY <3>1, <3>2, <3>3, <3>4, SumType DEF Whole
    <2>3. Sum(d)' <= Sum(d) + k
      BY <2>1, <2>2, <1>1, <1>4, SumType, SumTypeAfter DEF Whole
    <2> QED
      BY <2>3, <1>2, <1>3, <1>4, BoundedStep DEF Whole
  <1> QED
    BY <1>4, <1>5, <1>6 DEF Whole

LEMMA WholeKept ==
  ASSUME Whole, UNCHANGED <<published, row, batch, job, busy, sent, faults, overruns>>,
         recent' \subseteq Deliveries
  PROVE  Whole'
  <1>1. TypeOK'
    BY DEF Whole, TypeOK
  <1>2. \A w \in Instances : Serves(w)'
    BY ServesKept DEF Whole
  <1>3. ASSUME NEW d \in Deliveries PROVE Bounded(d)'
    <2>1. \A w \in Instances : Unsent(w, d)' <=> Unsent(w, d)
      BY UnsentKept
    <2>2. Free(d)' = Free(d)
      BY DEF Free, Kept, Held
    <2> QED
      BY <1>1, <2>1, <2>2, BoundedKept DEF Whole
  <1> QED
    BY <1>1, <1>2, <1>3 DEF Whole

LEMMA WholeStep == Whole /\ [Next]_vars => Whole'
  <1> SUFFICES ASSUME Whole, [Next]_vars PROVE Whole'
    OBVIOUS
  <1>1. CASE \E e \in Events, channels \in SUBSET Channels : Publish(e, channels)
    BY <1>1, PublishWhole
  <1>2. ASSUME NEW w \in Instances,
               Claim(w) \/ Work(w) \/ AnswerLost(w) \/ MarkLost(w) \/ Stop(w)
        PROVE  Whole'
    BY <1>2, ClaimWhole, QuietWhole, SendWhole, SettleWhole, FaultWhole DEF Work
  <1>3. CASE \E d \in Deliveries : Expire(d)
    BY <1>3, WholeKept DEF Expire, Whole, TypeOK
  <1>4. CASE Tick
    BY <1>4, TickWhole
  <1>5. CASE UNCHANGED vars
    BY <1>5, WholeKept DEF vars, Whole, TypeOK
  <1> QED
    BY <1>1, <1>2, <1>3, <1>4, <1>5 DEF Next

-----------------------------------------------------------------------------
(* As long as no lease has run out.                                        *)

LEMMA HeldTwice ==
  ASSUME TakenOnce, NEW v \in Instances, NEW w \in Instances, v # w,
         NEW t \in batch[v], NEW u \in batch[w]
  PROVE  t.of # u.of
  BY DEF TakenOnce, Held

\* What leaves a batch, and what it leaves alone.
LEMMA CalmShrinks ==
  ASSUME Whole, Calm, \A v \in Instances : batch'[v] \subseteq batch[v],
         \A v \in Instances : \A t \in batch'[v] : row'[t.of] = row[t.of],
         Attempted'
  PROVE  Calm'
  <1>1. \A v \in Instances : Knows(v)'
    BY DEF Calm, Knows
  <1>2. TakenOnce'
    <2> SUFFICES ASSUME NEW u \in Instances, NEW v \in Instances, u # v,
                        NEW t \in batch'[u], NEW s \in batch'[v], t.of = s.of
                 PROVE  FALSE
      BY DEF TakenOnce, Held
    <2>1. t \in batch[u] /\ s \in batch[v]
      OBVIOUS
    <2> QED
      BY <2>1, HeldTwice DEF Calm
  <1> QED
    BY <1>1, <1>2 DEF Calm

LEMMA ClaimCalm ==
  ASSUME Whole, Calm, NEW w \in Instances, Claim(w)
  PROVE  Calm'
  <1>1. PICK taken \in Claimable :
          /\ batch' = [batch EXCEPT ![w] =
                         {[of |-> d, attempts |-> row[d].attempts] : d \in taken}]
          /\ row' = [d \in Deliveries |-> IF d \in taken THEN [row[d] EXCEPT !.wait = Lease]
                                                         ELSE row[d]]
    BY DEF Claim
  <1> DEFINE tasks == {[of |-> d, attempts |-> row[d].attempts] : d \in taken}
  <1>2. /\ taken \subseteq Deliveries
        /\ \A d \in taken : row[d].state = "PENDING" /\ row[d].wait = 0
    BY DEF Claimable, Due
  <1>3. batch'[w] = tasks /\ \A v \in Instances : v # w => batch'[v] = batch[v]
    BY <1>1 DEF Whole, TypeOK
  <1>4. \A v \in Instances : \A t \in batch[v] : t.of \in Deliveries /\ t.of \notin taken
    BY <1>2 DEF Whole, TypeOK, Task, Calm, Knows
  <1>5. \A t \in tasks : t.of \in taken /\ t.attempts = row[t.of].attempts
    OBVIOUS
  <1>6. \A d \in taken : /\ row'[d].state = "PENDING" /\ row'[d].attempts = row[d].attempts
                         /\ row'[d].wait = Lease
    BY <1>1, <1>2 DEF Whole, TypeOK
  <1>7. ASSUME NEW v \in Instances PROVE Knows(v)'
    <2>1. CASE v = w
      <3>1. \A t \in batch'[v] : /\ row'[t.of].state = "PENDING" /\ row'[t.of].attempts = t.attempts
                                 /\ row'[t.of].wait > 0
        <4> HIDE DEF tasks
        <4> QED
          BY <2>1, <1>3, <1>5, <1>6, Times
      <3> QED
        BY <3>1 DEF Knows
    <2>2. CASE v # w
      <3>1. batch'[v] = batch[v] /\ \A t \in batch[v] : row'[t.of] = row[t.of]
        BY <2>2, <1>1, <1>3, <1>4
      <3> QED
        BY <3>1 DEF Knows, Calm
    <2> QED
      BY <2>1, <2>2
  <1>8. TakenOnce'
    <2> HIDE DEF tasks
    <2> SUFFICES ASSUME NEW u \in Instances, NEW v \in Instances, u # v,
                        NEW t \in batch'[u], NEW s \in batch'[v], t.of = s.of
                 PROVE  FALSE
      BY DEF TakenOnce, Held
    <2>1. CASE u = w
      BY <2>1, <1>3, <1>4, <1>5
    <2>2. CASE v = w
      BY <2>2, <1>3, <1>4, <1>5
    <2>3. CASE u # w /\ v # w
      <3>1. t \in batch[u] /\ s \in batch[v]
        BY <2>3, <1>3
      <3> QED
        BY <3>1, HeldTwice DEF Calm
    <2> QED
      BY <2>1, <2>2, <2>3
  <1>9. Attempted'
    <2>1. \A d \in Deliveries : row'[d].state = row[d].state /\ row'[d].attempts = row[d].attempts
      BY <1>1 DEF Whole, TypeOK
    <2> QED
      BY <2>1 DEF Calm, Attempted
  <1> QED
    BY <1>7, <1>8, <1>9 DEF Calm

LEMMA SettleCalm ==
  ASSUME Whole, Calm, NEW w \in Instances, Settle(w)
  PROVE  Calm'
  <1>1. PICK t \in batch[w], d \in Deliveries, mark \in Marks :
          /\ t = job[w].task /\ d = job[w].task.of /\ mark = job[w].mark
          /\ mark = "RETRY" => t.attempts + 1 < MaxAttempts
          /\ \A u \in batch[w] : u.of = d => u = t
          /\ \A c \in Deliveries : c # d => row'[c] = row[c]
          /\ row'[d].state = IF mark \in {"DELIVERED", "FAILED"} THEN mark ELSE row[d].state
          /\ row'[d].attempts = IF mark \in {"FAILED", "RETRY"} THEN row[d].attempts + 1
                                                               ELSE row[d].attempts
    BY SettledBy
  <1>2. batch' = [batch EXCEPT ![w] = @ \ {t}]
    BY <1>1 DEF Settle, Leaves
  <1>3. /\ batch'[w] = batch[w] \ {t}
        /\ \A v \in Instances : v # w => batch'[v] = batch[v]
    BY <1>2 DEF Whole, TypeOK
  <1>4. \A v \in Instances : \A u \in batch'[v] : row'[u.of] = row[u.of]
    <2> SUFFICES ASSUME NEW v \in Instances, NEW u \in batch'[v]
                 PROVE  u.of \in Deliveries /\ u.of # d
      BY <1>1
    <2>1. u \in batch[v] /\ (v = w => u # t)
      BY <1>3
    <2>2. u.of \in Deliveries
      BY <2>1 DEF Whole, TypeOK, Task
    <2>3. t.of = d
      BY <1>1
    <2>4. u.of # d
      BY <2>1, <2>3, <1>1, HeldTwice DEF Calm
    <2> QED
      BY <2>2, <2>4
  <1>5. Attempted'
    <2>1. /\ row[d].state = "PENDING" /\ row[d].attempts = t.attempts
          /\ row[d].attempts \in Nat /\ row[d].attempts < MaxAttempts
      BY <1>1 DEF Calm, Knows, Attempted, Whole, TypeOK
    <2>2. /\ row'[d].attempts <= MaxAttempts
          /\ row'[d].state = "PENDING" => row'[d].attempts < MaxAttempts
          /\ row'[d].state # "NONE"
      BY <2>1, <1>1, Times DEF Marks
    <2> QED
      BY <2>2, <1>1 DEF Calm, Attempted
  <1> QED
    BY <1>3, <1>4, <1>5, CalmShrinks

LEMMA TickCalm ==
  ASSUME Whole, Calm, Tick, ~RunsOut
  PROVE  Calm'
  <1>1. /\ row' = [d \in Deliveries |-> IF row[d].state = "PENDING" /\ row[d].wait > 0
                                        THEN [row[d] EXCEPT !.wait = @ - 1] ELSE row[d]]
        /\ batch' = batch
    BY DEF Tick
  <1>2. \A d \in Deliveries :
          /\ row'[d].state = row[d].state /\ row'[d].attempts = row[d].attempts
          /\ row[d].state = "PENDING" /\ row[d].wait > 0 => row'[d].wait = row[d].wait - 1
          /\ row[d].wait \in Nat
    BY <1>1 DEF Whole, TypeOK
  <1>3. ASSUME NEW w \in Instances, NEW t \in batch[w]
        PROVE  /\ row'[t.of].state = "PENDING" /\ row'[t.of].attempts = t.attempts
               /\ row'[t.of].wait > 0
    <2>1. /\ t.of \in Deliveries
          /\ row[t.of].state = "PENDING" /\ row[t.of].attempts = t.attempts /\ row[t.of].wait > 0
      BY DEF Whole, TypeOK, Task, Calm, Knows
    <2>2. row[t.of].wait # 1
      BY <2>1 DEF RunsOut, Held
    <2> QED
      BY <2>1, <2>2, <1>2
  <1>4. \A w \in Instances : Knows(w)'
    BY <1>1, <1>3 DEF Knows
  <1>5. TakenOnce' /\ Attempted'
    BY <1>1, <1>2 DEF Calm, TakenOnce, Held, Attempted
  <1> QED
    BY <1>4, <1>5 DEF Calm

LEMMA NeverFewer ==
  ASSUME Whole, [Next]_vars, overruns' = 0
  PROVE  overruns = 0
  <1>1. overruns' = overruns \/ overruns' = overruns + 1
    BY DEF Next, Publish, Claim, Work, Begin, Send, SendFails, AnswerLost, Settle, MarkLost,
           Stop, Expire, Tick, vars
  <1>2. overruns \in Nat
    BY DEF Whole, TypeOK
  <1> QED
    BY <1>1, <1>2

LEMMA CalmStep ==
  ASSUME Whole, overruns = 0 => Calm, [Next]_vars, overruns' = 0
  PROVE  Calm'
  <1>1. overruns = 0 /\ Calm
    BY NeverFewer
  <1>2. ASSUME NEW e \in Events, NEW channels \in SUBSET Channels, Publish(e, channels)
        PROVE  Calm'
    <2>1. row' = Queued(e, channels) /\ batch' = batch
      BY <1>2 DEF Publish
    <2>2. \A d \in Deliveries : row[d].state # "NONE" => row'[d] = row[d]
      BY <2>1 DEF Queued
    <2>3. \A v \in Instances : \A t \in batch[v] : row'[t.of] = row[t.of]
      BY <2>2, <1>1 DEF Calm, Knows, Whole, TypeOK, Task
    <2>4. Attempted'
      BY <2>1, <1>1, Times DEF Calm, Attempted, Queued, Whole, TypeOK
    <2> QED
      BY <2>1, <2>3, <2>4, <1>1, CalmShrinks
  <1>3. ASSUME NEW w \in Instances, MarkLost(w) \/ Stop(w) PROVE Calm'
    <2>1. row' = row /\ \A v \in Instances : batch'[v] \subseteq batch[v]
      BY <1>3 DEF MarkLost, Stop, Leaves, Whole, TypeOK
    <2>2. Attempted'
      BY <2>1, <1>1 DEF Calm, Attempted
    <2> QED
      BY <2>1, <2>2, <1>1, CalmShrinks
  <1>4. ASSUME UNCHANGED <<row, batch>> PROVE Calm'
    <2>1. Attempted'
      BY <1>4, <1>1 DEF Calm, Attempted
    <2> QED
      BY <2>1, <1>4, <1>1, CalmShrinks
  <1>5. ASSUME Tick PROVE Calm'
    <2>1. ~RunsOut
      BY <1>1, <1>5 DEF Tick
    <2> QED
      BY <2>1, <1>1, <1>5, TickCalm
  <1> QED
    BY <1>1, <1>2, <1>3, <1>4, <1>5, ClaimCalm, SettleCalm
    DEF Next, Work, Begin, Send, SendFails, AnswerLost, Expire, vars

-----------------------------------------------------------------------------
(* The theorems.                                                           *)

LEMMA InitIInv == Init => IInv
  <1> SUFFICES ASSUME Init PROVE IInv
    OBVIOUS
  <1>1. Attempted /\ TakenOnce /\ \A w \in Instances : Knows(w)
    BY Times DEF Init, Attempted, TakenOnce, Held, Knows
  <1> QED
    BY <1>1, InitWhole DEF IInv, Calm

\* The inductive invariant: the balance of every delivery always, and what
\* the holders know of their rows as long as no lease has run out.
THEOREM Invariance == Spec => []IInv
  <1>1. Init => IInv
    BY InitIInv
  <1>2. IInv /\ [Next]_vars => IInv'
    BY WholeStep, CalmStep DEF IInv
  <1> QED
    BY <1>1, <1>2, PTL DEF Spec

\* Every variable keeps its type: no clock runs below zero, no instance
\* overstays a task, and no result makes a row that is not one.
THEOREM TypeCorrect == Spec => []TypeOK
  <1>1. IInv => TypeOK
    BY DEF IInv, Whole
  <1> QED
    BY <1>1, Invariance, PTL

\* No task is in two hands before a lease runs out.
THEOREM LeaseHolds == Spec => []LeaseKeeps
  <1>1. IInv => LeaseKeeps
    BY DEF IInv, Calm, LeaseKeeps
  <1> QED
    BY <1>1, Invariance, PTL

\* A message is repeated only after a result was lost, an instance stopped or
\* a lease ran out, and once for each of these.
THEOREM NoRepeats == Spec => []SentOnce
  <1>1. IInv => SentOnce
    <2> SUFFICES ASSUME IInv, NEW d \in Deliveries
                 PROVE  /\ sent[d] <= 1 + faults + overruns
                        /\ row[d].state = "FAILED" => sent[d] <= faults + overruns
      BY DEF SentOnce
    <2>1. TypeOK /\ Bounded(d)
      BY DEF IInv, Whole
    <2>2. sent[d] \in Nat /\ sent[d] <= Sum(d) /\ Sum(d) \in Nat /\ faults \in Nat /\ overruns \in Nat
      BY <2>1, SumType
    <2> QED
      BY <2>1, <2>2 DEF Bounded
  <1> QED
    BY <1>1, Invariance, PTL

\* A task is dropped with its last attempt, until a lease runs out.
THEOREM AttemptsAreBounded == Spec => []GivesUp
  <1>1. IInv => GivesUp
    BY DEF IInv, Calm, Attempted, GivesUp
  <1> QED
    BY <1>1, Invariance, PTL

\* A delivery is queued once and leaves the queue once, whatever instances
\* write over each other's results; before a lease runs out none does.
THEOREM DeliveriesEndOnce == Spec => EndsAreFinal
  <1> DEFINE Ends(d) ==
        /\ d[1] \in published /\ row[d].state = "NONE" => row'[d].state = "NONE"
        /\ row[d].state \in {"DELIVERED", "FAILED"} =>
             /\ row'[d].state \in {"DELIVERED", "FAILED"}
             /\ overruns = 0 => row'[d] = row[d]
  <1>1. ASSUME IInv, [Next]_vars, NEW d \in Deliveries PROVE Ends(d)
    <2>1. ASSUME NEW e \in Events, NEW channels \in SUBSET Channels, Publish(e, channels)
          PROVE  Ends(d)
      BY <2>1 DEF Publish, Queued
    <2>2. ASSUME NEW w \in Instances, Claim(w) PROVE Ends(d)
      <3>1. PICK taken \in Claimable :
              row' = [c \in Deliveries |-> IF c \in taken THEN [row[c] EXCEPT !.wait = Lease]
                                                          ELSE row[c]]
        BY <2>2 DEF Claim
      <3>2. \A c \in taken : row[c].state = "PENDING"
        BY DEF Claimable, Due
      <3> QED
        BY <3>1, <3>2
    <2>3. ASSUME NEW w \in Instances, Settle(w) PROVE Ends(d)
      <3>1. PICK t \in batch[w], c \in Deliveries, mark \in Marks :
              /\ t = job[w].task /\ c = t.of
              /\ row[c].state # "NONE"
              /\ \A b \in Deliveries : b # c => row'[b] = row[b]
              /\ row'[c].state = IF mark \in {"DELIVERED", "FAILED"} THEN mark ELSE row[c].state
        BY <1>1, <2>3, SettledBy DEF IInv
      <3>2. overruns = 0 => row[c].state = "PENDING"
        BY <1>1, <3>1 DEF IInv, Calm, Knows
      <3>3. CASE c = d
        BY <3>1, <3>2, <3>3
      <3>4. CASE c # d
        BY <3>1, <3>4
      <3> QED
        BY <3>3, <3>4
    <2>4. ASSUME Tick PROVE Ends(d)
      BY <2>4 DEF Tick
    <2>5. ASSUME UNCHANGED row PROVE Ends(d)
      BY <2>5
    <2> QED
      BY <1>1, <2>1, <2>2, <2>3, <2>4, <2>5
      DEF Next, vars, Work, Begin, Send, SendFails, AnswerLost, MarkLost, Stop, Expire
  <1>2. IInv /\ [Next]_vars => [\A d \in Deliveries : Ends(d)]_vars
    BY <1>1
  <1> QED
    BY <1>2, Invariance, PTL DEF Spec, EndsAreFinal

-----------------------------------------------------------------------------
(* The rate.                                                               *)

\* Messages of a channel in the window, and instances allowed to add one.
Window(c)  == {r \in recent : r[2] = c}
Cleared(c) == {w \in Instances : /\ job[w].at = "send" \/ job[w].mark = "DELIVERED"
                                 /\ job[w].task.of[2] = c}

\* Together they have room: an instance was allowed when the window had a
\* place, and at worst all the others were allowed by the same window.
Room(c) ==
  RateLimit > 0 =>
    Cardinality(Window(c)) + Cardinality(Cleared(c)) < RateLimit + Cardinality(Instances)

LEMMA Finite ==
  ASSUME TypeOK, NEW c
  PROVE  /\ IsFiniteSet(Window(c)) /\ Cardinality(Window(c)) \in Nat
         /\ IsFiniteSet(Cleared(c)) /\ Cardinality(Cleared(c)) \in Nat
         /\ Cardinality(Instances) \in Nat
         /\ Cardinality(Cleared(c)) <= Cardinality(Instances)
  <1>1. Window(c) \subseteq Deliveries /\ Cleared(c) \subseteq Instances
    BY DEF TypeOK, Window, Cleared
  <1>2. IsFiniteSet(Deliveries) /\ IsFiniteSet(Instances)
    BY InstancesAssumption
  <1> QED
    BY <1>1, <1>2, FS_Subset, FS_CardinalityType

\* A step that opens no window and clears no one.
LEMMA RoomStays ==
  ASSUME TypeOK, NEW c, Room(c),
         Window(c)' \subseteq Window(c), Cleared(c)' \subseteq Cleared(c)
  PROVE  Room(c)'
  <1> DEFINE a == Cardinality(Window(c))'  b == Cardinality(Cleared(c))'
  <1>1. /\ Cardinality(Window(c)) \in Nat /\ Cardinality(Cleared(c)) \in Nat
        /\ Cardinality(Instances) \in Nat
    BY Finite
  <1>2. /\ Cardinality(Window(c)') \in Nat /\ Cardinality(Window(c)') <= Cardinality(Window(c))
        /\ Cardinality(Cleared(c)') \in Nat /\ Cardinality(Cleared(c)') <= Cardinality(Cleared(c))
    BY Finite, FS_Subset, FS_CardinalityType
  <1> QED
    BY <1>1, <1>2, Times DEF Room

LEMMA RoomAtBegin ==
  ASSUME TypeOK, NEW w \in Instances, NEW t \in batch[w], Begin(w, t), NEW c, Room(c)
  PROVE  Room(c)'
  <1>1. /\ recent' = recent /\ job[w].at = "idle"
        /\ \A v \in Instances : v # w => job'[v] = job[v]
        /\ job'[w].task = t
        /\ job'[w].mark # "DELIVERED"
        /\ job'[w].at = "send" => Allowed(t.of)
    BY DEF Begin, At, Takes, Again, TypeOK
  <1>2. Window(c)' = Window(c)
    BY <1>1 DEF Window
  <1>3. CASE job'[w].at = "send" /\ t.of[2] = c /\ RateLimit > 0
    <2>1. Cardinality(Window(c)) < RateLimit
      BY <1>1, <1>3, Times DEF Allowed, Window
    <2>2. Cardinality(Cleared(c)') \in Nat /\ Cardinality(Cleared(c)') <= Cardinality(Instances)
      <3>1. Cleared(c)' \subseteq Instances
        BY DEF Cleared
      <3> QED
        BY <3>1, InstancesAssumption, FS_Subset, FS_CardinalityType
    <2> QED
      BY <2>1, <2>2, <1>2, Finite, Times DEF Room
  <1>4. CASE ~(job'[w].at = "send" /\ t.of[2] = c)
    <2>1. Cleared(c)' \subseteq Cleared(c)
      BY <1>1, <1>4 DEF Cleared
    <2> QED
      BY <2>1, <1>2, RoomStays
  <1>5. CASE ~(RateLimit > 0)
    BY <1>5 DEF Room
  <1> QED
    BY <1>3, <1>4, <1>5

LEMMA RoomAtSettle ==
  ASSUME Whole, Calm, NEW w \in Instances, Settle(w), NEW c, Room(c)
  PROVE  Room(c)'
  <1>1. PICK d \in Deliveries, mark \in Marks :
          /\ d = job[w].task.of /\ mark = job[w].mark /\ job[w].task \in batch[w]
          /\ row'[d].state = IF mark \in {"DELIVERED", "FAILED"} THEN mark ELSE row[d].state
    BY SettledBy
  <1>2. /\ job' = [job EXCEPT ![w] = Idle]
        /\ recent' = IF row'[d].state = "DELIVERED" THEN recent \cup {d} ELSE recent \ {d}
        /\ job[w].at = "settle"
    BY <1>1 DEF Settle, Leaves, At
  <1>3. row'[d].state = "DELIVERED" => mark = "DELIVERED"
    <2>1. row[d].state = "PENDING"
      BY <1>1 DEF Calm, Knows
    <2> QED
      BY <1>1, <2>1
  <1>4. Cleared(c)' = Cleared(c) \ {w}
    BY <1>2 DEF Cleared, Idle, Whole, TypeOK
  <1>5. CASE mark = "DELIVERED" /\ d[2] = c
    <2>1. Window(c)' \subseteq Window(c) \cup {d} /\ w \in Cleared(c)
      BY <1>1, <1>2, <1>5 DEF Window, Cleared
    <2>2. /\ IsFiniteSet(Window(c) \cup {d}) /\ Cardinality(Window(c) \cup {d}) \in Nat
          /\ Cardinality(Window(c) \cup {d}) <= Cardinality(Window(c)) + 1
      <3>1. IsFiniteSet(Window(c)) /\ Cardinality(Window(c)) \in Nat
        BY Finite DEF Whole
      <3>2. /\ IsFiniteSet(Window(c) \cup {d})
            /\ Cardinality(Window(c) \cup {d}) =
                 IF d \in Window(c) THEN Cardinality(Window(c)) ELSE Cardinality(Window(c)) + 1
        BY <3>1, FS_AddElement
      <3> QED
        BY <3>1, <3>2
    <2>3. /\ Cardinality(Window(c)') \in Nat
          /\ Cardinality(Window(c)') <= Cardinality(Window(c) \cup {d})
      BY <2>1, <2>2, FS_Subset, FS_CardinalityType
    <2>4. Cardinality(Cleared(c)') = Cardinality(Cleared(c)) - 1
      BY <1>4, <2>1, Finite, FS_RemoveElement DEF Whole
    <2>5. /\ Cardinality(Window(c)) \in Nat /\ Cardinality(Cleared(c)) \in Nat
          /\ Cardinality(Instances) \in Nat
      BY Finite DEF Whole
    <2> QED
      BY <2>2, <2>3, <2>4, <2>5, Times DEF Room
  <1>6. CASE ~(mark = "DELIVERED" /\ d[2] = c)
    <2>1. Window(c)' \subseteq Window(c)
      BY <1>2, <1>3, <1>6 DEF Window
    <2>2. Cleared(c)' \subseteq Cleared(c)
      BY <1>4
    <2> QED
      BY <2>1, <2>2, RoomStays DEF Whole
  <1> QED
    BY <1>5, <1>6

LEMMA RoomStep ==
  ASSUME Whole, Calm, [Next]_vars, NEW c, Room(c)
  PROVE  Room(c)'
  <1>1. ASSUME NEW w \in Instances, NEW t \in batch[w], Begin(w, t) PROVE Room(c)'
    BY <1>1, RoomAtBegin DEF Whole
  <1>2. ASSUME NEW w \in Instances, Settle(w) PROVE Room(c)'
    BY <1>2, RoomAtSettle
  <1>3. ASSUME UNCHANGED <<recent, job>> PROVE Room(c)'
    BY <1>3, RoomStays DEF Window, Cleared, Whole
  <1>4. ASSUME NEW w \in Instances, Send(w) \/ SendFails(w) \/ AnswerLost(w) PROVE Room(c)'
    <2>1. /\ recent' = recent /\ job[w].at = "send"
          /\ \A v \in Instances : v # w => job'[v] = job[v]
          /\ job'[w].task = job[w].task
      BY <1>4 DEF Send, SendFails, AnswerLost, At, Writes, Takes, Whole, TypeOK
    <2>2. Window(c)' \subseteq Window(c) /\ Cleared(c)' \subseteq Cleared(c)
      BY <2>1 DEF Window, Cleared
    <2> QED
      BY <2>2, RoomStays DEF Whole
  <1>5. ASSUME NEW w \in Instances, MarkLost(w) \/ Stop(w) PROVE Room(c)'
    <2>1. recent' = recent /\ job' = [job EXCEPT ![w] = Idle]
      BY <1>5 DEF MarkLost, Stop, Leaves
    <2>2. Window(c)' \subseteq Window(c) /\ Cleared(c)' \subseteq Cleared(c)
      BY <2>1 DEF Window, Cleared, Idle, Whole, TypeOK
    <2> QED
      BY <2>2, RoomStays DEF Whole
  <1>6. ASSUME NEW d \in Deliveries, Expire(d) PROVE Room(c)'
    <2>1. Window(c)' \subseteq Window(c) /\ Cleared(c)' \subseteq Cleared(c)
      BY <1>6 DEF Expire, Window, Cleared
    <2> QED
      BY <2>1, RoomStays DEF Whole
  <1> QED
    BY <1>1, <1>2, <1>3, <1>4, <1>5, <1>6 DEF Next, Work, Publish, Claim, Tick, vars

\* Until a lease runs out several instances exceed the rate, as it is recorded,
\* by at most one message for each other one.
THEOREM RateTheorem == Spec => []RateHolds
  <1> DEFINE Rooms == overruns = 0 => \A c \in Channels : Room(c)
  <1>1. Init => Rooms
    <2> SUFFICES ASSUME Init, NEW c \in Channels, RateLimit > 0
                 PROVE  Cardinality(Window(c)) + Cardinality(Cleared(c))
                          < RateLimit + Cardinality(Instances)
      BY DEF Room
    <2>1. Window(c) = {} /\ Cleared(c) = {}
      BY DEF Init, Window, Cleared, Idle
    <2>2. Cardinality(Instances) \in Nat
      BY InstancesAssumption, FS_CardinalityType
    <2> QED
      BY <2>1, <2>2, FS_EmptySet, Times
  <1>2. IInv /\ Rooms /\ [Next]_vars => Rooms'
    <2> SUFFICES ASSUME IInv, Rooms, [Next]_vars, overruns' = 0, NEW c \in Channels
                 PROVE  Room(c)'
      OBVIOUS
    <2>1. overruns = 0
      BY NeverFewer DEF IInv
    <2> QED
      BY <2>1, RoomStep DEF IInv
  <1>3. IInv /\ Rooms => RateHolds
    <2> SUFFICES ASSUME IInv, Rooms, overruns = 0, RateLimit > 0, NEW c \in Channels
                 PROVE  Cardinality(Window(c)) < RateLimit + Cardinality(Instances)
      BY DEF RateHolds, Window
    <2>1. Cardinality(Window(c)) + Cardinality(Cleared(c)) < RateLimit + Cardinality(Instances)
      BY DEF Room
    <2>2. /\ Cardinality(Window(c)) \in Nat /\ Cardinality(Cleared(c)) \in Nat
          /\ Cardinality(Instances) \in Nat
      BY Finite DEF IInv, Whole
    <2> QED
      BY <2>1, <2>2, Times
  <1> QED
    BY <1>1, <1>2, <1>3, Invariance, PTL DEF Spec

-----------------------------------------------------------------------------
(* A lease that outlasts a batch.                                          *)

Left(w) == Cardinality(batch[w]) * HandleTime

\* The time left to the rows of a batch, and that spent on the task at hand,
\* are together more than the rest of the batch can take.
Timely ==
  /\ overruns = 0
  /\ \A w \in Instances : /\ IsFiniteSet(batch[w])
                          /\ \A d \in Held(w) : row[d].wait + busy[w] > Left(w)

LEMMA Product ==
  ASSUME NEW a \in Nat, NEW b \in Nat, NEW h \in Nat
  PROVE  /\ a * h \in Nat
         /\ a <= b => a * h <= b * h
         /\ a >= 1 => (a - 1) * h = a * h - h /\ a * h >= h
  <1>1. a * h \in Nat
    BY SMT
  <1>2. a >= 1 => (a - 1) * h = a * h - h /\ a * h >= h
    BY SMT
  <1>3. ASSUME a <= b PROVE a * h <= b * h
    <2>1. PICK c \in Nat : b = a + c
      BY <1>3
    <2>2. c * h \in Nat
      BY SMT
    <2>3. b * h = a * h + c * h
      BY <2>1, SMT
    <2> QED
      BY <2>2, <2>3, <1>1, SMT
  <1> QED
    BY <1>1, <1>2, <1>3

\* What is left of a batch that is not empty takes at least one task's time.
LEMMA LeftType ==
  ASSUME Timely, NEW w \in Instances, batch[w] # {}
  PROVE  /\ Cardinality(batch[w]) \in Nat /\ Cardinality(batch[w]) >= 1
         /\ Left(w) \in Nat /\ Left(w) >= HandleTime
  <1>1. Cardinality(batch[w]) \in Nat /\ Cardinality(batch[w]) >= 1
    <2>1. Cardinality(batch[w]) # 0 /\ Cardinality(batch[w]) \in Nat
      BY FS_EmptySet, FS_CardinalityType DEF Timely
    <2> QED
      BY <2>1
  <1> QED
    BY <1>1, Product, Times DEF Left

\* An instance whose batch, rows and clock are as they were.
LEMMA TimelyKept ==
  ASSUME Timely, NEW w \in Instances, batch'[w] = batch[w], busy'[w] = busy[w],
         \A d \in Held(w) : row'[d] = row[d]
  PROVE  IsFiniteSet(batch'[w]) /\ \A d \in Held(w)' : row'[d].wait + busy'[w] > Left(w)'
  BY DEF Timely, Left, Held

LEMMA ClaimTimely ==
  ASSUME LongLease, Whole, Calm, Timely, NEW w \in Instances, Claim(w)
  PROVE  Timely'
  <1>1. PICK taken \in Claimable :
          /\ batch' = [batch EXCEPT ![w] =
                         {[of |-> d, attempts |-> row[d].attempts] : d \in taken}]
          /\ row' = [d \in Deliveries |-> IF d \in taken THEN [row[d] EXCEPT !.wait = Lease]
                                                         ELSE row[d]]
    BY DEF Claim
  <1> DEFINE tasks == {[of |-> d, attempts |-> row[d].attempts] : d \in taken}
  <1>2. taken \subseteq Deliveries /\ \A d \in taken : row[d].wait = 0
    BY DEF Claimable, Due
  <1>3. /\ batch'[w] = tasks /\ busy' = busy /\ overruns' = overruns
        /\ \A v \in Instances : v # w => batch'[v] = batch[v]
    BY <1>1 DEF Claim, Whole, TypeOK
  <1>4. IsFiniteSet(taken) /\ Cardinality(taken) \in Nat /\ Cardinality(taken) <= BatchSize
    <2>1. IsFiniteSet(Due) /\ IsFiniteSet(taken)
      BY <1>2, InstancesAssumption, FS_Subset DEF Due
    <2>2. Cardinality(Due) \in Nat /\ Cardinality(taken) \in Nat
      BY <2>1, FS_CardinalityType
    <2> QED
      BY <2>1, <2>2, Times DEF Claimable
  <1>5. /\ IsFiniteSet(tasks) /\ Cardinality(tasks) \in Nat
        /\ Cardinality(tasks) <= BatchSize
    <2> DEFINE f == [d \in taken |-> [of |-> d, attempts |-> row[d].attempts]]
    <2>1. f \in Surjection(taken, tasks)
      BY DEF Surjection
    <2>2. IsFiniteSet(tasks) /\ Cardinality(tasks) <= Cardinality(taken)
      BY <2>1, <1>4, FS_Surjection
    <2> HIDE DEF tasks
    <2>3. Cardinality(tasks) \in Nat
      BY <2>2, FS_CardinalityType
    <2> QED
      BY <2>2, <2>3, <1>4, Times
  <1>6. Cardinality(tasks) * HandleTime \in Nat /\ Cardinality(tasks) * HandleTime < Lease
    <2> HIDE DEF tasks
    <2>1. /\ Cardinality(tasks) * HandleTime <= BatchSize * HandleTime
          /\ Cardinality(tasks) * HandleTime \in Nat /\ BatchSize * HandleTime \in Nat
      BY <1>5, Product, Times
    <2> QED
      BY <2>1, Times DEF LongLease
  <1>7. \A t \in tasks : t.of \in taken
    OBVIOUS
  <1>8. \A d \in taken : row'[d].wait = Lease
    BY <1>1, <1>2 DEF Whole, TypeOK
  <1>9. ASSUME NEW v \in Instances
        PROVE  IsFiniteSet(batch'[v]) /\ \A d \in Held(v)' : row'[d].wait + busy'[v] > Left(v)'
    <2> HIDE DEF tasks
    <2>1. CASE v = w
      <3>1. Left(w)' = Cardinality(tasks) * HandleTime /\ \A d \in Held(w)' : d \in taken
        BY <1>3, <1>7 DEF Left, Held
      <3>2. busy'[w] \in Nat
        BY <1>3, Times DEF Whole, TypeOK
      <3> QED
        BY <2>1, <3>1, <3>2, <1>3, <1>5, <1>6, <1>8, Times
    <2>2. CASE v # w
      <3>1. \A d \in Held(v) : d \in Deliveries /\ d \notin taken
        BY <1>2 DEF Calm, Knows, Held, Whole, TypeOK, Task
      <3>2. \A d \in Held(v) : row'[d] = row[d]
        BY <3>1, <1>1
      <3> QED
        BY <2>2, <3>2, <1>3, TimelyKept
    <2> QED
      BY <2>1, <2>2
  <1> QED
    BY <1>3, <1>9 DEF Timely

\* A task leaves a batch with all its time, however much it took; or all do.
LEMMA LeavesTimely ==
  ASSUME Whole, Calm, Timely, NEW w \in Instances, Settle(w) \/ MarkLost(w) \/ Stop(w)
  PROVE  Timely'
  <1>1. /\ busy' = [busy EXCEPT ![w] = 0] /\ overruns' = overruns
        /\ \A v \in Instances : v # w => batch'[v] = batch[v]
    BY DEF Settle, MarkLost, Stop, Leaves, Whole, TypeOK
  <1>2. PICK rest \in SUBSET batch[w] :
          /\ batch'[w] = rest /\ IsFiniteSet(rest)
          /\ rest # {} => Cardinality(rest) = Cardinality(batch[w]) - 1
          /\ \A v \in Instances : \A u \in batch'[v] : row'[u.of] = row[u.of]
    <2>1. IsFiniteSet(batch[w])
      BY DEF Timely
    <2>2. CASE Stop(w)
      <3>1. batch'[w] = {} /\ row' = row
        BY <2>2 DEF Stop, Whole, TypeOK
      <3> QED
        BY <3>1, FS_EmptySet
    <2>3. CASE MarkLost(w) \/ Settle(w)
      <3>1. job[w].task \in batch[w] /\ batch'[w] = batch[w] \ {job[w].task}
        BY <2>3 DEF MarkLost, Settle, At, Leaves, Whole, Serves, TypeOK
      <3>2. /\ IsFiniteSet(batch[w] \ {job[w].task})
            /\ Cardinality(batch[w] \ {job[w].task}) = Cardinality(batch[w]) - 1
        BY <2>1, <3>1, FS_RemoveElement
      <3>3. \A v \in Instances : \A u \in batch'[v] : row'[u.of] = row[u.of]
        <4>1. CASE MarkLost(w)
          BY <4>1 DEF MarkLost
        <4>2. CASE Settle(w)
          <5>1. PICK t \in batch[w], d \in Deliveries :
                  /\ t = job[w].task /\ d = t.of
                  /\ \A u \in batch[w] : u.of = d => u = t
                  /\ \A c \in Deliveries : c # d => row'[c] = row[c]
            BY <4>2, SettledBy
          <5> SUFFICES ASSUME NEW v \in Instances, NEW u \in batch'[v]
                       PROVE  u.of \in Deliveries /\ u.of # d
            BY <5>1
          <5>2. u \in batch[v] /\ (v = w => u # t)
            BY <3>1, <5>1, <1>1
          <5>3. u.of \in Deliveries
            BY <5>2 DEF Whole, TypeOK, Task
          <5>4. u.of # d
            BY <5>1, <5>2, HeldTwice DEF Calm
          <5> QED
            BY <5>3, <5>4
        <4> QED
          BY <2>3, <4>1, <4>2
      <3> QED
        BY <3>1, <3>2, <3>3
    <2> QED
      BY <2>2, <2>3
  <1>3. /\ IsFiniteSet(batch'[w])
        /\ \A d \in Held(w)' : row'[d].wait + busy'[w] > Left(w)'
    <2> SUFFICES ASSUME NEW t \in rest
                 PROVE  row[t.of].wait + 0 > Cardinality(rest) * HandleTime
      BY <1>1, <1>2 DEF Left, Held, Whole, TypeOK
    <2> DEFINE n == Cardinality(batch[w])
    <2>1. n \in Nat /\ n >= 1 /\ Cardinality(rest) = n - 1
      BY <1>2, LeftType
    <2>2. (n - 1) * HandleTime = n * HandleTime - HandleTime /\ n * HandleTime \in Nat
      BY <2>1, Product, Times
    <2>3. busy[w] \in 0..HandleTime /\ row[t.of].wait \in Nat
      BY DEF Whole, TypeOK, Task
    <2>4. row[t.of].wait + busy[w] > n * HandleTime
      BY DEF Timely, Left, Held
    <2> HIDE DEF n
    <2> QED
      BY <2>1, <2>2, <2>3, <2>4, Times
  <1>4. ASSUME NEW v \in Instances, v # w
        PROVE  IsFiniteSet(batch'[v]) /\ \A d \in Held(v)' : row'[d].wait + busy'[v] > Left(v)'
    <2>1. \A d \in Held(v) : row'[d] = row[d]
      BY <1>1, <1>2, <1>4 DEF Held
    <2>2. busy'[v] = busy[v]
      BY <1>1, <1>4 DEF Whole, TypeOK
    <2> QED
      BY <2>1, <2>2, <1>1, <1>4, TimelyKept
  <1> QED
    BY <1>1, <1>3, <1>4 DEF Timely

\* Time takes from a row what it adds to the task at hand, and no row comes due.
LEMMA TickTimely ==
  ASSUME Whole, Calm, Timely, Tick
  PROVE  Timely'
  <1>1. /\ \A w \in Instances : batch[w] # {} => busy[w] < HandleTime
        /\ row' = [d \in Deliveries |-> IF row[d].state = "PENDING" /\ row[d].wait > 0
                                        THEN [row[d] EXCEPT !.wait = @ - 1] ELSE row[d]]
        /\ busy' = [w \in Instances |-> IF batch[w] = {} THEN 0 ELSE busy[w] + 1]
        /\ batch' = batch
        /\ overruns' = IF RunsOut THEN overruns + 1 ELSE overruns
    BY DEF Tick
  <1>2. ASSUME NEW w \in Instances, NEW d \in Held(w)
        PROVE  /\ row[d].wait # 1
               /\ row'[d].wait + busy'[w] > Left(w)
    <2>1. /\ d \in Deliveries /\ batch[w] # {}
          /\ row[d].state = "PENDING" /\ row[d].wait > 0 /\ row[d].wait \in Nat
          /\ busy[w] \in Nat /\ busy[w] < HandleTime
      BY <1>1, Times DEF Held, Whole, TypeOK, Task, Calm, Knows
    <2>2. row[d].wait + busy[w] > Left(w) /\ Left(w) \in Nat /\ Left(w) >= HandleTime
      BY <2>1, LeftType DEF Timely
    <2>3. row'[d].wait = row[d].wait - 1 /\ busy'[w] = busy[w] + 1
      BY <2>1, <1>1 DEF Whole, TypeOK
    <2> QED
      BY <2>1, <2>2, <2>3, Times
  <1>3. overruns' = 0
    BY <1>1, <1>2 DEF RunsOut, Timely
  <1>4. \A w \in Instances : Held(w)' = Held(w) /\ Left(w)' = Left(w)
    BY <1>1 DEF Held, Left
  <1> QED
    BY <1>1, <1>2, <1>3, <1>4 DEF Timely

LEMMA TimelyStep ==
  ASSUME LongLease, Whole, Calm, Timely, [Next]_vars
  PROVE  Timely'
  <1>1. ASSUME NEW e \in Events, NEW channels \in SUBSET Channels, Publish(e, channels)
        PROVE  Timely'
    <2>1. row' = Queued(e, channels) /\ UNCHANGED <<batch, busy, overruns>>
      BY <1>1 DEF Publish
    <2>2. \A v \in Instances : \A d \in Held(v) : row'[d] = row[d]
      BY <2>1 DEF Queued, Calm, Knows, Held, Whole, TypeOK, Task
    <2>3. \A v \in Instances :
            IsFiniteSet(batch'[v]) /\ \A d \in Held(v)' : row'[d].wait + busy'[v] > Left(v)'
      BY <2>1, <2>2, TimelyKept
    <2> QED
      BY <2>1, <2>3 DEF Timely
  <1>2. ASSUME UNCHANGED <<row, batch, busy, overruns>> PROVE Timely'
    <2>1. \A v \in Instances :
            IsFiniteSet(batch'[v]) /\ \A d \in Held(v)' : row'[d].wait + busy'[v] > Left(v)'
      BY <1>2, TimelyKept
    <2> QED
      BY <1>2, <2>1 DEF Timely
  <1> QED
    BY <1>1, <1>2, ClaimTimely, LeavesTimely, TickTimely
    DEF Next, Work, Begin, Send, SendFails, AnswerLost, Expire, vars

\* A lease that outlasts a batch never runs out: then all that is said above
\* of the time before it does holds for ever.
THEOREM LongLeaseSuffices == ASSUME LongLease PROVE Spec => [](overruns = 0)
  <1>1. Init => Timely
    BY FS_EmptySet DEF Init, Timely, Held
  <1>2. IInv /\ Timely /\ [Next]_vars => Timely'
    <2> SUFFICES ASSUME IInv, Timely, [Next]_vars PROVE Timely'
      OBVIOUS
    <2> QED
      BY TimelyStep DEF IInv, Timely
  <1>3. Timely => overruns = 0
    BY DEF Timely
  <1> QED
    BY <1>1, <1>2, <1>3, Invariance, PTL DEF Spec
=============================================================================
