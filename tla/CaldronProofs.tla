--------------------------- MODULE CaldronProofs ---------------------------
(***************************************************************************)
(* Theorems about Caldron, for every set of users and workers, every mode  *)
(* and every amount.                                                       *)
(***************************************************************************)
EXTENDS Caldron, AmountsProofs

USE PeopleAssumption, AmountsAssumption

Payer(u) == part[u] \in {"PAID", "REFUNDED"}

\* What the rows say about each other and about the transfers.
Booked ==
  /\ \A u \in Users :
       /\ Payer(u) => contributed[u] > 0 /\ moved["CONTRIBUTION"][u] > 0 /\ hasWallet
       /\ part[u] = "REFUNDED" => moved["REFUND"][u] > 0 /\ state = "CANCELLED"
       /\ moved["PAYOUT"][u] > 0 => u = draw
  /\ state \in {"READY", "SETTLED"} => Complete
  /\ state = "SETTLED" => draw # NoOne /\ moved["PAYOUT"][draw] > 0
  /\ draw # NoOne => draw \in Members /\ Payer(draw)

\* What a worker knows at its next step, whatever the others did meanwhile.
Contributing(w) ==
  job[w].at \in {"lookup", "transfer", "mark"} /\ job[w].kind = "CONTRIBUTION"
Refunding(w) ==
  job[w].at \in {"refund", "transfer", "mark"} /\ job[w].kind = "REFUND"
PayingOut(w) ==
  job[w].at \in {"lookup", "transfer", "mark"} /\ job[w].kind = "PAYOUT"

Knows(w) ==
  /\ job[w].at = "wallet" => job[w].kind = "CONTRIBUTION"
  /\ job[w].at = "refund" => job[w].kind = "REFUND"
  /\ job[w].at = "lookup" => job[w].kind \in {"CONTRIBUTION", "PAYOUT"}
  /\ job[w].at \in {"transfer", "mark"} => job[w].kind \in Kinds
  /\ job[w].at \in {"wallet", "lookup", "transfer", "mark"} =>
       job[w].user \in Users /\ job[w].amount > 0
  /\ Contributing(w) => hasWallet
  /\ Refunding(w) => state = "CANCELLED" /\ \A u \in job[w].todo : Payer(u)
  /\ PayingOut(w) => draw # NoOne /\ job[w].user = draw
  /\ job[w].at = "mark" => moved[job[w].kind][job[w].user] > 0
  /\ job[w].at = "draw" => job[w].user \in Members /\ Payer(job[w].user)
  /\ job[w].at = "settle" => draw # NoOne

Informed == \A w \in Workers : Knows(w)

IInv == TypeOK /\ Booked /\ Informed

\* What no step takes back.  It is why what a worker knew stays true while the
\* others move, although it holds no lock between its steps.
Forward ==
  /\ hasWallet => hasWallet'
  /\ state = "CANCELLED" => state' = "CANCELLED"
  /\ draw # NoOne => draw' = draw
  /\ \A u \in Users : Payer(u) => Payer(u)' /\ (u \in Members => u \in Members')
  /\ \A k \in Kinds, u \in Users : moved[k][u] > 0 => moved'[k][u] > 0

-----------------------------------------------------------------------------
(* The parts every step has in common.                                     *)

\* A worker that does not move still knows what it knew.
LEMMA OthersKnow ==
  ASSUME IInv, Forward, NEW w \in Workers, job'[w] = job[w]
  PROVE  Knows(w)'
<1>1. Knows(w) /\ job[w] \in Job
  BY DEF IInv, Informed, TypeOK
<1> QED
  BY <1>1 DEF Knows, Contributing, Refunding, PayingOut, Forward, Job, Members, Participants

\* A step of worker w alone keeps Informed if w knows what it needs next.
LEMMA OneMoves ==
  ASSUME IInv, Forward, NEW w \in Workers, NEW j \in Job,
         job' = [job EXCEPT ![w] = j], Knows(w)'
  PROVE  Informed' /\ job' \in [Workers -> Job]
<1>1. job \in [Workers -> Job]
  BY DEF IInv, TypeOK
<1>2. \A v \in Workers \ {w} : job'[v] = job[v]
  BY <1>1
<1>3. \A v \in Workers \ {w} : Knows(v)'
  BY <1>2, OthersKnow
<1> QED
  BY <1>1, <1>3 DEF Informed

\* A worker that has nothing to do needs to know nothing.
LEMMA IdleJob == Idle \in Job
  BY DEF Idle, Job

LEMMA InitInv == Init => IInv
<1> SUFFICES ASSUME Init PROVE IInv
  OBVIOUS
<1>1. TypeOK
  BY IdleJob DEF Init, TypeOK, Kinds
<1>2. Booked
  BY DEF Init, Booked, Payer, Complete, Members, Participants, Kinds
<1>3. Informed
  BY DEF Init, Informed, Knows, Idle, Contributing, Refunding, PayingOut
<1> QED
  BY <1>1, <1>2, <1>3 DEF IInv

-----------------------------------------------------------------------------
(* The creator's list.                                                     *)

LEMMA AddParticipantInv ==
  ASSUME IInv, NEW u \in Users, AddParticipant(u)
  PROVE  IInv'
<1>1. TypeOK'
  BY DEF IInv, TypeOK, AddParticipant
<1>2. \A v \in Users : /\ Payer(v) <=> Payer(v)'
                       /\ v \in Members => v \in Members'
                       /\ part'[v] = "REFUNDED" <=> part[v] = "REFUNDED"
  BY DEF IInv, TypeOK, AddParticipant, Payer, Members, Participants
<1>3. Booked'
  BY <1>2 DEF IInv, TypeOK, Booked, Payer, AddParticipant
<1>4. Forward
  BY <1>2 DEF AddParticipant, Forward
<1>5. Informed'
  BY <1>4, OthersKnow DEF Informed, AddParticipant
<1> QED
  BY <1>1, <1>3, <1>5 DEF IInv

LEMMA RemoveParticipantInv ==
  ASSUME IInv, NEW u \in Users, RemoveParticipant(u)
  PROVE  IInv'
<1>1. TypeOK'
  BY DEF IInv, TypeOK, RemoveParticipant
<1>2. \A v \in Users : /\ Payer(v) <=> Payer(v)'
                       /\ v \in Members /\ Payer(v) => v \in Members'
                       /\ part'[v] = "REFUNDED" <=> part[v] = "REFUNDED"
  BY DEF IInv, TypeOK, RemoveParticipant, Payer, Members, Participants
<1>3. Booked'
  BY <1>2 DEF IInv, TypeOK, Booked, Payer, RemoveParticipant
<1>4. Forward
  BY <1>2 DEF RemoveParticipant, Forward
<1>5. Informed'
  BY <1>4, OthersKnow DEF Informed, RemoveParticipant
<1> QED
  BY <1>1, <1>3, <1>5 DEF IInv

-----------------------------------------------------------------------------
(* Steps that change nothing but what a worker is doing.                   *)

LEMMA OnlyJob ==
  ASSUME IInv, UNCHANGED <<state, part, expected, contributed, hasWallet, draw, moved>>,
         NEW w \in Workers, NEW j \in Job, job' = [job EXCEPT ![w] = j], Knows(w)'
  PROVE  IInv'
<1>1. Forward
  BY DEF Forward, Payer, Members, Participants
<1>2. Booked'
  BY DEF IInv, Booked, Payer, Complete, Members, Participants
<1>3. Informed' /\ job' \in [Workers -> Job]
  BY <1>1, OneMoves
<1> QED
  BY <1>2, <1>3 DEF IInv, TypeOK

LEMMA AbortInv ==
  ASSUME IInv, NEW w \in Workers, Abort(w)
  PROVE  IInv'
<1>1. job' = [job EXCEPT ![w] = Idle] /\ job'[w] = Idle
  BY DEF Abort, Ends, IInv, TypeOK
<1>2. Knows(w)'
  BY <1>1 DEF Idle, Knows, Contributing, Refunding, PayingOut
<1> QED
  BY <1>1, <1>2, IdleJob, OnlyJob DEF Abort

\* Goes changes one field of one record.
LEMMA GoesOn ==
  ASSUME IInv, NEW w \in Workers, NEW at, Goes(w, at),
         at \in {"idle", "wallet", "lookup", "transfer", "mark", "refund", "draw", "settle"}
  PROVE  LET j == [job[w] EXCEPT !.at = at] IN
         /\ j \in Job /\ job' = [job EXCEPT ![w] = j] /\ job'[w] = j
         /\ job'[w].at = at /\ job'[w].kind = job[w].kind /\ job'[w].user = job[w].user
         /\ job'[w].amount = job[w].amount /\ job'[w].todo = job[w].todo
<1>1. job \in [Workers -> Job] /\ job[w] \in Job
  BY DEF IInv, TypeOK
<1> QED
  BY <1>1 DEF Goes, Job

LEMMA FindKeyInv ==
  ASSUME IInv, NEW w \in Workers, FindKey(w)
  PROVE  IInv'
<1> DEFINE at == IF KeyTaken(job[w].kind, job[w].user) THEN "mark" ELSE "transfer"
<1>1. /\ Goes(w, at) /\ at \in {"mark", "transfer"}
      /\ job[w].at = "lookup" /\ Knows(w)
  BY DEF FindKey, IInv, Informed
<1>2. at = "mark" => moved[job[w].kind][job[w].user] > 0
  BY <1>1 DEF KeyTaken, Knows, PayingOut, IInv, Booked
<1>3. LET j == [job[w] EXCEPT !.at = at] IN
      /\ j \in Job /\ job' = [job EXCEPT ![w] = j] /\ job'[w] = j
      /\ job'[w].at = at /\ job'[w].kind = job[w].kind /\ job'[w].user = job[w].user
      /\ job'[w].amount = job[w].amount /\ job'[w].todo = job[w].todo
  BY <1>1, GoesOn
<1>4. Knows(w)'
  BY <1>1, <1>2, <1>3 DEF FindKey, Knows, Contributing, Refunding, PayingOut, Kinds
<1> QED
  BY <1>3, <1>4, OnlyJob DEF FindKey

LEMMA StartContributionInv ==
  ASSUME IInv, NEW w \in Workers, NEW u \in Users, StartContribution(w, u)
  PROVE  IInv'
<1>1. PICK a \in Asked(u) :
        job' = [job EXCEPT ![w] = [Idle EXCEPT !.at = "wallet", !.kind = "CONTRIBUTION",
                                               !.user = u, !.amount = a]]
  BY DEF StartContribution
<1>2. a \in Nat /\ a > 0
  BY DEF Asked, IInv, TypeOK
<1> DEFINE j == [Idle EXCEPT !.at = "wallet", !.kind = "CONTRIBUTION", !.user = u, !.amount = a]
<1>3. j \in Job /\ job'[w] = j
  BY <1>1, <1>2 DEF Idle, Job, Kinds, IInv, TypeOK
<1>4. Knows(w)'
  BY <1>2, <1>3 DEF Idle, Knows, Contributing, Refunding, PayingOut
<1> QED
  BY <1>1, <1>3, <1>4, OnlyJob DEF StartContribution

\* The job Refund makes: the participants to refund are known, and the caldron
\* is cancelled.
LEMMA RefundJob ==
  ASSUME NEW todo \in SUBSET Users
  PROVE  /\ Refund(todo) \in Job /\ Refund(todo).todo \subseteq todo
         /\ Refund(todo).at \in {"idle", "refund"}
         /\ Refund(todo).at = "refund" => Refund(todo).kind = "REFUND"
  BY IdleJob DEF Refund, Idle, Job, Kinds

LEMMA RefundKnows ==
  ASSUME TypeOK, NEW w \in Workers, NEW todo \in SUBSET Users,
         job' = [job EXCEPT ![w] = Refund(todo)],
         state' = "CANCELLED", \A u \in todo : Payer(u)'
  PROVE  Knows(w)'
<1>1. job'[w] = Refund(todo)
  BY DEF TypeOK
<1> QED
  BY <1>1, RefundJob DEF Knows, Contributing, Refunding, PayingOut

LEMMA RefundPendingInv ==
  ASSUME IInv, NEW w \in Workers, RefundPending(w)
  PROVE  IInv'
<1>1. /\ In("PAID") \in SUBSET Users /\ \A u \in In("PAID") : Payer(u)'
      /\ state' = "CANCELLED" /\ job' = [job EXCEPT ![w] = Refund(In("PAID"))]
  BY DEF RefundPending, In, Payer
<1> QED
  BY <1>1, RefundJob, RefundKnows, OnlyJob DEF RefundPending, IInv

LEMMA SkipRefundInv ==
  ASSUME IInv, NEW w \in Workers, SkipRefund(w)
  PROVE  IInv'
<1>1. Knows(w) /\ job[w] \in Job
  BY DEF IInv, TypeOK, Informed
<1>2. /\ job[w].todo \in SUBSET Users /\ \A u \in job[w].todo : Payer(u)'
      /\ state' = "CANCELLED" /\ job' = [job EXCEPT ![w] = Refund(job[w].todo)]
  BY <1>1 DEF SkipRefund, Knows, Refunding, Payer, Job
<1> QED
  BY <1>2, RefundJob, RefundKnows, OnlyJob DEF SkipRefund, IInv

LEMMA RefundNextInv ==
  ASSUME IInv, NEW w \in Workers, NEW u \in Users, RefundNext(w, u)
  PROVE  IInv'
<1> DEFINE at == IF KeyTaken("REFUND", u) THEN "mark" ELSE "transfer"
           j  == [job[w] EXCEPT !.at = at, !.user = u, !.amount = contributed[u],
                                !.todo = @ \ {u}]
<1>1. /\ job \in [Workers -> Job] /\ job[w] \in Job /\ Knows(w) /\ contributed[u] \in Nat
      /\ job[w].at = "refund" /\ u \in job[w].todo
  BY DEF IInv, TypeOK, Informed, RefundNext
<1>2. job' = [job EXCEPT ![w] = j]
  BY <1>1 DEF RefundNext, Job
<1>3. /\ j \in Job /\ job'[w] = j /\ j.kind = "REFUND" /\ j.at = at /\ j.user = u
      /\ j.amount = contributed[u] /\ j.todo \subseteq job[w].todo
  BY <1>1, <1>2 DEF Job, Knows
<1>4. /\ state = "CANCELLED" /\ contributed[u] > 0
      /\ \A v \in job[w].todo : Payer(v)'
  BY <1>1 DEF Knows, Refunding, IInv, Booked, RefundNext, Payer, Job
<1>5. at = "mark" => moved["REFUND"][u] > 0
  BY DEF KeyTaken
<1>6. Knows(w)'
  BY <1>1, <1>3, <1>4, <1>5
  DEF RefundNext, Knows, Contributing, Refunding, PayingOut, Kinds
<1> QED
  BY <1>2, <1>3, <1>6, OnlyJob DEF RefundNext

LEMMA DrawInv ==
  ASSUME IInv, NEW w \in Workers, NEW u \in Users, Draw(w, u)
  PROVE  IInv'
<1> DEFINE j == [Idle EXCEPT !.at = "draw", !.user = u]
<1>1. j \in Job /\ job' = [job EXCEPT ![w] = j] /\ job'[w] = j
  BY DEF Draw, Idle, Job, IInv, TypeOK
<1>2. u \in Members' /\ part'[u] = "PAID"
  BY DEF Draw, IInv, Booked, Complete, Members, Participants
<1>3. job'[w].at = "draw" /\ job'[w].user = u
  BY <1>1 DEF Idle
<1>4. Knows(w)'
  BY <1>2, <1>3 DEF Knows, Contributing, Refunding, PayingOut, Payer
<1> QED
  BY <1>1, <1>4, OnlyJob DEF Draw

LEMMA SettleInv ==
  ASSUME IInv, NEW w \in Workers, Settle(w)
  PROVE  IInv'
<1> DEFINE j == [Idle EXCEPT !.at = "lookup", !.kind = "PAYOUT", !.user = draw,
                             !.amount = Collected]
<1>1. Collected \in Nat /\ Collected > 0 /\ draw # NoOne /\ draw \in Users
  <2>1. In("PAID") \subseteq Users /\ IsFiniteSet(In("PAID"))
    BY FS_Subset DEF In
  <2> QED
    BY <2>1, TotalIsNat DEF Collected, Settle, IInv, TypeOK
<1>2. j \in Job /\ job' = [job EXCEPT ![w] = j] /\ job'[w] = j
  BY <1>1 DEF Settle, Idle, Job, Kinds, IInv, TypeOK
<1>3. Knows(w)'
  BY <1>1, <1>2 DEF Settle, Idle, Knows, Contributing, Refunding, PayingOut
<1> QED
  BY <1>2, <1>3, OnlyJob DEF Settle

-----------------------------------------------------------------------------
(* Steps that change the caldron, the wallet or the draw.                  *)

LEMMA OpenWalletInv ==
  ASSUME IInv, NEW w \in Workers, OpenWallet(w)
  PROVE  IInv'
<1>1. LET j == [job[w] EXCEPT !.at = "lookup"] IN
      /\ j \in Job /\ job' = [job EXCEPT ![w] = j] /\ job'[w] = j
      /\ job'[w].at = "lookup" /\ job'[w].kind = job[w].kind /\ job'[w].user = job[w].user
      /\ job'[w].amount = job[w].amount /\ job'[w].todo = job[w].todo
  BY GoesOn DEF OpenWallet
<1>2. Knows(w)'
  BY <1>1 DEF OpenWallet, IInv, Informed, Knows, Contributing, Refunding, PayingOut
<1>3. Forward
  BY DEF OpenWallet, Forward, Payer, Members, Participants
<1>4. Booked'
  BY DEF OpenWallet, IInv, Booked, Payer, Complete, Members, Participants
<1>5. Informed' /\ job' \in [Workers -> Job]
  BY <1>1, <1>2, <1>3, OneMoves
<1> QED
  BY <1>4, <1>5 DEF IInv, TypeOK, OpenWallet

LEMMA TransferInv ==
  ASSUME IInv, NEW w \in Workers, Transfer(w)
  PROVE  IInv'
<1> DEFINE k == job[w].kind
           u == job[w].user
<1>1. /\ k \in Kinds /\ u \in Users /\ job[w].amount \in Nat /\ job[w].amount > 0
      /\ Knows(w) /\ job[w].at = "transfer"
      /\ moved \in [Kinds -> [Users -> Nat]]
      /\ moved' = [moved EXCEPT ![k][u] = @ + job[w].amount]
  BY DEF Transfer, IInv, TypeOK, Informed, Knows, Job
<1>2. /\ moved' \in [Kinds -> [Users -> Nat]]
      /\ moved'[k][u] > 0
      /\ \A l \in Kinds, v \in Users :
           (l # k \/ v # u) => moved'[l][v] = moved[l][v]
  BY <1>1
<1>3. Forward
  BY <1>1, <1>2 DEF Transfer, Forward, Payer, Members, Participants
<1>4. LET j == [job[w] EXCEPT !.at = "mark"] IN
      /\ j \in Job /\ job' = [job EXCEPT ![w] = j] /\ job'[w] = j
      /\ job'[w].at = "mark" /\ job'[w].kind = k /\ job'[w].user = u
      /\ job'[w].amount = job[w].amount /\ job'[w].todo = job[w].todo
  BY GoesOn DEF Transfer
<1>5. Knows(w)'
  <2>1. \A v \in job[w].todo : v \in Users
    BY DEF IInv, TypeOK, Job
  <2> QED
    BY <1>1, <1>2, <1>4, <2>1
    DEF Transfer, Knows, Contributing, Refunding, PayingOut, Payer
<1>6. Booked'
  <2>1. \A v \in Users : moved'["PAYOUT"][v] > 0 => v = draw
    BY <1>1, <1>2 DEF Knows, PayingOut, IInv, Booked, Kinds
  <2>2. /\ \A v \in Users : /\ moved["CONTRIBUTION"][v] > 0 => moved'["CONTRIBUTION"][v] > 0
                            /\ moved["REFUND"][v] > 0 => moved'["REFUND"][v] > 0
                            /\ moved["PAYOUT"][v] > 0 => moved'["PAYOUT"][v] > 0
    BY <1>3 DEF Forward, Kinds
  <2>3. draw \in Users \cup {NoOne}
    BY DEF IInv, TypeOK
  <2> QED
    BY <2>1, <2>2, <2>3
    DEF Transfer, IInv, Booked, Payer, Complete, Members, Participants
<1>7. Informed' /\ job' \in [Workers -> Job]
  BY <1>3, <1>4, <1>5, OneMoves
<1> QED
  BY <1>2, <1>6, <1>7 DEF IInv, TypeOK, Transfer

LEMMA MarkPaidInv ==
  ASSUME IInv, NEW w \in Workers, MarkPaid(w)
  PROVE  IInv'
<1> DEFINE u == job[w].user
<1>1. /\ u \in Users /\ job[w].amount \in Nat /\ job[w].amount > 0
      /\ hasWallet /\ moved["CONTRIBUTION"][u] > 0
  BY DEF MarkPaid, IInv, TypeOK, Informed, Knows, Contributing, Job, Kinds
<1>2. job' = [job EXCEPT ![w] = Idle] /\ job'[w] = Idle
  BY DEF MarkPaid, Ends, IInv, TypeOK
<1>3. /\ part' \in [Users -> {"NONE", "INVITED", "PAID", "REFUNDED"}]
      /\ contributed' \in [Users -> Nat]
      /\ \A v \in Users :
           \/ part'[v] = part[v] /\ contributed'[v] = contributed[v]
           \/ /\ v = u /\ part[v] = "INVITED" /\ part'[v] = "PAID"
              /\ contributed'[v] = job[w].amount
  BY <1>1 DEF MarkPaid, IInv, TypeOK
<1>4. Members' = Members
  BY <1>3 DEF Members, Participants
<1>5. /\ state' = state \/ (state = "PREPARING" /\ state' = "READY")
      /\ UNCHANGED <<expected, hasWallet, draw, moved>>
  BY DEF MarkPaid
<1>6. state' \in {"READY", "SETTLED"} => Complete'
  <2>1. \A v \in Members : v \in Users
    BY DEF Members, Participants
  <2>2. Complete => Complete'
    BY <1>3, <1>4, <2>1 DEF Complete
  <2> QED
    BY <2>2 DEF MarkPaid, IInv, Booked
<1>7. Booked'
  BY <1>1, <1>3, <1>4, <1>5, <1>6 DEF IInv, TypeOK, Booked, Payer, Complete
<1>8. Forward
  BY <1>3, <1>4, <1>5 DEF Forward, Payer
<1>9. Knows(w)'
  BY <1>2 DEF Idle, Knows, Contributing, Refunding, PayingOut
<1>10. Informed' /\ job' \in [Workers -> Job]
  BY <1>2, <1>8, <1>9, IdleJob, OneMoves
<1> QED
  BY <1>3, <1>5, <1>7, <1>10 DEF IInv, TypeOK

LEMMA CancelInv ==
  ASSUME IInv, NEW w \in Workers, Cancel(w)
  PROVE  IInv'
<1>1. /\ In("PAID") \in SUBSET Users /\ \A u \in In("PAID") : Payer(u)'
      /\ state' = "CANCELLED" /\ job' = [job EXCEPT ![w] = Refund(In("PAID"))]
  BY DEF Cancel, In, Payer
<1>2. Knows(w)'
  BY <1>1, RefundKnows DEF IInv
<1>3. Forward
  BY <1>1 DEF Cancel, Forward, Payer, Members, Participants
<1>4. Booked'
  BY <1>1 DEF Cancel, IInv, Booked, Payer, Members, Participants
<1>5. Informed' /\ job' \in [Workers -> Job]
  BY <1>1, <1>2, <1>3, RefundJob, OneMoves
<1> QED
  BY <1>1, <1>4, <1>5 DEF Cancel, IInv, TypeOK

LEMMA MarkRefundedInv ==
  ASSUME IInv, NEW w \in Workers, MarkRefunded(w)
  PROVE  IInv'
<1> DEFINE u == job[w].user
<1>0. job[w].todo \in SUBSET Users /\ \A v \in job[w].todo : Payer(v)
  BY DEF MarkRefunded, IInv, TypeOK, Informed, Knows, Refunding, Job
<1>1. u \in Users /\ state = "CANCELLED" /\ moved["REFUND"][u] > 0
  BY DEF MarkRefunded, IInv, TypeOK, Informed, Knows, Refunding, Job
<1>2. /\ part' \in [Users -> {"NONE", "INVITED", "PAID", "REFUNDED"}]
      /\ \A v \in Users :
           \/ part'[v] = part[v]
           \/ v = u /\ part[v] = "PAID" /\ part'[v] = "REFUNDED"
  BY <1>1 DEF MarkRefunded, IInv, TypeOK
<1>3. /\ \A v \in Users : part'[v] \in {"PAID", "REFUNDED"} <=> part[v] \in {"PAID", "REFUNDED"}
      /\ Members' = Members
  BY <1>2 DEF Members, Participants
<1>4. UNCHANGED <<state, expected, contributed, hasWallet, draw, moved>>
  BY DEF MarkRefunded
<1>5. Booked'
  BY <1>1, <1>2, <1>3, <1>4 DEF IInv, TypeOK, Booked, Payer
<1>6. Forward
  BY <1>3, <1>4 DEF Forward, Payer
<1>7. job' = [job EXCEPT ![w] = Refund(job[w].todo)]
  BY DEF MarkRefunded
<1>8. \A v \in job[w].todo : Payer(v)'
  BY <1>0, <1>3 DEF Payer
<1>9. Knows(w)'
  BY <1>0, <1>1, <1>4, <1>7, <1>8, RefundKnows DEF IInv
<1>10. Informed' /\ job' \in [Workers -> Job]
  BY <1>0, <1>6, <1>7, <1>9, RefundJob, OneMoves
<1> QED
  BY <1>2, <1>4, <1>5, <1>10 DEF IInv, TypeOK

LEMMA SaveDrawInv ==
  ASSUME IInv, NEW w \in Workers, SaveDraw(w)
  PROVE  IInv'
<1>1. /\ draw' = IF draw = NoOne THEN job[w].user ELSE draw
      /\ UNCHANGED <<state, part, expected, contributed, hasWallet, moved>>
      /\ Members' = Members
  BY DEF SaveDraw, Members, Participants
<1>2. job[w].user \in Members /\ Payer(job[w].user) /\ job[w].user \in Users
  BY DEF SaveDraw, IInv, Informed, Knows, Members, Participants
<1>3. draw' # NoOne /\ draw' \in Members /\ part[draw'] \in {"PAID", "REFUNDED"}
  BY <1>1, <1>2 DEF IInv, Booked, Payer
<1>4. LET j == [job[w] EXCEPT !.at = "settle"] IN
      /\ j \in Job /\ job' = [job EXCEPT ![w] = j] /\ job'[w] = j
      /\ job'[w].at = "settle" /\ job'[w].kind = job[w].kind /\ job'[w].user = job[w].user
      /\ job'[w].amount = job[w].amount /\ job'[w].todo = job[w].todo
  BY GoesOn DEF SaveDraw
<1>5. Knows(w)'
  BY <1>3, <1>4 DEF Knows, Contributing, Refunding, PayingOut
<1>6. Forward
  BY <1>1 DEF Forward, Payer
<1>7. Booked'
  BY <1>1, <1>3 DEF IInv, Booked, Payer, Complete
<1>8. Informed' /\ job' \in [Workers -> Job]
  BY <1>4, <1>5, <1>6, OneMoves
<1>9. draw' \in Users
  BY <1>1, <1>2 DEF IInv, TypeOK
<1> QED
  BY <1>1, <1>7, <1>8, <1>9 DEF IInv, TypeOK

LEMMA MarkSettledInv ==
  ASSUME IInv, NEW w \in Workers, MarkSettled(w)
  PROVE  IInv'
<1>1. draw # NoOne /\ moved["PAYOUT"][draw] > 0
  BY DEF MarkSettled, IInv, Informed, Knows, PayingOut
<1>2. job' = [job EXCEPT ![w] = Idle] /\ job'[w] = Idle
  BY DEF MarkSettled, Ends, IInv, TypeOK
<1>3. Knows(w)'
  BY <1>2 DEF Idle, Knows, Contributing, Refunding, PayingOut
<1>4. Forward
  BY DEF MarkSettled, Forward, Payer, Members, Participants
<1>5. Booked'
  BY <1>1 DEF MarkSettled, IInv, Booked, Payer, Complete, Members, Participants
<1>6. Informed' /\ job' \in [Workers -> Job]
  BY <1>2, <1>3, <1>4, IdleJob, OneMoves
<1> QED
  BY <1>5, <1>6 DEF MarkSettled, IInv, TypeOK

-----------------------------------------------------------------------------
(* The theorems.                                                           *)

LEMMA NextInv == IInv /\ [Next]_vars => IInv'
<1> SUFFICES ASSUME IInv, [Next]_vars PROVE IInv'
  OBVIOUS
<1>1. ASSUME NEW u \in Users, AddParticipant(u) \/ RemoveParticipant(u)
      PROVE  IInv'
  BY <1>1, AddParticipantInv, RemoveParticipantInv
<1>2. ASSUME NEW w \in Workers, NEW u \in Users,
             StartContribution(w, u) \/ RefundNext(w, u) \/ Draw(w, u)
      PROVE  IInv'
  BY <1>2, StartContributionInv, RefundNextInv, DrawInv
<1>3. ASSUME NEW w \in Workers, \/ OpenWallet(w) \/ FindKey(w) \/ Transfer(w) \/ Abort(w)
                                \/ MarkPaid(w) \/ MarkRefunded(w) \/ MarkSettled(w)
      PROVE  IInv'
  BY <1>3, OpenWalletInv, FindKeyInv, TransferInv, AbortInv,
     MarkPaidInv, MarkRefundedInv, MarkSettledInv
<1>4. ASSUME NEW w \in Workers, \/ Cancel(w) \/ RefundPending(w) \/ SkipRefund(w)
                                \/ SaveDraw(w) \/ Settle(w)
      PROVE  IInv'
  BY <1>4, CancelInv, RefundPendingInv, SkipRefundInv, SaveDrawInv, SettleInv
<1>5. CASE UNCHANGED vars
  BY <1>5 DEF vars, IInv, TypeOK, Booked, Informed, Knows, Payer, Contributing, Refunding,
              PayingOut, Complete, Members, Participants
<1> QED
  BY <1>1, <1>2, <1>3, <1>4, <1>5 DEF Next

\* The inductive invariant holds whatever the creator, the participants, the
\* refund task and the failures do.
THEOREM Invariance == Spec => []IInv
  BY InitInv, NextInv, PTL DEF Spec

\* Every variable keeps its type.
THEOREM TypeCorrect == Spec => []TypeOK
<1>1. IInv => TypeOK
  BY DEF IInv
<1> QED
  BY <1>1, Invariance, PTL

\* PAID, REFUNDED and SETTLED are only ever written after the wallet has moved
\* the money they stand for.
THEOREM RecordsRestOnTransfers == Spec => []BooksFollowMoney
<1>1. IInv => BooksFollowMoney
  BY DEF IInv, Booked, Payer, BooksFollowMoney
<1> QED
  BY <1>1, Invariance, PTL

\* Only payers are drawn, and only the winner is paid.
THEOREM PayersAreDrawn == Spec => []DrawnAmongPayers
<1>1. IInv => DrawnAmongPayers
  BY DEF IInv, Booked, Payer, DrawnAmongPayers
<1> QED
  BY <1>1, Invariance, PTL

\* No step takes back an end, a winner or a payment.
Kept ==
  /\ state \in {"SETTLED", "CANCELLED"} => state' = state
  /\ draw # NoOne => draw' = draw
  /\ \A u \in Users :
       /\ part[u] = "PAID" => part'[u] = "PAID" \/ (part'[u] = "REFUNDED" /\ state = "CANCELLED")
       /\ part[u] = "REFUNDED" => part'[u] = "REFUNDED"

LEMMA StepKeepsEnds == IInv /\ [Next]_vars => [Kept]_vars
<1> SUFFICES ASSUME IInv, Next PROVE Kept
  OBVIOUS
<1>1. ASSUME NEW u \in Users, AddParticipant(u) \/ RemoveParticipant(u)
      PROVE  Kept
  BY <1>1 DEF AddParticipant, RemoveParticipant, IInv, TypeOK, Kept
<1>2. ASSUME NEW w \in Workers, MarkPaid(w)
      PROVE  Kept
  BY <1>2 DEF MarkPaid, IInv, TypeOK, Kept
<1>3. ASSUME NEW w \in Workers, MarkRefunded(w)
      PROVE  Kept
  <2>1. state = "CANCELLED" /\ state' = state /\ draw' = draw
    BY <1>3 DEF MarkRefunded, IInv, Informed, Knows, Refunding
  <2> QED
    BY <1>3, <2>1 DEF MarkRefunded, IInv, TypeOK, Kept
<1>4. ASSUME NEW w \in Workers, Cancel(w) \/ MarkSettled(w) \/ SaveDraw(w)
      PROVE  Kept
  BY <1>4 DEF Cancel, MarkSettled, SaveDraw, Kept
<1>5. ASSUME NEW w \in Workers, NEW u \in Users,
             StartContribution(w, u) \/ RefundNext(w, u) \/ Draw(w, u)
      PROVE  Kept
  BY <1>5 DEF StartContribution, RefundNext, Draw, Kept
<1>6. ASSUME NEW w \in Workers, OpenWallet(w) \/ FindKey(w) \/ Transfer(w) \/ Abort(w)
      PROVE  Kept
  BY <1>6 DEF OpenWallet, FindKey, Transfer, Abort, Kept
<1>7. ASSUME NEW w \in Workers, RefundPending(w) \/ SkipRefund(w) \/ Settle(w)
      PROVE  Kept
  BY <1>7 DEF RefundPending, SkipRefund, Settle, Kept
<1> QED
  BY <1>1, <1>2, <1>3, <1>4, <1>5, <1>6, <1>7 DEF Next

\* A caldron that ended stays ended, a winner stays the winner, and a payer
\* stays on the list until a cancelled caldron refunds him.
THEOREM NothingIsTakenBack == Spec => EndsAreFinal
<1>1. Spec => [][Kept]_vars
  BY StepKeepsEnds, Invariance, PTL DEF Spec
<1> QED
  BY <1>1 DEF Kept, EndsAreFinal

-----------------------------------------------------------------------------
(* Where everyone pays the same, the pot holds what the list reports.      *)

\* Beyond IInv: a contribution is the one amount there is, the wallet moved it
\* at least once for whoever is recorded to have paid, and refunds wait for
\* the cancellation.
Charged ==
  /\ \A u \in Users : /\ moved["CONTRIBUTION"][u] > 0 =>
                           \A a \in Contributions : a <= moved["CONTRIBUTION"][u]
                      /\ contributed[u] > 0 => contributed[u] \in Contributions
                      /\ moved["REFUND"][u] > 0 => state = "CANCELLED"
  /\ \A w \in Workers : job[w].kind = "CONTRIBUTION" => job[w].amount \in Contributions

\* A step that charges nobody only needs its worker to ask for a right amount.
LEMMA ChargedJob ==
  ASSUME TypeOK, Charged, moved' = moved, contributed' = contributed,
         state' = state \/ state # "CANCELLED",
         NEW w \in Workers, NEW j, job' = [job EXCEPT ![w] = j],
         j.kind = "CONTRIBUTION" => j.amount \in Contributions
  PROVE  Charged'
<1>1. \A v \in Workers : job'[v] = IF v = w THEN j ELSE job[v]
  BY DEF TypeOK
<1> QED
  BY <1>1 DEF Charged

LEMMA ChargedStep ==
  ASSUME Mode = "FIXED", IInv, IInv', Charged, [Next]_vars
  PROVE  Charged'
<1>1. ASSUME NEW w \in Workers, Transfer(w)
      PROVE  Charged'
  <2>1. /\ job[w].kind \in Kinds /\ job[w].user \in Users /\ job[w].amount \in Nat
        /\ job[w].amount > 0 /\ moved \in [Kinds -> [Users -> Nat]]
        /\ job \in [Workers -> Job]
        /\ job[w].kind = "REFUND" => state = "CANCELLED"
    BY <1>1 DEF Transfer, IInv, TypeOK, Informed, Knows, Refunding, Job
  <2>2. moved' = [moved EXCEPT ![job[w].kind][job[w].user] = @ + job[w].amount]
    BY <1>1 DEF Transfer
  <2>3. ASSUME NEW u \in Users, moved'["CONTRIBUTION"][u] > 0, NEW a \in Contributions
        PROVE  a <= moved'["CONTRIBUTION"][u]
    <3>1. a \in Nat /\ moved["CONTRIBUTION"][u] \in Nat
      BY <2>1 DEF Kinds
    <3>2. CASE job[w].kind = "CONTRIBUTION" /\ u = job[w].user
      BY <2>1, <2>2, <3>1, <3>2 DEF Charged
    <3>3. CASE ~(job[w].kind = "CONTRIBUTION" /\ u = job[w].user)
      BY <2>1, <2>2, <2>3, <3>3 DEF Charged, Kinds
    <3> QED
      BY <3>2, <3>3
  <2>4. ASSUME NEW u \in Users, moved'["REFUND"][u] > 0
        PROVE  state = "CANCELLED"
    BY <2>1, <2>2, <2>4 DEF Charged, Kinds
  <2>5. \A v \in Workers : job'[v].kind = job[v].kind /\ job'[v].amount = job[v].amount
    BY <1>1, <2>1 DEF Transfer, Goes, Job
  <2> QED
    BY <1>1, <2>3, <2>4, <2>5 DEF Transfer, Charged
<1>2. ASSUME NEW w \in Workers, NEW u \in Users, StartContribution(w, u)
      PROVE  Charged'
  <2>1. PICK a \in Contributions :
          job' = [job EXCEPT ![w] = [Idle EXCEPT !.at = "wallet", !.kind = "CONTRIBUTION",
                                                 !.user = u, !.amount = a]]
    BY <1>2 DEF StartContribution, Asked
  <2> DEFINE j == [Idle EXCEPT !.at = "wallet", !.kind = "CONTRIBUTION",
                               !.user = u, !.amount = a]
  <2>2. j.amount \in Contributions /\ job' = [job EXCEPT ![w] = j]
    BY <2>1 DEF Idle
  <2>3. moved' = moved /\ contributed' = contributed /\ state' = state /\ TypeOK
    BY <1>2 DEF StartContribution, IInv
  <2> HIDE DEF j
  <2> QED
    BY <2>2, <2>3, ChargedJob
<1>3. ASSUME NEW w \in Workers, NEW u \in Users, RefundNext(w, u)
      PROVE  Charged'
  <2> DEFINE j == [job[w] EXCEPT !.at = IF KeyTaken("REFUND", u) THEN "mark" ELSE "transfer",
                                 !.user = u, !.amount = contributed[u], !.todo = @ \ {u}]
  <2>1. job[w] \in Job /\ job[w].kind = "REFUND"
    BY <1>3 DEF RefundNext, IInv, TypeOK, Informed, Knows
  <2>2. job' = [job EXCEPT ![w] = j] /\ j.kind = "REFUND"
    BY <1>3, <2>1 DEF RefundNext, IInv, TypeOK, Job
  <2> QED
    BY <1>3, <2>2, ChargedJob DEF RefundNext, IInv
<1>4. ASSUME NEW w \in Workers, NEW u \in Users, Draw(w, u)
      PROVE  Charged'
  BY <1>4, ChargedJob DEF Draw, Idle, IInv
<1>5. ASSUME NEW w \in Workers, OpenWallet(w) \/ FindKey(w) \/ SaveDraw(w)
      PROVE  Charged'
  <2>1. PICK at \in {"lookup", "mark", "transfer", "settle"} : Goes(w, at)
    BY <1>5 DEF OpenWallet, FindKey, SaveDraw
  <2> DEFINE j == [job[w] EXCEPT !.at = at]
  <2>2. /\ job' = [job EXCEPT ![w] = j]
        /\ j.kind = "CONTRIBUTION" => j.amount \in Contributions
    BY <2>1 DEF Goes, Charged, IInv, TypeOK, Job
  <2>3. moved' = moved /\ contributed' = contributed /\ state' = state
    BY <1>5 DEF OpenWallet, FindKey, SaveDraw
  <2> QED
    BY <2>2, <2>3, ChargedJob DEF IInv
<1>6. ASSUME NEW w \in Workers, Abort(w) \/ MarkSettled(w)
       PROVE  Charged'
  BY <1>6, ChargedJob DEF Abort, MarkSettled, Ends, Idle, IInv
<1>7. ASSUME NEW w \in Workers, Settle(w)
       PROVE  Charged'
  BY <1>7, ChargedJob DEF Settle, Idle, IInv
<1>8. ASSUME NEW w \in Workers, MarkPaid(w)
      PROVE  Charged'
  BY <1>8 DEF MarkPaid, Ends, Idle, Charged, IInv, TypeOK
<1>9. ASSUME NEW w \in Workers,
             Cancel(w) \/ RefundPending(w) \/ SkipRefund(w) \/ MarkRefunded(w)
      PROVE  Charged'
  <2>1. \A todo : Refund(todo).kind # "CONTRIBUTION"
    BY DEF Refund, Idle
  <2>2. \E todo : job' = [job EXCEPT ![w] = Refund(todo)]
    BY <1>9 DEF Cancel, RefundPending, SkipRefund, MarkRefunded
  <2>3. moved' = moved /\ contributed' = contributed /\ (state' = state \/ state # "CANCELLED")
    BY <1>9 DEF Cancel, RefundPending, SkipRefund, MarkRefunded
  <2> QED
    BY <2>1, <2>2, <2>3, ChargedJob DEF IInv
<1>10. ASSUME NEW u \in Users, AddParticipant(u) \/ RemoveParticipant(u)
      PROVE  Charged'
  BY <1>10 DEF AddParticipant, RemoveParticipant, Charged
<1>11. CASE UNCHANGED vars
  BY <1>11 DEF vars, Charged
<1> QED
  BY <1>1, <1>2, <1>3, <1>4, <1>5, <1>6, <1>7, <1>8, <1>9, <1>10, <1>11 DEF Next

LEMMA ChargedCovers ==
  ASSUME Mode = "FIXED", IInv, Charged
  PROVE  CollectedIsThere
<1> SUFFICES ASSUME state \in {"PREPARING", "READY"}, ~PaidOut
             PROVE  Collected <= Pot
  BY DEF CollectedIsThere
<1>1. /\ IsFiniteSet(Users) /\ In("PAID") \in SUBSET Users /\ IsFiniteSet(In("PAID"))
      /\ moved \in [Kinds -> [Users -> Nat]] /\ contributed \in [Users -> Nat]
  BY FS_Subset DEF In, IInv, TypeOK
<1>2. \A u \in Users : /\ moved["CONTRIBUTION"][u] \in Nat /\ contributed[u] \in Nat
                       /\ moved["REFUND"][u] = 0 /\ moved["PAYOUT"][u] = 0
  BY <1>1 DEF Kinds, Charged, PaidOut
<1>3. Total(Users, moved["REFUND"]) = 0 /\ Total(Users, moved["PAYOUT"]) = 0
  BY <1>2, TotalOfNothing
<1>4. Total(In("PAID"), contributed) <= Total(In("PAID"), moved["CONTRIBUTION"])
  <2>1. \A u \in In("PAID") : contributed[u] <= moved["CONTRIBUTION"][u]
    BY DEF In, IInv, Booked, Payer, Charged
  <2> QED
    BY <1>1, <1>2, <2>1, TotalAtMost
<1>5. Total(In("PAID"), moved["CONTRIBUTION"]) <= Total(Users, moved["CONTRIBUTION"])
  BY <1>1, <1>2, TotalSubset
<1>6. /\ Total(In("PAID"), contributed) \in Nat
      /\ Total(In("PAID"), moved["CONTRIBUTION"]) \in Nat
      /\ Total(Users, moved["CONTRIBUTION"]) \in Nat
  BY <1>1, <1>2, TotalIsNat
<1> QED
  BY <1>3, <1>4, <1>5, <1>6 DEF Collected, Pot

\* What a caldron of mode FIXED reports as collected is in its wallet until
\* the prize or a refund leaves it, however often calls were cut short and
\* repeated.
THEOREM CollectedCovered ==
  ASSUME Mode = "FIXED"
  PROVE  Spec => []CollectedIsThere
<1>1. Init => Charged
  BY DEF Init, Charged, Idle, Kinds
<1>2. IInv /\ IInv' /\ Charged /\ [Next]_vars => Charged'
  BY ChargedStep
<1>3. IInv /\ Charged => CollectedIsThere
  BY ChargedCovers
<1> QED
  BY <1>1, <1>2, <1>3, Invariance, PTL DEF Spec
-----------------------------------------------------------------------------
(* The winner of a caldron where everyone is waited for gets all of it.    *)

\* Beyond IInv: nothing is drawn or handed over before the last contribution,
\* and what a call hands over, or has handed over, is all that was collected.
Closed == state \in {"READY", "SETTLED"} /\ Members = Participants

Awarded ==
  /\ state = "PREPARING" =>
       draw = NoOne /\ \A w \in Workers : job[w].at # "draw" /\ job[w].kind # "PAYOUT"
  /\ Closed =>
       /\ \A w \in Workers : job[w].kind = "PAYOUT" => Collected <= job[w].amount
       /\ \A u \in Users : moved["PAYOUT"][u] > 0 => Collected <= moved["PAYOUT"][u]

\* A state the caldron does not enter when it is closed, and the sum it keeps.
Steady ==
  /\ state' = "PREPARING" => state = "PREPARING"
  /\ Closed' => Closed /\ Collected' = Collected

LEMMA CollectedIsNat ==
  ASSUME IInv
  PROVE  Collected \in Nat
<1>1. In("PAID") \subseteq Users /\ IsFiniteSet(In("PAID"))
  BY FS_Subset DEF In
<1> QED
  BY <1>1, TotalIsNat DEF Collected, IInv, TypeOK

LEMMA SteadyRows ==
  ASSUME UNCHANGED <<part, contributed>>,
         state' \in {state, "CANCELLED"} \/ (state = "READY" /\ state' = "SETTLED")
  PROVE  Steady /\ Members' = Members /\ Participants' = Participants
  BY DEF Steady, Closed, Collected, In, Members, Participants

\* A step that hands nothing over only needs its worker to know the sum.
LEMMA AwardedJob ==
  ASSUME TypeOK, Awarded, Steady, moved' = moved,
         state = "PREPARING" => draw' = draw,
         NEW w \in Workers, NEW j, job' = [job EXCEPT ![w] = j],
         j.at = "draw" \/ j.kind = "PAYOUT" => state # "PREPARING",
         j.kind = "PAYOUT" /\ Closed => Collected <= j.amount
  PROVE  Awarded'
<1>1. \A v \in Workers : job'[v] = IF v = w THEN j ELSE job[v]
  BY DEF TypeOK
<1>2. state' = "PREPARING" =>
        draw' = NoOne /\ \A v \in Workers : job'[v].at # "draw" /\ job'[v].kind # "PAYOUT"
  BY <1>1 DEF Awarded, Steady
<1>3. Closed' =>
        /\ \A v \in Workers : job'[v].kind = "PAYOUT" => Collected' <= job'[v].amount
        /\ \A u \in Users : moved'["PAYOUT"][u] > 0 => Collected' <= moved'["PAYOUT"][u]
  BY <1>1 DEF Awarded, Steady
<1> QED
  BY <1>2, <1>3 DEF Awarded

\* The payout adds what was collected to the winner's.
LEMMA TransferAwards ==
  ASSUME IInv, Awarded, NEW w \in Workers, Transfer(w)
  PROVE  Awarded'
<1>1. /\ job[w].kind \in Kinds /\ job[w].user \in Users /\ job[w].amount \in Nat
      /\ job[w].amount > 0 /\ moved \in [Kinds -> [Users -> Nat]]
      /\ job \in [Workers -> Job]
  BY DEF Transfer, IInv, TypeOK, Informed, Knows, Job
<1>2. moved' = [moved EXCEPT ![job[w].kind][job[w].user] = @ + job[w].amount]
  BY DEF Transfer
<1>3. \A v \in Workers : /\ job'[v].kind = job[v].kind /\ job'[v].amount = job[v].amount
                         /\ job'[v].at = "draw" => job[v].at = "draw"
  BY <1>1 DEF Transfer, Goes, Job
<1>4. Steady /\ state' = state /\ draw' = draw
  BY SteadyRows DEF Transfer
<1>5. ASSUME Closed', NEW u \in Users, moved'["PAYOUT"][u] > 0
      PROVE  Collected' <= moved'["PAYOUT"][u]
  <2>1. Closed /\ Collected' = Collected /\ Collected \in Int
    BY <1>4, <1>5, CollectedIsNat DEF Steady
  <2>2. CASE job[w].kind = "PAYOUT" /\ u = job[w].user
    <3>1. Collected <= job[w].amount
      BY <2>1, <2>2 DEF Awarded
    <3>2. moved'["PAYOUT"][u] = moved["PAYOUT"][u] + job[w].amount /\ moved["PAYOUT"][u] \in Nat
      BY <1>1, <1>2, <2>2
    <3> QED
      BY <1>1, <2>1, <3>1, <3>2
  <2>3. CASE ~(job[w].kind = "PAYOUT" /\ u = job[w].user)
    <3>1. moved'["PAYOUT"][u] = moved["PAYOUT"][u]
      BY <1>1, <1>2, <2>3 DEF Kinds
    <3> QED
      BY <1>5, <2>1, <3>1 DEF Awarded
  <2> QED
    BY <2>2, <2>3
<1>6. ASSUME Closed', NEW v \in Workers, job'[v].kind = "PAYOUT"
      PROVE  Collected' <= job'[v].amount
  BY <1>3, <1>4, <1>6 DEF Awarded, Steady
<1>7. state' = "PREPARING" =>
        draw' = NoOne /\ \A v \in Workers : job'[v].at # "draw" /\ job'[v].kind # "PAYOUT"
  BY <1>3, <1>4 DEF Awarded
<1> QED
  BY <1>5, <1>6, <1>7 DEF Awarded

\* A contribution that is recorded late finds nothing to change in a closed
\* caldron, and one that closes it finds nothing handed over.
LEMMA MarkPaidAwards ==
  ASSUME IInv, Awarded, NEW w \in Workers, MarkPaid(w)
  PROVE  Awarded'
<1>1. /\ job' = [job EXCEPT ![w] = Idle] /\ job \in [Workers -> Job]
      /\ moved' = moved /\ draw' = draw
      /\ job[w].user \in Users /\ part \in [Users -> {"NONE", "INVITED", "PAID", "REFUNDED"}]
  BY DEF MarkPaid, Ends, IInv, TypeOK, Informed, Knows
<1>2. \A v \in Workers : job'[v] = IF v = w THEN Idle ELSE job[v]
  BY <1>1
<1>3. Participants' = Participants /\ Members' = Members
  BY <1>1 DEF MarkPaid, Participants, Members
<1>4. CASE state = "PREPARING"
  <2>1. draw' = NoOne /\ \A v \in Workers : job'[v].at # "draw" /\ job'[v].kind # "PAYOUT"
    BY <1>1, <1>2, <1>4 DEF Awarded, Idle
  <2>2. \A u \in Users : ~(moved'["PAYOUT"][u] > 0)
    BY <1>1, <1>4 DEF Awarded, IInv, Booked
  <2> QED
    BY <2>1, <2>2 DEF Awarded
<1>5. CASE state # "PREPARING"
  <2>1. state' = state
    BY <1>5 DEF MarkPaid
  <2>2. Closed' => UNCHANGED <<part, contributed>>
    <3>1. ASSUME Closed' PROVE part[job[w].user] # "INVITED"
      BY <1>1, <1>3, <2>1, <3>1 DEF Closed, IInv, Booked, Complete, Participants
    <3> QED
      BY <3>1 DEF MarkPaid
  <2>3. Steady
    <3>1. ASSUME Closed' PROVE Closed /\ Collected' = Collected
      BY <1>3, <2>1, <2>2, <3>1 DEF Closed, Collected, In
    <3> QED
      BY <2>1, <3>1 DEF Steady
  <2> QED
    BY <1>1, <1>5, <2>3, AwardedJob DEF Idle, IInv
<1> QED
  BY <1>4, <1>5

LEMMA AwardedStep ==
  ASSUME IInv, Awarded, [Next]_vars
  PROVE  Awarded'
<1>1. ASSUME NEW u \in Users, AddParticipant(u) \/ RemoveParticipant(u)
      PROVE  Awarded'
  BY <1>1 DEF AddParticipant, RemoveParticipant, Awarded, Closed
<1>2. ASSUME NEW w \in Workers, NEW u \in Users, StartContribution(w, u)
      PROVE  Awarded'
  <2>1. PICK a \in Asked(u) :
          job' = [job EXCEPT ![w] = [Idle EXCEPT !.at = "wallet", !.kind = "CONTRIBUTION",
                                                 !.user = u, !.amount = a]]
    BY <1>2 DEF StartContribution
  <2> DEFINE j == [Idle EXCEPT !.at = "wallet", !.kind = "CONTRIBUTION",
                               !.user = u, !.amount = a]
  <2>2. j.kind # "PAYOUT" /\ j.at # "draw" /\ job' = [job EXCEPT ![w] = j]
    BY <2>1 DEF Idle
  <2>3. moved' = moved /\ draw' = draw /\ Steady /\ TypeOK
    BY <1>2, SteadyRows DEF StartContribution, IInv
  <2> HIDE DEF j
  <2> QED
    BY <2>2, <2>3, AwardedJob
<1>3. ASSUME NEW w \in Workers, NEW u \in Users, RefundNext(w, u)
      PROVE  Awarded'
  <2> DEFINE j == [job[w] EXCEPT !.at = IF KeyTaken("REFUND", u) THEN "mark" ELSE "transfer",
                                 !.user = u, !.amount = contributed[u], !.todo = @ \ {u}]
  <2>1. job[w] \in Job /\ job[w].kind = "REFUND"
    BY <1>3 DEF RefundNext, IInv, TypeOK, Informed, Knows
  <2>2. job' = [job EXCEPT ![w] = j] /\ j.kind = "REFUND" /\ j.at # "draw"
    BY <1>3, <2>1 DEF RefundNext, IInv, TypeOK, Job
  <2>3. moved' = moved /\ draw' = draw /\ Steady /\ TypeOK
    BY <1>3, SteadyRows DEF RefundNext, IInv
  <2> HIDE DEF j
  <2> QED
    BY <2>2, <2>3, AwardedJob
<1>4. ASSUME NEW w \in Workers, NEW u \in Users, Draw(w, u)
      PROVE  Awarded'
  <2> DEFINE j == [Idle EXCEPT !.at = "draw", !.user = u]
  <2>1. job' = [job EXCEPT ![w] = j] /\ j.kind # "PAYOUT" /\ state # "PREPARING"
    BY <1>4 DEF Draw, Idle
  <2>2. moved' = moved /\ Steady /\ TypeOK
    BY <1>4, SteadyRows DEF Draw, IInv
  <2> HIDE DEF j
  <2> QED
    BY <2>1, <2>2, AwardedJob
<1>5. ASSUME NEW w \in Workers, OpenWallet(w) \/ FindKey(w) \/ SaveDraw(w)
      PROVE  Awarded'
  <2>1. PICK at \in {"lookup", "mark", "transfer", "settle"} : Goes(w, at)
    BY <1>5 DEF OpenWallet, FindKey, SaveDraw
  <2> DEFINE j == [job[w] EXCEPT !.at = at]
  <2>2. job \in [Workers -> Job] /\ job[w] \in Job
    BY DEF IInv, TypeOK
  <2>3. /\ job' = [job EXCEPT ![w] = j]
        /\ j.kind = job[w].kind /\ j.amount = job[w].amount /\ j.at # "draw"
    BY <2>1, <2>2 DEF Goes, Job
  <2>4. moved' = moved /\ Steady /\ TypeOK
    BY <1>5, SteadyRows DEF OpenWallet, FindKey, SaveDraw, IInv
  <2>5. state = "PREPARING" => draw' = draw
    BY <1>5 DEF OpenWallet, FindKey, SaveDraw, Awarded
  <2>6. /\ j.kind = "PAYOUT" => state # "PREPARING"
        /\ j.kind = "PAYOUT" /\ Closed => Collected <= j.amount
    BY <2>3 DEF Awarded
  <2> HIDE DEF j
  <2> QED
    BY <2>3, <2>4, <2>5, <2>6, AwardedJob
<1>6. ASSUME NEW w \in Workers, Abort(w) \/ MarkSettled(w)
      PROVE  Awarded'
  <2>1. moved' = moved /\ draw' = draw /\ Steady /\ TypeOK
    BY <1>6, SteadyRows DEF Abort, MarkSettled, IInv
  <2> QED
    BY <1>6, <2>1, AwardedJob DEF Abort, MarkSettled, Ends, Idle
<1>7. ASSUME NEW w \in Workers, Settle(w)
      PROVE  Awarded'
  <2> DEFINE j == [Idle EXCEPT !.at = "lookup", !.kind = "PAYOUT", !.user = draw,
                               !.amount = Collected]
  <2>1. /\ job' = [job EXCEPT ![w] = j] /\ j.amount = Collected
        /\ state # "PREPARING"
    BY <1>7 DEF Settle, Idle
  <2>2. Collected <= Collected
    BY CollectedIsNat
  <2>3. moved' = moved /\ Steady /\ TypeOK
    BY <1>7, SteadyRows DEF Settle, IInv
  <2> HIDE DEF j
  <2> QED
    BY <2>1, <2>2, <2>3, AwardedJob
<1>8. ASSUME NEW w \in Workers,
             Cancel(w) \/ RefundPending(w) \/ SkipRefund(w) \/ MarkRefunded(w)
      PROVE  Awarded'
  <2>1. \A todo : Refund(todo).kind # "PAYOUT" /\ Refund(todo).at # "draw"
    BY DEF Refund, Idle
  <2>2. PICK todo : job' = [job EXCEPT ![w] = Refund(todo)]
    BY <1>8 DEF Cancel, RefundPending, SkipRefund, MarkRefunded
  <2>3. moved' = moved /\ draw' = draw /\ TypeOK
    BY <1>8 DEF Cancel, RefundPending, SkipRefund, MarkRefunded, IInv
  <2>4. Steady
    <3>1. CASE MarkRefunded(w)
      <4>1. state = "CANCELLED" /\ state' = "CANCELLED"
        BY <3>1 DEF MarkRefunded, IInv, Informed, Knows, Refunding
      <4> QED
        BY <4>1 DEF Steady, Closed
    <3> QED
      BY <1>8, <3>1, SteadyRows DEF Cancel, RefundPending, SkipRefund
  <2> QED
    BY <2>1, <2>2, <2>3, <2>4, AwardedJob
<1>9. CASE UNCHANGED vars
  BY <1>9 DEF vars, Awarded, Closed, Collected, In, Members, Participants
<1> QED
  BY <1>1, <1>2, <1>3, <1>4, <1>5, <1>6, <1>7, <1>8, <1>9, TransferAwards, MarkPaidAwards
  DEF Next

\* Whoever wins a settled caldron got all that was collected, though Settle
\* read the sum without a lock: where everyone on the list is waited for, no
\* contribution is recorded after the last one that was.
THEOREM WinnerTakesAll == Spec => []WinnerGetsAll
<1>1. Init => Awarded
  BY DEF Init, Awarded, Closed, Idle
<1>2. IInv /\ Awarded /\ [Next]_vars => Awarded'
  BY AwardedStep
<1>3. IInv /\ Awarded => WinnerGetsAll
  <2> SUFFICES ASSUME IInv, Awarded, state = "SETTLED", Members = Participants
               PROVE  Collected <= moved["PAYOUT"][draw]
    BY DEF WinnerGetsAll
  <2>1. draw \in Users /\ moved["PAYOUT"][draw] > 0
    BY DEF IInv, TypeOK, Booked
  <2> QED
    BY <2>1 DEF Awarded, Closed
<1> QED
  BY <1>1, <1>2, <1>3, Invariance, PTL DEF Spec
=============================================================================
