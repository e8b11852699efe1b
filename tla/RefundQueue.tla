---------------------------- MODULE RefundQueue ----------------------------
(***************************************************************************)
(* The refunds of many cancelled caldrons, src/services/cmd/caldron.       *)
(* Cancel pays everybody back; what it leaves undone a periodic task takes *)
(* up, which looks at the first Limit caldrons by their time of            *)
(* cancellation.  How one refund goes through the wallet is module         *)
(* Caldron; here it is one step, and it can never be made to somebody      *)
(* whose wallet was deleted, which is for ever.                            *)
(***************************************************************************)
EXTENDS SequencesExt

CONSTANTS
  Caldrons, Users,
  PaidIn,   \* who has paid, by caldron
  Limit,    \* caldrons in a round: 50
  Workers   \* calls at a time, of Cancel or of the task

VARIABLES
  cancelled, \* the caldrons in CANCELLED, by cancelled_at
  owed,      \* the participants in PAID
  deleted,   \* users whose wallet is DELETED
  job        \* what a call has still to go through: caldrons as it read them

vars == <<cancelled, owed, deleted, job>>

Listed == [pot : Caldrons, left : SUBSET Users]

TypeOK ==
  /\ cancelled \in Seq(Caldrons) /\ IsInjective(cancelled)
  /\ owed \in [Caldrons -> SUBSET Users]
  /\ deleted \in SUBSET Users
  /\ job \in [Workers -> Seq(Listed)]

Init ==
  /\ cancelled = <<>>
  /\ owed = PaidIn
  /\ deleted = {}
  /\ job = [w \in Workers |-> <<>>]

\* A caldron with its participants, as the database returns it.
AsRead(c) == [pot |-> c, left |-> owed[c]]

\* The state first, then the money.
Cancel(w, c) ==
  /\ job[w] = <<>>
  /\ c \notin ToSet(cancelled)
  /\ cancelled' = Append(cancelled, c)
  /\ job' = [job EXCEPT ![w] = <<AsRead(c)>>]
  /\ UNCHANGED <<owed, deleted>>

-----------------------------------------------------------------------------
(* The task.                                                               *)

IsOwing(c) == owed[c] # {}

First(list) == SubSeq(list, 1, Min({Len(list), Limit}))

\* Mutant of PendingRefunds: the limit before the condition.
OfFirst == SelectSeq(First(cancelled), IsOwing)

PendingRefunds == First(SelectSeq(cancelled, IsOwing))

RefundPending(w) ==
  /\ job[w] = <<>> /\ PendingRefunds # <<>>
  /\ job' = [job EXCEPT ![w] = [i \in DOMAIN PendingRefunds |-> AsRead(PendingRefunds[i])]]
  /\ UNCHANGED <<cancelled, owed, deleted>>

-----------------------------------------------------------------------------
(* A call goes through its caldrons and their participants.                *)

Without(list, u) ==
  IF list[1].left = {u} THEN Tail(list)
                        ELSE [list EXCEPT ![1].left = @ \ {u}]

Attempts(w, u) == job[w] # <<>> /\ u \in Head(job[w]).left

\* A transfer with the key of the refund, or the repetition of one, and its record.
Refund(w, u) ==
  /\ Attempts(w, u) /\ u \notin deleted
  /\ owed' = [owed EXCEPT ![Head(job[w]).pot] = @ \ {u}]
  /\ job'  = [job EXCEPT ![w] = Without(@, u)]
  /\ UNCHANGED <<cancelled, deleted>>

\* The wallet or the database fails, and the loop goes on.  The wallet refuses
\* every transfer to one that is not ACTIVE.
RefundFails(w, u) ==
  /\ Attempts(w, u)
  /\ job' = [job EXCEPT ![w] = Without(@, u)]
  /\ UNCHANGED <<cancelled, owed, deleted>>

\* The context of the call ends, or the process.
Abort(w) ==
  /\ job[w] # <<>>
  /\ job' = [job EXCEPT ![w] = <<>>]
  /\ UNCHANGED <<cancelled, owed, deleted>>

\* ChangeState of the wallet service.
DeleteWallet(u) ==
  /\ u \notin deleted
  /\ deleted' = deleted \cup {u}
  /\ UNCHANGED <<cancelled, owed, job>>

Next ==
  \/ \E w \in Workers :
       \/ \E c \in Caldrons : Cancel(w, c)
       \/ \E u \in Users : Refund(w, u) \/ RefundFails(w, u)
       \/ RefundPending(w) \/ Abort(w)
  \/ \E u \in Users : DeleteWallet(u)

Spec == Init /\ [][Next]_vars

\* Every call ends.  RunPeriodic calls the task again and again; what its rounds
\* attempt for ever is not cut off for ever, and does not fail for ever if it
\* can be made.
Fairness ==
  /\ \A w \in Workers : WF_vars(Abort(w))
  /\ SF_vars(\E w \in Workers : RefundPending(w))
  /\ \A c \in Caldrons : \A u \in PaidIn[c] :
       SF_vars(\E w \in Workers : /\ Attempts(w, u) /\ Head(job[w]).pot = c
                                  /\ Refund(w, u) \/ (u \in deleted /\ RefundFails(w, u)))

-----------------------------------------------------------------------------
(* Properties.                                                             *)

Owes(c, u) == c \in ToSet(cancelled) /\ u \in owed[c]

\* Caldrons that will be owing for ever.
Stuck == {c \in ToSet(cancelled) : owed[c] \cap deleted # {}}

\* The task pays back everybody who can be paid, whatever Cancel left undone and
\* in whatever order the caldrons came, as long as the stuck ones do not fill
\* a round.
RefundsReachAll ==
  \A c \in Caldrons, u \in Users :
    Owes(c, u) ~> (~Owes(c, u) \/ u \in deleted \/ Cardinality(Stuck) >= Limit)

\* "The caldron stays in the queue of the task, and the money returns by itself"
\* (caldrons.go), for everybody whose wallet still takes money.  Fails: stuck
\* caldrons that were cancelled first fill every round.
MoneyReturns ==
  \A c \in Caldrons, u \in Users : Owes(c, u) ~> (~Owes(c, u) \/ u \in deleted)
=============================================================================
