------------------------------ MODULE MCTasks ------------------------------
(***************************************************************************)
(* Small instances of what a periodic task repeats until it is finished:   *)
(* the refunds of one caldron, and the queue of caldrons that are to be    *)
(* refunded.  They share nothing here, so a behaviour is of one of them,   *)
(* chosen at the start.                                                    *)
(***************************************************************************)
EXTENDS Naturals

CONSTANTS u1, u2, c1, w1, w2, NoOne

VARIABLES task,
          state, part, expected, contributed, hasWallet, draw, moved, job, \* Caldron
          cancelled, owed, deleted, rounds                                 \* RefundQueue

C == INSTANCE Caldron WITH
  Users <- {u1, u2}, Creator <- c1, CreatorParticipates <- FALSE, Mode <- "FIXED",
  Contributions <- {1}, Workers <- {w1, w2}

Q == INSTANCE RefundQueue WITH
  job <- rounds, Caldrons <- {1, 2, 3}, Users <- {u1, u2}, Workers <- {w1, w2},
  PaidIn <- <<{u1}, {u1}, {u2}>>, Limit <- 2

cvars  == <<state, part, expected, contributed, hasWallet, draw, moved, job>>
qvars  == <<cancelled, owed, deleted, rounds>>
mcvars == <<task, cvars, qvars>>

MCInit == task \in {"caldron", "queue"} /\ C!Init /\ Q!Init

MCNext ==
  /\ UNCHANGED task
  /\ \/ task = "caldron" /\ C!Next /\ UNCHANGED qvars
     \/ task = "queue" /\ Q!Next /\ UNCHANGED cvars

MCSpec == MCInit /\ [][MCNext]_mcvars

\* Each property is about behaviours that are fair to its own task: fairness to
\* the others would exclude them, whose variables rest.

\* A refund that was begun is finished, whatever else goes on.
RefundsComplete == C!Fairness => C!RefundsComplete
\* The task pays back everybody it can, as long as stuck caldrons leave it room.
RefundsReachAll == Q!Fairness => Q!RefundsReachAll
=============================================================================
