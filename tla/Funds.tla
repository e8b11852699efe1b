------------------------------- MODULE Funds -------------------------------
(***************************************************************************)
(* What the wallet service promises to whoever looks at balances and holds *)
(* only: no keys, no requests, no rows, no clock.  Money that is on hold   *)
(* cannot be withdrawn, moved or put on hold again.  A hold that lapsed no *)
(* longer protects its money, yet it can still be captured as long as the  *)
(* balance covers it, and is dropped sooner or later.                      *)
(***************************************************************************)
EXTENDS Integers

CONSTANTS
  Owners,     \* whose money it is
  Ids,        \* names of holds
  MaxAmount,  \* the largest amount a balance can show
  Sum(_, _)   \* Sum(S, f): what the amounts f[h] of the h in S add up to

VARIABLES
  balance,  \* what each owner has
  hold      \* the holds that are there; NoHold under the other names

fvars == <<balance, hold>>

NoHold == [state |-> "none"]

Init ==
  /\ balance = [o \in Owners |-> 0]
  /\ hold = [h \in Ids |-> NoHold]

Held        == {h \in Ids : hold[h] # NoHold}
LiveHolds(o) == {h \in Held : hold[h].state = "live" /\ hold[h].owner = o}
Free(o)     == balance[o] - Sum(LiveHolds(o), [h \in Held |-> hold[h].amount])

Deposit(o, v) ==
  /\ balance[o] + v <= MaxAmount
  /\ balance' = [balance EXCEPT ![o] = @ + v]
  /\ UNCHANGED hold

Withdraw(o, v) ==
  /\ v <= Free(o)
  /\ balance' = [balance EXCEPT ![o] = @ - v]
  /\ UNCHANGED hold

Move(o, p, v) ==
  /\ o # p
  /\ v <= Free(o)
  /\ balance[p] + v <= MaxAmount
  /\ balance' = [balance EXCEPT ![o] = @ - v, ![p] = @ + v]
  /\ UNCHANGED hold

Place(h, o, v) ==
  /\ hold[h] = NoHold
  /\ v <= Free(o)
  /\ hold' = [hold EXCEPT ![h] = [state |-> "live", owner |-> o, amount |-> v]]
  /\ UNCHANGED balance

\* The held money is taken: the hold goes, and the balance with it.
Capture(h) ==
  /\ hold[h] # NoHold
  /\ hold[h].amount <= balance[hold[h].owner]
  /\ balance' = [balance EXCEPT ![hold[h].owner] = @ - hold[h].amount]
  /\ hold' = [hold EXCEPT ![h] = NoHold]

\* Holds are given up, one or several together.
Drop(S) ==
  /\ hold' = [h \in Ids |-> IF h \in S THEN NoHold ELSE hold[h]]
  /\ UNCHANGED balance

\* The term of some holds is over.
Lapse(S) ==
  /\ hold' = [h \in Ids |-> IF h \in S THEN [hold[h] EXCEPT !.state = "lapsed"] ELSE hold[h]]
  /\ UNCHANGED balance

Next ==
  \/ \E o \in Owners, v \in 1..MaxAmount :
       \/ Deposit(o, v) \/ Withdraw(o, v)
       \/ \E p \in Owners : Move(o, p, v)
       \/ \E h \in Ids : Place(h, o, v)
  \/ \E h \in Ids : Capture(h)
  \/ \E S \in SUBSET Held : Drop(S) \/ Lapse(S)

Spec == Init /\ [][Next]_fvars
=============================================================================
