---------------------------- MODULE WalletLocks ----------------------------
(***************************************************************************)
(* The locks of the wallet service, src/services/cmd/wallet.  A            *)
(* transaction takes the locks of wallets and of reservations one after    *)
(* another and keeps them to its end.  What it reads and writes under      *)
(* them is module Wallet, where a transaction is one step; here only who   *)
(* waits for whom.                                                         *)
(*                                                                         *)
(* A wallet is a number, in the order of the identifiers, which Transfer   *)
(* compares as text.  A transaction is a call, or a round of the task that *)
(* releases expired reservations, which every instance of the service      *)
(* runs for itself.                                                        *)
(***************************************************************************)
EXTENDS Integers, Sequences

CONSTANTS NumWallets, \* the last wallet
          Rows,       \* reservations
          WalletOf,   \* the wallet each of them is of
          Txns        \* transactions of the database, by connection

VARIABLES kind,  \* what runs on the connection: "none", "call" or "task"
          plan,  \* the locks it is going to take, in this order
          holds  \* the locks it has

vars == <<kind, plan, holds>>

Wallets       == 0..NumWallets
WalletLock(w) == <<"wallet", w>>
RowLock(r)    == <<"row", r>>
Locks         == {WalletLock(w) : w \in Wallets} \cup {RowLock(r) : r \in Rows}

TypeOK ==
  /\ kind  \in [Txns -> {"none", "call", "task"}]
  /\ plan  \in [Txns -> Seq(Locks)]
  /\ holds \in [Txns -> SUBSET Locks]

Init ==
  /\ kind  = [t \in Txns |-> "none"]
  /\ plan  = [t \in Txns |-> <<>>]
  /\ holds = [t \in Txns |-> {}]

Begin(t, what, locks) ==
  /\ kind[t] = "none"
  /\ kind' = [kind EXCEPT ![t] = what]
  /\ plan' = [plan EXCEPT ![t] = locks]
  /\ UNCHANGED holds

-----------------------------------------------------------------------------
(* The transactions.                                                       *)

\* Debit, Credit, Reserve and ChangeState touch one wallet.
Operate(t, w) == Begin(t, "call", <<WalletLock(w)>>)

\* Mutant of InOrder: the wallets as the caller names them.
AsNamed(source, target) == <<source, target>>

InOrder(source, target) ==
  IF source > target THEN <<target, source>> ELSE <<source, target>>

\* Both wallets are locked in order, then each is read under its lock again.
Transfer(t, source, target) ==
  LET wallet == InOrder(source, target) IN
  /\ source # target
  /\ Begin(t, "call", <<WalletLock(wallet[1]), WalletLock(wallet[2]),
                        WalletLock(source), WalletLock(target)>>)

\* Confirm and Reject: the reservation, then its wallet, whose balance the
\* trigger may change.
Settle(t, r) == Begin(t, "call", <<RowLock(r), WalletLock(WalletOf[r])>>)

\* One UPDATE over the expired reservations, in the order in which the scan
\* meets them.  The trigger leaves the wallets alone.
ReleaseExpired(t) == Begin(t, "task", <<>>)

Meet(t, r) ==
  /\ kind[t] = "task" /\ plan[t] = <<>>
  /\ RowLock(r) \notin holds[t]
  /\ plan' = [plan EXCEPT ![t] = <<RowLock(r)>>]
  /\ UNCHANGED <<kind, holds>>

-----------------------------------------------------------------------------
(* The locks.                                                              *)

\* t waits for a lock of u.
Awaits(t, u) == plan[t] # <<>> /\ u # t /\ Head(plan[t]) \in holds[u]

Free(t) == plan[t] # <<>> /\ \A u \in Txns : ~Awaits(t, u)

Lock(t) ==
  /\ Free(t)
  /\ holds' = [holds EXCEPT ![t] = @ \cup {Head(plan[t])}]
  /\ plan'  = [plan EXCEPT ![t] = Tail(@)]
  /\ UNCHANGED kind

\* The reservation is not expired any more when its lock comes free.
Skip(t) ==
  /\ kind[t] = "task" /\ Free(t)
  /\ plan' = [plan EXCEPT ![t] = Tail(@)]
  /\ UNCHANGED <<kind, holds>>

\* A commit, which only a transaction that took all its locks reaches.
Commit(t) ==
  /\ kind[t] # "none" /\ plan[t] = <<>>
  /\ kind'  = [kind EXCEPT ![t] = "none"]
  /\ holds' = [holds EXCEPT ![t] = {}]
  /\ UNCHANGED plan

\* An error under the locks, or a connection that breaks.  One that waits for a
\* lock rolls back too when its context ends or the database breaks a deadlock.
Rollback(t) ==
  /\ kind[t] # "none"
  /\ kind'  = [kind EXCEPT ![t] = "none"]
  /\ plan'  = [plan EXCEPT ![t] = <<>>]
  /\ holds' = [holds EXCEPT ![t] = {}]

Next == \E t \in Txns :
  \/ \E w \in Wallets : Operate(t, w)
  \/ \E source, target \in Wallets : Transfer(t, source, target)
  \/ \E r \in Rows : Settle(t, r) \/ Meet(t, r)
  \/ ReleaseExpired(t)
  \/ Lock(t) \/ Skip(t) \/ Commit(t) \/ Rollback(t)

Spec == Init /\ [][Next]_vars

-----------------------------------------------------------------------------
(* Properties.                                                             *)

\* Every one of them waits for another one of them.
Deadlocked(D) == D # {} /\ \A t \in D : \E u \in D : Awaits(t, u)

\* Calls never block one another for ever, however transfers cross, confirmations
\* and releases interleave ("wallets are locked in the order of their identifiers",
\* operations.go): in every deadlock there are two rounds of the release task.
CallsDoNotDeadlock ==
  \A D \in SUBSET Txns : Deadlocked(D) =>
    \E t, u \in D : t # u /\ kind[t] = "task" /\ kind[u] = "task"
=============================================================================
