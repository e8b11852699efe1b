---------------------------- MODULE WalletProofs ----------------------------
(***************************************************************************)
(* Theorems about Wallet, for every set of users, requests, keys and calls *)
(* and every bound: its invariants, and that it implements Funds.          *)
(***************************************************************************)
EXTENDS Wallet, AmountsProofs

USE UsersAssumption, RequestsAssumption, BoundsAssumption, CallsAssumption,
    ChangesAssumption

\* What the types leave open: how the columns of a request move together.
\*  - a request has arguments once it has begun, and valid ones;
\*  - it has a row exactly when it has committed, and only a Reserve leaves a
\*    row RESERVED or REJECTED;
\*  - the rows it saw at its lookup are still there, and if it went on to
\*    write, none of them has its key.
Consistent ==
  \A r \in Requests :
    /\ phase[r] # "idle" => call[r] \in Calls /\ Valid(call[r])
    /\ row[r] # "ABSENT" <=> phase[r] = "committed"
    /\ row[r] \in {"RESERVED", "REJECTED"} => call[r].op = "RESERVE"
    /\ began[r] <= now
    /\ before[r] \subseteq Rows
    /\ phase[r] \in {"searched", "committed"} =>
         \A q \in before[r] : call[q].key # call[r].key

IInv == TypeOK /\ Consistent

-----------------------------------------------------------------------------
(* What the helpers return.                                                *)

LEMMA CallType ==
  ASSUME NEW c \in Calls
  PROVE  /\ c \in CallRecord
         /\ c.op \in Operations /\ c.owner \in Users /\ c.named \in BOOLEAN
         /\ c.source \in Users /\ c.target \in Users /\ c.value \in Nat
         /\ c.key \in Keys /\ c.ttl \in Nat
         /\ TTL(c) \in Nat \ {0}
  BY DEF CallRecord, TTL

LEMMA EnsuredType ==
  ASSUME wallet \in WalletTable, NEW c \in Calls
  PROVE  /\ Ensured(c) \in WalletTable
         /\ \A u \in Users : Ensured(c)[u].balance = wallet[u].balance
         /\ \A u \in Users : wallet[u].state # "NONE" => Ensured(c)[u] = wallet[u]
  BY CallType DEF Ensured, WalletTable, WalletStates

\* The trigger leaves the states alone and moves the value of the call.
LEMMA MovedType ==
  ASSUME NEW w \in WalletTable, NEW c \in Calls, Valid(c), InRange(Moved(w, c))
  PROVE  /\ Moved(w, c) \in WalletTable
         /\ \A u \in Users : Moved(w, c)[u].state = w[u].state
         /\ c.op = "DEBIT" => \A u \in Users : Moved(w, c)[u].balance =
              w[u].balance + IF u = c.target THEN c.value ELSE 0
         /\ c.op \in {"CREDIT", "RESERVE"} => \A u \in Users : Moved(w, c)[u].balance =
              w[u].balance - IF u = c.target THEN c.value ELSE 0
         /\ c.op = "SWAP" => \A u \in Users : Moved(w, c)[u].balance =
              w[u].balance + (IF u = c.target THEN c.value ELSE 0)
                           - (IF u = c.source THEN c.value ELSE 0)
<1> USE CallType DEF WalletTable
<1>1. CASE c.op = "DEBIT"
  BY <1>1 DEF Moved, InRange
<1>2. CASE c.op \in {"CREDIT", "RESERVE"}
  BY <1>2 DEF Moved, InRange
<1>3. CASE c.op = "SWAP"
  BY <1>3 DEF Moved, InRange, Valid
<1> QED
  BY <1>1, <1>2, <1>3 DEF Operations

LEMMA ValueType ==
  ASSUME TypeOK
  PROVE  \A r \in Requests : Value[r] \in Nat /\ Value[r] = call[r].value
<1> SUFFICES ASSUME NEW r \in Requests
             PROVE  Value[r] \in Nat /\ Value[r] = call[r].value
  OBVIOUS
<1>1. call[r] \in Calls \cup {NoCall}
  BY DEF TypeOK
<1>2. call[r].value \in Nat
  BY <1>1, CallType DEF NoCall
<1> QED
  BY <1>2 DEF Value

-----------------------------------------------------------------------------
(* The invariant is inductive.                                             *)

LEMMA InitInv == Init => IInv
<1> SUFFICES ASSUME Init PROVE IInv
  OBVIOUS
<1>1. TypeOK
  BY DEF Init, TypeOK, WalletTable
<1>2. Consistent
  BY DEF Init, Consistent, Rows
<1> QED
  BY <1>1, <1>2 DEF IInv

LEMMA BeginInv ==
  ASSUME IInv, NEW r \in Requests, NEW c \in Calls, Search(r, c) \/ Replay(r, c)
  PROVE  IInv'
<1> USE DEF IInv
<1>1. PICK outcome \in {"searched", "replayed"} :
        Begin(r, c, outcome) /\ (outcome = "searched" => ~KeyTaken(c.key))
  BY DEF Search, Replay
<1>2. TypeOK'
  BY <1>1 DEF TypeOK, Begin, Rows
<1>3. Rows' = Rows
  BY <1>1 DEF Begin, Rows
<1>4. ASSUME NEW q \in Requests
      PROVE  /\ phase'[q] # "idle" => call'[q] \in Calls /\ Valid(call'[q])
             /\ row'[q] # "ABSENT" <=> phase'[q] = "committed"
             /\ row'[q] \in {"RESERVED", "REJECTED"} => call'[q].op = "RESERVE"
             /\ began'[q] <= now'
             /\ before'[q] \subseteq Rows'
  BY <1>1, <1>3 DEF TypeOK, Consistent, Begin
<1>5. ASSUME NEW q \in Requests, phase'[q] \in {"searched", "committed"},
             NEW p \in before'[q]
      PROVE  call'[p].key # call'[q].key
  <2>1. p \in Rows /\ p # r
    BY <1>1, <1>5 DEF TypeOK, Consistent, Begin, Rows
  <2>2. CASE q = r
    BY <1>1, <1>5, <2>1, <2>2 DEF TypeOK, Begin, KeyTaken, Rows
  <2>3. CASE q # r
    BY <1>1, <1>5, <2>1, <2>3 DEF TypeOK, Consistent, Begin, Rows
  <2> QED
    BY <2>2, <2>3
<1>6. Consistent'
  BY <1>4, <1>5 DEF Consistent
<1> QED
  BY <1>2, <1>6

\* The four actions that commit differ in the wallets and in reserved_until.
LEMMA CommitInv ==
  ASSUME IInv, NEW r \in Requests,
         Debit(r) \/ Credit(r) \/ Reserve(r) \/ Transfer(r)
  PROVE  IInv'
<1> USE DEF IInv
<1> DEFINE c == call[r]
<1>1. PICK state \in {"SUCCESS", "RESERVED"} :
        Commit(r, state) /\ (state = "RESERVED" => c.op = "RESERVE")
  BY DEF Debit, Credit, Reserve, Transfer
<1>2. c \in Calls /\ Valid(c)
  BY <1>1 DEF Commit, Consistent
<1>3. wallet' \in WalletTable
  <2>1. Ensured(c) \in WalletTable /\ wallet \in WalletTable
    BY <1>2, EnsuredType DEF TypeOK
  <2> QED
    BY <1>2, <2>1, MovedType DEF Debit, Credit, Reserve, Transfer
<1>4. until' \in [Requests -> 0..MaxTime]
  <2>1. CASE Reserve(r)
    <3>1. now + TTL(c) \in 0..MaxTime
      BY <1>2, <2>1, CallType DEF Reserve, EndsInTime, TypeOK
    <3> QED
      BY <2>1, <3>1 DEF Reserve, TypeOK
  <2>2. CASE ~Reserve(r)
    BY <2>2 DEF Debit, Credit, Transfer, TypeOK
  <2> QED
    BY <2>1, <2>2
<1>5. TypeOK'
  BY <1>1, <1>3, <1>4 DEF TypeOK, Commit, RowStates
<1>6. Consistent'
  BY <1>1, <1>2 DEF TypeOK, Consistent, Commit, Rows
<1> QED
  BY <1>5, <1>6

LEMMA SettleInv ==
  ASSUME IInv, NEW r \in Requests, Confirm(r) \/ Reject(r)
  PROVE  IInv'
<1> USE DEF IInv
<1>1. call[r] \in Calls /\ Valid(call[r]) /\ call[r].op = "RESERVE"
  BY DEF Confirm, Reject, Consistent, Pending
<1>2. wallet' \in WalletTable
  <2>1. CASE Confirm(r)
    BY <1>1, <2>1, MovedType DEF Confirm, TypeOK, Pending
  <2>2. CASE Reject(r)
    BY <2>2 DEF Reject, TypeOK, Pending
  <2> QED
    BY <2>1, <2>2
<1>3. late' \subseteq Users
  BY <1>1, CallType DEF Confirm, Reject, TypeOK, Pending
<1>4. TypeOK'
  BY <1>2, <1>3 DEF TypeOK, Confirm, Reject, RowStates, Pending
<1>5. Consistent'
  BY <1>1 DEF TypeOK, Consistent, Confirm, Reject, Rows, Pending
<1> QED
  BY <1>4, <1>5

LEMMA ReleaseInv ==
  ASSUME IInv, ReleaseExpired
  PROVE  IInv'
<1> USE DEF IInv
<1>1. TypeOK'
  BY DEF TypeOK, ReleaseExpired, RowStates
<1>2. Consistent'
  BY DEF TypeOK, Consistent, ReleaseExpired, Overdue, Rows
<1> QED
  BY <1>1, <1>2

\* The steps that leave requests and rows alone.
LEMMA OtherInv ==
  ASSUME IInv,
         \/ \E r \in Requests : Rollback(r)
         \/ \E u \in Users : Information(u) \/ \E s \in Changes : ChangeState(u, s)
         \/ Tick
         \/ UNCHANGED vars
  PROVE  IInv'
<1> USE DEF IInv
<1>1. CASE \E r \in Requests : Rollback(r)
  BY <1>1 DEF TypeOK, Consistent, Rollback, Rows
<1>2. CASE \E u \in Users : Information(u) \/ \E s \in Changes : ChangeState(u, s)
  <2>1. wallet' \in WalletTable
    BY <1>2 DEF TypeOK, WalletTable, WalletStates, Information, ChangeState
  <2> QED
    BY <1>2, <2>1 DEF TypeOK, Consistent, Information, ChangeState, Rows
<1>3. CASE Tick
  BY <1>3 DEF TypeOK, Consistent, Tick, Rows
<1>4. CASE UNCHANGED vars
  BY <1>4 DEF TypeOK, Consistent, vars, Rows
<1> QED
  BY <1>1, <1>2, <1>3, <1>4

LEMMA NextInv == IInv /\ [Next]_vars => IInv'
  BY BeginInv, CommitInv, SettleInv, ReleaseInv, OtherInv DEF Next

\* Every state the service reaches is well typed and consistent.
THEOREM Invariance == Spec => []IInv
  BY InitInv, NextInv, PTL DEF Spec

\* Types, for every instance.
THEOREM TypeCorrect == Spec => []TypeOK
<1>1. IInv => TypeOK
  BY DEF IInv
<1> QED
  BY <1>1, Invariance, PTL

-----------------------------------------------------------------------------
(* Idempotency, races over a reservation, wallets that are not active.     *)

\* A request that looks a key up after another one committed with it inserts
\* nothing.
THEOREM SequentialRepeats == Spec => []RepeatFindsTheFirst
<1>1. IInv => RepeatFindsTheFirst
  BY DEF IInv, Consistent, RepeatFindsTheFirst, Rows
<1> QED
  BY <1>1, Invariance, PTL

\* Of a Confirm, a Reject and a release of one reservation, one takes effect.
THEOREM ReservationsSettleOnce == Spec => SettledIsFinal
<1> DEFINE Final == \A r \in Requests :
                      row[r] \in {"SUCCESS", "REJECTED"} => row'[r] = row[r]
<1>1. IInv /\ [Next]_vars => [Final]_vars
  <2> SUFFICES ASSUME IInv, Next PROVE Final
    OBVIOUS
  <2> USE DEF IInv, TypeOK, Consistent
  <2>1. ASSUME NEW r \in Requests, NEW c \in Calls, Search(r, c) \/ Replay(r, c)
        PROVE  Final
    BY <2>1 DEF Search, Replay, Begin
  <2>2. ASSUME NEW r \in Requests, Debit(r) \/ Credit(r) \/ Reserve(r) \/ Transfer(r)
        PROVE  Final
    BY <2>2 DEF Debit, Credit, Reserve, Transfer, Commit
  <2>3. ASSUME NEW r \in Requests, Rollback(r) \/ Confirm(r) \/ Reject(r)
        PROVE  Final
    BY <2>3 DEF Rollback, Confirm, Reject, Pending
  <2>4. CASE ReleaseExpired
    BY <2>4 DEF ReleaseExpired, Overdue
  <2>5. CASE Tick \/ \E u \in Users : Information(u) \/ \E s \in Changes : ChangeState(u, s)
    BY <2>5 DEF Tick, Information, ChangeState
  <2> QED
    BY <2>1, <2>2, <2>3, <2>4, <2>5 DEF Next
<1> QED
  BY <1>1, Invariance, PTL DEF Spec, SettledIsFinal

\* A wallet that is not active loses money at most, and only what it owed.
THEOREM FrozenWallets == Spec => FrozenWalletOnlyDrains
<1> DEFINE Drains == \A u \in Users :
             wallet[u].state \in {"BLOCKED", "CLOSED", "DELETED"}
               => /\ wallet'[u].balance <= wallet[u].balance
                  /\ Holds(u, now)' \subseteq Holds(u, now)
<1>1. IInv /\ [Next]_vars => [Drains]_vars
  <2> SUFFICES ASSUME IInv, Next,
                      NEW u \in Users,
                      wallet[u].state \in {"BLOCKED", "CLOSED", "DELETED"}
               PROVE  /\ wallet'[u].balance <= wallet[u].balance
                      /\ Holds(u, now)' \subseteq Holds(u, now)
    OBVIOUS
  <2> DEFINE Goal == /\ wallet'[u].balance <= wallet[u].balance
                     /\ Holds(u, now)' \subseteq Holds(u, now)
  <2> USE DEF IInv
  <2>0. wallet \in WalletTable /\ wallet[u].balance \in Nat
    BY DEF TypeOK, WalletTable
  <2>1. ASSUME NEW r \in Requests, NEW c \in Calls, Search(r, c) \/ Replay(r, c)
        PROVE  Goal
    BY <2>0, <2>1 DEF Search, Replay, Begin, Holds, TypeOK, Consistent
  <2>2. ASSUME NEW r \in Requests, Debit(r) \/ Credit(r) \/ Reserve(r) \/ Transfer(r)
        PROVE  Goal
    <3>1. call[r] \in Calls /\ Valid(call[r]) /\ phase[r] = "searched"
      BY <2>2 DEF Debit, Credit, Reserve, Transfer, Commit, Consistent
    <3>2. Ensured(call[r]) \in WalletTable /\ Ensured(call[r])[u] = wallet[u]
      BY <2>0, <3>1, EnsuredType
    <3>3. CASE Debit(r) \/ Credit(r)
      <4>1. call[r].target # u
        BY <3>2, <3>3 DEF Debit, Credit, Lockable
      <4>2. wallet'[u].balance = wallet[u].balance
        BY <2>0, <3>1, <3>2, <3>3, <4>1, MovedType DEF Debit, Credit
      <4> QED
        BY <2>0, <3>3, <4>2 DEF Debit, Credit, Commit, Holds, TypeOK
    <3>4. CASE Reserve(r)
      BY <2>0, <3>2, <3>4 DEF Reserve, Lockable, Commit, Holds, TypeOK
    <3>5. CASE Transfer(r)
      <4>1. call[r].target # u
        BY <3>5 DEF Transfer
      <4>2. call[r].value \in Nat
        BY <3>1, CallType
      <4>3. wallet'[u].balance <= wallet[u].balance
        BY <2>0, <3>1, <3>5, <4>1, <4>2, MovedType DEF Transfer
      <4> QED
        BY <3>5, <4>3 DEF Transfer, Commit, Holds, TypeOK
    <3> QED
      BY <2>2, <3>3, <3>4, <3>5
  <2>3. ASSUME NEW r \in Requests, Confirm(r) \/ Reject(r) \/ Rollback(r)
        PROVE  Goal
    <3>1. CASE Confirm(r)
      <4>1. call[r] \in Calls /\ Valid(call[r]) /\ call[r].op = "RESERVE"
        BY <3>1 DEF Confirm, Consistent, Pending
      <4>2. call[r].value \in Nat
        BY <4>1, CallType
      <4>3. wallet'[u].balance <= wallet[u].balance
        BY <2>0, <3>1, <4>1, <4>2, MovedType DEF Confirm, Pending
      <4> QED
        BY <3>1, <4>3 DEF Confirm, Holds, TypeOK, Pending
    <3>2. CASE Reject(r) \/ Rollback(r)
      BY <2>0, <3>2 DEF Reject, Rollback, Holds, TypeOK, Pending
    <3> QED
      BY <2>3, <3>1, <3>2
  <2>4. CASE ReleaseExpired
    BY <2>0, <2>4 DEF ReleaseExpired, Overdue, Holds, TypeOK
  <2>5. CASE Tick
    BY <2>0, <2>5 DEF Tick, Holds, TypeOK
  <2>6. CASE \E v \in Users : Information(v) \/ \E s \in Changes : ChangeState(v, s)
    BY <2>0, <2>6 DEF Information, ChangeState, Holds, WalletTable
  <2> QED
    BY <2>1, <2>2, <2>3, <2>4, <2>5, <2>6 DEF Next
<1> QED
  BY <1>1, Invariance, PTL DEF Spec, FrozenWalletOnlyDrains

-----------------------------------------------------------------------------
(* Sums over the rows of a wallet.                                         *)

LEMMA SumFacts ==
  ASSUME TypeOK, NEW S \in SUBSET Requests
  PROVE  /\ IsFiniteSet(S)
         /\ \A r \in S : Value[r] \in Nat
         /\ Total(S, Value) \in Nat
<1>1. IsFiniteSet(S)
  BY FS_Subset
<1>2. \A r \in S : Value[r] \in Nat
  BY ValueType
<1> QED
  BY <1>1, <1>2, TotalIsNat

\* Later, fewer reservations are in force.
LEMMA ReservedShrinks ==
  ASSUME TypeOK, NEW u \in Users, NEW s \in Nat, NEW t \in Nat, s <= t
  PROVE  Reserved(u, t) \in Nat /\ Reserved(u, s) \in Nat /\ Reserved(u, t) <= Reserved(u, s)
<1>1. Holds(u, t) \in SUBSET Holds(u, s)
  BY DEF Holds, TypeOK
<1>2. Holds(u, s) \in SUBSET Requests /\ Holds(u, t) \in SUBSET Requests
  BY DEF Holds
<1> QED
  BY <1>1, <1>2, SumFacts, TotalSubset DEF Reserved

\* A step that does not give a request its arguments keeps every value.
LEMMA SameValue ==
  ASSUME call' = call
  PROVE  Value' = Value
  BY DEF Value

\* Rows that are there before and after a step add up to the same.
LEMMA BeginKeepsSums ==
  ASSUME IInv, NEW r \in Requests, NEW c \in Calls, Search(r, c) \/ Replay(r, c),
         NEW S \in SUBSET Rows
  PROVE  Total(S, Value') = Total(S, Value)
<1>1. r \notin S
  BY DEF IInv, Consistent, Rows, Search, Replay, Begin
<1>2. \A q \in S : Value'[q] = Value[q]
  BY <1>1 DEF Value, Rows, Search, Replay, Begin, IInv, TypeOK
<1> QED
  BY <1>2, TotalSame

-----------------------------------------------------------------------------
(* Money is promised once.                                                 *)

\* Available funds were counted at the time the transaction began; by now the
\* reservations in force are at most those.
LEMMA AvailableNow ==
  ASSUME IInv, NEW r \in Requests, NEW u \in Users, NEW v \in Nat,
         Available(u, began[r]) >= v
  PROVE  Reserved(u, now) + v <= wallet[u].balance
<1>1. began[r] \in Nat /\ now \in Nat /\ began[r] <= now
  BY DEF IInv, TypeOK, Consistent
<1>2. /\ Reserved(u, now) \in Nat /\ Reserved(u, began[r]) \in Nat
      /\ Reserved(u, now) <= Reserved(u, began[r])
  BY <1>1, ReservedShrinks DEF IInv
<1>3. wallet[u].balance \in Nat
  BY DEF IInv, TypeOK, WalletTable
<1> QED
  BY <1>2, <1>3 DEF Available

\* The same reservations and no less money: the promise still holds.
LEMMA SafeIfNoMore ==
  ASSUME IInv, IInv', FundsPromisedOnce, NEW u \in Users, u \notin late',
         late \subseteq late',
         call' = call, Holds(u, now)' \subseteq Holds(u, now),
         wallet'[u].balance >= wallet[u].balance
  PROVE  Reserved(u, now)' <= wallet'[u].balance
<1>1. Holds(u, now) \in SUBSET Requests
  BY DEF Holds
<1>2. Total(Holds(u, now)', Value) <= Total(Holds(u, now), Value)
  BY <1>1, SumFacts, TotalSubset DEF IInv
<1>3. Total(Holds(u, now)', Value) \in Nat /\ Total(Holds(u, now), Value) \in Nat
  BY <1>1, SumFacts DEF IInv
<1>4. Reserved(u, now)' = Total(Holds(u, now)', Value)
  BY SameValue DEF Reserved
<1>5. Reserved(u, now) <= wallet[u].balance
  BY DEF FundsPromisedOnce
<1>6. wallet[u].balance \in Nat /\ wallet'[u].balance \in Nat
  BY DEF IInv, TypeOK, WalletTable
<1> QED
  BY <1>2, <1>3, <1>4, <1>5, <1>6 DEF Reserved

LEMMA FundsStep ==
  ASSUME IInv, IInv', FundsPromisedOnce, Next
  PROVE  FundsPromisedOnce'
<1> SUFFICES ASSUME NEW u \in Users, u \notin late'
             PROVE  Reserved(u, now)' <= wallet'[u].balance
  BY DEF FundsPromisedOnce
<1> DEFINE Goal == Reserved(u, now)' <= wallet'[u].balance
<1>0. /\ wallet \in WalletTable /\ wallet[u].balance \in Nat
      /\ now \in Nat
      /\ \A r \in Requests : until[r] \in Nat
  BY DEF IInv, TypeOK, WalletTable
<1>1. ASSUME NEW r \in Requests, NEW c \in Calls, Search(r, c) \/ Replay(r, c)
      PROVE  Goal
  <2>1. Holds(u, now)' = Holds(u, now) /\ wallet' = wallet /\ late' = late
    BY <1>1 DEF IInv, TypeOK, Consistent, Search, Replay, Begin, Holds
  <2>2. Holds(u, now) \in SUBSET Rows
    BY DEF Holds, Rows
  <2>3. Total(Holds(u, now), Value') = Total(Holds(u, now), Value)
    BY <1>1, <2>2, BeginKeepsSums
  <2> QED
    BY <2>1, <2>3 DEF Reserved, FundsPromisedOnce
<1>2. ASSUME NEW r \in Requests, Debit(r) \/ Credit(r) \/ Reserve(r) \/ Transfer(r)
      PROVE  Goal
  <2>1. /\ call[r] \in Calls /\ Valid(call[r])
        /\ call[r].value \in Nat /\ call[r].target \in Users
        /\ call' = call /\ late' = late /\ row[r] = "ABSENT"
    BY <1>2, CallType
    DEF Debit, Credit, Reserve, Transfer, Commit, IInv, Consistent
  <2>2. /\ Ensured(call[r]) \in WalletTable
        /\ Ensured(call[r])[u].balance = wallet[u].balance
    BY <1>0, <2>1, EnsuredType
  <2>3. ~Reserve(r) => Holds(u, now)' = Holds(u, now)
    BY <1>2, <2>1 DEF Debit, Credit, Transfer, Commit, Holds, IInv, TypeOK
  <2>4. CASE Debit(r)
    <3>1. wallet'[u].balance >= wallet[u].balance
      BY <1>0, <2>1, <2>2, <2>4, MovedType DEF Debit
    <3>2. ~Reserve(r)
      BY <2>4 DEF Debit, Reserve
    <3> QED
      BY <2>1, <2>3, <3>1, <3>2, SafeIfNoMore
  <2>5. CASE Credit(r)
    <3>1. ~Reserve(r)
      BY <2>5 DEF Credit, Reserve
    <3>2. CASE u = call[r].target
      <4>1. Reserved(u, now) + call[r].value <= wallet[u].balance
        BY <2>1, <2>5, <3>2, AvailableNow DEF Credit
      <4>2. wallet'[u].balance = wallet[u].balance - call[r].value
        BY <1>0, <2>1, <2>2, <2>5, <3>2, MovedType DEF Credit
      <4>3. Reserved(u, now)' = Reserved(u, now) /\ Reserved(u, now) \in Nat
        BY <1>0, <2>1, <2>3, <3>1, SameValue, ReservedShrinks DEF Reserved, IInv
      <4> QED
        BY <1>0, <2>1, <4>1, <4>2, <4>3
    <3>3. CASE u # call[r].target
      <4>1. wallet'[u].balance = wallet[u].balance
        BY <1>0, <2>1, <2>2, <2>5, <3>3, MovedType DEF Credit
      <4> QED
        BY <1>0, <2>1, <2>3, <3>1, <4>1, SafeIfNoMore
    <3> QED
      BY <3>2, <3>3
  <2>6. CASE Reserve(r)
    <3>1. wallet'[u].balance = wallet[u].balance
      BY <2>2, <2>6 DEF Reserve
    <3>2. CASE u = call[r].target
      <4>1. Reserved(u, now) + call[r].value <= wallet[u].balance
        BY <2>1, <2>6, <3>2, AvailableNow DEF Reserve
      <4>2. Holds(u, now) \in SUBSET Requests /\ r \notin Holds(u, now)
        BY <2>1 DEF Holds
      <4>3. Holds(u, now)' \in SUBSET (Holds(u, now) \cup {r})
        BY <2>6 DEF Reserve, Commit, Holds, IInv, TypeOK
      <4>4. Holds(u, now) \cup {r} \in SUBSET Requests
        BY <4>2
      <4>5. Total(Holds(u, now)', Value) <= Total(Holds(u, now) \cup {r}, Value)
        BY <4>3, <4>4, SumFacts, TotalSubset DEF IInv
      <4>6. Total(Holds(u, now) \cup {r}, Value) = Total(Holds(u, now), Value) + Value[r]
        BY <4>2, <4>4, SumFacts, TotalAdd DEF IInv
      <4>7. Value[r] = call[r].value
        BY ValueType DEF IInv
      <4>8. Reserved(u, now)' = Total(Holds(u, now)', Value)
        BY <2>1, SameValue DEF Reserved
      <4>9. /\ Total(Holds(u, now), Value) \in Nat
            /\ Total(Holds(u, now)', Value) \in Nat
        BY <4>2, <4>3, <4>4, SumFacts DEF IInv
      <4> QED
        BY <1>0, <2>1, <3>1, <4>1, <4>5, <4>6, <4>7, <4>8, <4>9 DEF Reserved
    <3>3. CASE u # call[r].target
      <4>1. Holds(u, now)' = Holds(u, now)
        BY <2>1, <2>6, <3>3 DEF Reserve, Commit, Holds, IInv, TypeOK
      <4> QED
        BY <1>0, <2>1, <3>1, <4>1, SafeIfNoMore
    <3> QED
      BY <3>2, <3>3
  <2>7. CASE Transfer(r)
    <3>1. ~Reserve(r) /\ call[r].source # call[r].target
      BY <2>1, <2>7 DEF Transfer, Reserve, Valid
    <3>2. CASE u = call[r].source
      <4>1. Reserved(u, now) + call[r].value <= wallet[u].balance
        BY <2>1, <2>7, <3>2, AvailableNow DEF Transfer
      <4>2. wallet'[u].balance = wallet[u].balance - call[r].value
        BY <1>0, <2>1, <2>7, <3>1, <3>2, MovedType DEF Transfer
      <4>3. Reserved(u, now)' = Reserved(u, now) /\ Reserved(u, now) \in Nat
        BY <1>0, <2>1, <2>3, <3>1, SameValue, ReservedShrinks DEF Reserved, IInv
      <4> QED
        BY <1>0, <2>1, <4>1, <4>2, <4>3
    <3>3. CASE u # call[r].source
      <4>1. wallet'[u].balance >= wallet[u].balance
        BY <1>0, <2>1, <2>7, <3>3, MovedType DEF Transfer
      <4> QED
        BY <2>1, <2>3, <3>1, <4>1, SafeIfNoMore
    <3> QED
      BY <3>2, <3>3
  <2> QED
    BY <1>2, <2>4, <2>5, <2>6, <2>7
<1>3. ASSUME NEW r \in Requests, Confirm(r)
      PROVE  Goal
  <2>1. /\ call[r] \in Calls /\ Valid(call[r]) /\ call[r].op = "RESERVE"
        /\ call[r].value \in Nat /\ call' = call /\ late \subseteq late'
    BY <1>3, CallType DEF Confirm, IInv, Consistent, Pending
  <2>2. CASE u = call[r].target
    <3>1. r \in Holds(u, now)
      BY <1>3, <2>2 DEF Confirm, Holds, Pending
    <3>2. Holds(u, now)' = Holds(u, now) \ {r}
      BY <1>3 DEF Confirm, Holds, IInv, TypeOK, Pending
    <3>3. Holds(u, now) \in SUBSET Requests
      BY DEF Holds
    <3>4. Total(Holds(u, now) \ {r}, Value) = Total(Holds(u, now), Value) - Value[r]
      BY <3>1, <3>3, SumFacts, TotalRemove DEF IInv
    <3>5. Value[r] = call[r].value
      BY ValueType DEF IInv
    <3>6. Reserved(u, now)' = Total(Holds(u, now) \ {r}, Value)
      BY <2>1, <3>2, SameValue DEF Reserved
    <3>7. Reserved(u, now) <= wallet[u].balance
      BY <2>1 DEF FundsPromisedOnce
    <3>8. wallet'[u].balance = wallet[u].balance - call[r].value
      BY <1>0, <1>3, <2>1, <2>2, MovedType DEF Confirm, Pending
    <3>9. Total(Holds(u, now), Value) \in Nat
      BY <3>3, SumFacts DEF IInv
    <3> QED
      BY <1>0, <2>1, <3>4, <3>5, <3>6, <3>7, <3>8, <3>9 DEF Reserved
  <2>3. CASE u # call[r].target
    <3>1. wallet'[u].balance = wallet[u].balance
      BY <1>0, <1>3, <2>1, <2>3, MovedType DEF Confirm, Pending
    <3>2. Holds(u, now)' \subseteq Holds(u, now)
      BY <1>3 DEF Confirm, Holds, IInv, TypeOK, Pending
    <3> QED
      BY <1>0, <2>1, <3>1, <3>2, SafeIfNoMore
  <2> QED
    BY <2>2, <2>3
<1>4. ASSUME \/ \E r \in Requests : Reject(r) \/ Rollback(r)
             \/ ReleaseExpired
             \/ Tick
             \/ \E v \in Users : Information(v) \/ \E s \in Changes : ChangeState(v, s)
      PROVE  Goal
  <2>1. call' = call /\ late' = late
    BY <1>4 DEF Reject, Rollback, ReleaseExpired, Tick, Information, ChangeState, Pending
  <2>2. wallet'[u].balance = wallet[u].balance
    BY <1>0, <1>4
    DEF Reject, Rollback, ReleaseExpired, Tick, Information, ChangeState, WalletTable, Pending
  <2>3. Holds(u, now)' \subseteq Holds(u, now)
    <3>1. CASE \E r \in Requests : Reject(r)
      BY <3>1 DEF Reject, Holds, IInv, TypeOK, Pending
    <3>2. CASE ReleaseExpired
      BY <3>2 DEF ReleaseExpired, Overdue, Holds, IInv, TypeOK
    <3>3. CASE Tick
      BY <1>0, <3>3 DEF Tick, Holds, IInv, TypeOK
    <3> QED
      BY <1>4, <3>1, <3>2, <3>3 DEF Rollback, Information, ChangeState, Holds
  <2> QED
    BY <1>0, <2>1, <2>2, <2>3, SafeIfNoMore
<1> QED
  BY <1>1, <1>2, <1>3, <1>4 DEF Next

\* Money that is reserved and in force is there, for every owner none of whose
\* reservations was confirmed after its term.
THEOREM PromisedOnce == Spec => []FundsPromisedOnce
<1>1. Init => FundsPromisedOnce
  <2> SUFFICES ASSUME Init, NEW u \in Users
               PROVE  Reserved(u, now) <= wallet[u].balance
    BY DEF FundsPromisedOnce
  <2>1. Holds(u, now) = {} /\ wallet[u].balance = 0
    BY DEF Init, Holds
  <2> QED
    BY <2>1, TotalEmpty DEF Reserved
<1>2. IInv /\ IInv' /\ FundsPromisedOnce /\ [Next]_vars => FundsPromisedOnce'
  <2>1. IInv /\ IInv' /\ FundsPromisedOnce /\ Next => FundsPromisedOnce'
    BY FundsStep
  <2>2. FundsPromisedOnce /\ UNCHANGED vars => FundsPromisedOnce'
    BY DEF vars, FundsPromisedOnce, Reserved, Holds, Value
  <2> QED
    BY <2>1, <2>2
<1> QED
  BY <1>1, <1>2, Invariance, PTL DEF Spec

-----------------------------------------------------------------------------
(* The balance is what the history adds up to.                             *)

LEMMA LedgerSets ==
  ASSUME NEW u \in Users
  PROVE  /\ Incoming(u) \in SUBSET Requests /\ Incoming(u) \in SUBSET Rows
         /\ Outgoing(u) \in SUBSET Requests /\ Outgoing(u) \in SUBSET Rows
  BY DEF Incoming, Outgoing, Rows

\* A step that turns row r, not yet successful, into SUCCESS adds r to the
\* history of the wallets its call names, and to no other.
LEMMA SuccessAdds ==
  ASSUME TypeOK, NEW r \in Requests, call' = call, row[r] # "SUCCESS",
         row' = [row EXCEPT ![r] = "SUCCESS"], NEW u \in Users
  PROVE  /\ Total(Incoming(u)', Value') =
              Total(Incoming(u), Value) + IF Enters(call[r], u) THEN call[r].value ELSE 0
         /\ Total(Outgoing(u)', Value') =
              Total(Outgoing(u), Value) + IF Leaves(call[r], u) THEN call[r].value ELSE 0
<1>1. Value' = Value /\ Value[r] = call[r].value
  BY SameValue, ValueType
<1>2. r \notin Incoming(u) /\ r \notin Outgoing(u)
  BY DEF Incoming, Outgoing
<1>3. \A q \in Requests : row'[q] = IF q = r THEN "SUCCESS" ELSE row[q]
  BY DEF TypeOK
<1>4. Incoming(u)' = IF Enters(call[r], u) THEN Incoming(u) \cup {r} ELSE Incoming(u)
  BY <1>3 DEF Incoming
<1>5. Outgoing(u)' = IF Leaves(call[r], u) THEN Outgoing(u) \cup {r} ELSE Outgoing(u)
  BY <1>3 DEF Outgoing
<1>6. Incoming(u) \cup {r} \in SUBSET Requests /\ Outgoing(u) \cup {r} \in SUBSET Requests
  BY LedgerSets
<1>7. /\ Total(Incoming(u) \cup {r}, Value) = Total(Incoming(u), Value) + Value[r]
      /\ Total(Outgoing(u) \cup {r}, Value) = Total(Outgoing(u), Value) + Value[r]
  BY <1>2, <1>6, LedgerSets, SumFacts, TotalAdd
<1>8. Total(Incoming(u), Value) \in Nat /\ Total(Outgoing(u), Value) \in Nat
  BY LedgerSets, SumFacts
<1> QED
  BY <1>1, <1>4, <1>5, <1>7, <1>8

LEMMA LedgerStep ==
  ASSUME IInv, BalanceIsLedger, Next
  PROVE  BalanceIsLedger'
<1> SUFFICES ASSUME NEW u \in Users
             PROVE  wallet'[u].balance =
                      Total(Incoming(u)', Value') - Total(Outgoing(u)', Value')
  BY DEF BalanceIsLedger
<1> DEFINE Goal == wallet'[u].balance =
                     Total(Incoming(u)', Value') - Total(Outgoing(u)', Value')
<1>0. /\ wallet \in WalletTable /\ wallet[u].balance \in Nat
      /\ Total(Incoming(u), Value) \in Nat /\ Total(Outgoing(u), Value) \in Nat
      /\ wallet[u].balance = Total(Incoming(u), Value) - Total(Outgoing(u), Value)
  BY LedgerSets, SumFacts DEF IInv, TypeOK, WalletTable, BalanceIsLedger
<1>1. ASSUME NEW r \in Requests, NEW c \in Calls, Search(r, c) \/ Replay(r, c)
      PROVE  Goal
  <2>1. Incoming(u)' = Incoming(u) /\ Outgoing(u)' = Outgoing(u) /\ wallet' = wallet
    BY <1>1 DEF IInv, TypeOK, Consistent, Search, Replay, Begin, Incoming, Outgoing
  <2>2. /\ Total(Incoming(u), Value') = Total(Incoming(u), Value)
        /\ Total(Outgoing(u), Value') = Total(Outgoing(u), Value)
    BY <1>1, LedgerSets, BeginKeepsSums
  <2> QED
    BY <1>0, <2>1, <2>2
<1>2. ASSUME NEW r \in Requests, Debit(r) \/ Credit(r) \/ Transfer(r) \/ Confirm(r)
      PROVE  Goal
  <2>1. /\ call[r] \in Calls /\ Valid(call[r]) /\ call[r].value \in Nat
        /\ call[r].target \in Users /\ call[r].source \in Users
    BY <1>2, CallType DEF Debit, Credit, Transfer, Confirm, Commit, IInv, Consistent, Pending
  <2>2. /\ row[r] # "SUCCESS" /\ call' = call
        /\ row' = [row EXCEPT ![r] = "SUCCESS"]
    BY <1>2 DEF Debit, Credit, Transfer, Confirm, Commit, IInv, Consistent, Pending
  <2>3. PICK w \in WalletTable : /\ w[u].balance = wallet[u].balance
                                 /\ wallet' = Moved(w, call[r])
                                 /\ InRange(Moved(w, call[r]))
    BY <1>0, <1>2, <2>1, EnsuredType DEF Debit, Credit, Transfer, Confirm, Pending
  <2>4. call[r].op \in Operations
    BY <2>1, CallType
  <2>5. /\ Total(Incoming(u)', Value') =
             Total(Incoming(u), Value) + IF Enters(call[r], u) THEN call[r].value ELSE 0
        /\ Total(Outgoing(u)', Value') =
             Total(Outgoing(u), Value) + IF Leaves(call[r], u) THEN call[r].value ELSE 0
    BY <2>2, SuccessAdds DEF IInv
  <2>6. CASE call[r].op = "DEBIT"
    BY <1>0, <2>1, <2>3, <2>5, <2>6, MovedType DEF Enters, Leaves
  <2>7. CASE call[r].op \in {"CREDIT", "RESERVE"}
    BY <1>0, <2>1, <2>3, <2>5, <2>7, MovedType DEF Enters, Leaves
  <2>8. CASE call[r].op = "SWAP"
    BY <1>0, <2>1, <2>3, <2>5, <2>8, MovedType DEF Enters, Leaves
  <2> QED
    BY <2>4, <2>6, <2>7, <2>8 DEF Operations
<1>3. ASSUME \/ \E r \in Requests : Reserve(r) \/ Reject(r) \/ Rollback(r)
             \/ ReleaseExpired
             \/ Tick
             \/ \E v \in Users : Information(v) \/ \E s \in Changes : ChangeState(v, s)
      PROVE  Goal
  <2>1. call' = call
    BY <1>3 DEF Reserve, Commit, Reject, Rollback, ReleaseExpired, Tick,
                Information, ChangeState
  <2>2. \A r \in Requests : row'[r] = "SUCCESS" <=> row[r] = "SUCCESS"
    BY <1>3 DEF Reserve, Commit, Reject, Rollback, ReleaseExpired, Overdue, Tick,
                Information, ChangeState, IInv, TypeOK, Consistent, Pending
  <2>3. Incoming(u)' = Incoming(u) /\ Outgoing(u)' = Outgoing(u)
    BY <2>1, <2>2 DEF Incoming, Outgoing
  <2>4. wallet'[u].balance = wallet[u].balance
    <3>1. CASE \E r \in Requests : Reserve(r)
      <4>1. PICK r \in Requests : Reserve(r)
        BY <3>1
      <4>2. call[r] \in Calls
        BY <4>1 DEF Reserve, Commit, IInv, Consistent
      <4> QED
        BY <1>0, <4>1, <4>2, EnsuredType DEF Reserve
    <3>2. CASE ~\E r \in Requests : Reserve(r)
      BY <1>0, <1>3, <3>2 DEF Reject, Rollback, ReleaseExpired, Tick, Information,
                              ChangeState, WalletTable
    <3> QED
      BY <3>1, <3>2
  <2> QED
    BY <1>0, <2>1, <2>3, <2>4, SameValue
<1> QED
  BY <1>1, <1>2, <1>3 DEF Next

\* No update of a balance is lost or doubled: every balance is the sum of what
\* came in less the sum of what went out.
THEOREM LedgerTheorem == Spec => []BalanceIsLedger
<1>1. Init => BalanceIsLedger
  <2> SUFFICES ASSUME Init, NEW u \in Users
               PROVE  wallet[u].balance =
                        Total(Incoming(u), Value) - Total(Outgoing(u), Value)
    BY DEF BalanceIsLedger
  <2>1. Incoming(u) = {} /\ Outgoing(u) = {} /\ wallet[u].balance = 0
    BY DEF Init, Incoming, Outgoing
  <2> QED
    BY <2>1, TotalEmpty
<1>2. IInv /\ BalanceIsLedger /\ [Next]_vars => BalanceIsLedger'
  <2>1. IInv /\ BalanceIsLedger /\ Next => BalanceIsLedger'
    BY LedgerStep
  <2>2. BalanceIsLedger /\ UNCHANGED vars => BalanceIsLedger'
    BY DEF vars, BalanceIsLedger, Incoming, Outgoing, Value
  <2> QED
    BY <2>1, <2>2
<1> QED
  BY <1>1, <1>2, Invariance, PTL DEF Spec

-----------------------------------------------------------------------------
(* The service implements accounts with holds: each step of Wallet is, seen *)
(* through balances and holds, a step of Funds or no step at all.           *)

\* What Funds sees.
Balances  == [u \in Users |-> wallet[u].balance]
HoldTable == [r \in Requests |-> HoldOf(r)]
NoHold    == [state |-> "none"]

-----------------------------------------------------------------------------
(* One state.                                                              *)

LEMMA SeenBalances ==
  ASSUME TypeOK, NEW u \in Users
  PROVE  Balances[u] = wallet[u].balance /\ Balances[u] \in 0..MaxBigint
  BY DEF TypeOK, WalletTable, Balances

LEMMA SeenHolds ==
  ASSUME NEW r \in Requests
  PROVE  /\ HoldTable[r] # NoHold <=> row[r] = "RESERVED"
         /\ row[r] # "RESERVED" => HoldTable[r] = NoHold
         /\ row[r] = "RESERVED" =>
              /\ HoldTable[r] = [state  |-> IF until[r] > now THEN "live" ELSE "lapsed",
                                 owner  |-> call[r].target,
                                 amount |-> call[r].value]
              /\ HoldTable[r].state = IF until[r] > now THEN "live" ELSE "lapsed"
              /\ HoldTable[r].owner = call[r].target
              /\ HoldTable[r].amount = call[r].value
<1>1. HoldTable[r] = HoldOf(r)
  BY DEF HoldTable
<1>2. CASE row[r] = "RESERVED"
  BY <1>1, <1>2 DEF HoldOf, NoHold
<1>3. CASE row[r] # "RESERVED"
  BY <1>1, <1>3 DEF HoldOf, NoHold
<1> QED
  BY <1>2, <1>3

\* Free money is what the service has available at this moment.
LEMMA FreeIsAvailable ==
  ASSUME IInv, NEW u \in Users
  PROVE  Accounts!Free(u) = Available(u, now)
<1> DEFINE amounts == [h \in Accounts!Held |-> HoldTable[h].amount]
<1>1. Accounts!Held = {r \in Requests : row[r] = "RESERVED"}
  BY SeenHolds DEF Accounts!Held, Accounts!NoHold, HoldTable, NoHold
<1>2. Accounts!LiveHolds(u) = Holds(u, now)
  <2>1. Accounts!LiveHolds(u) = {h \in Accounts!Held : /\ HoldTable[h].state = "live"
                                                       /\ HoldTable[h].owner = u}
    BY DEF Accounts!LiveHolds, HoldTable
  <2> QED
    BY <1>1, <2>1, SeenHolds DEF Holds
<1>3. \A r \in Holds(u, now) : amounts[r] = Value[r]
  BY <1>1, SeenHolds DEF Holds, Value
<1>4. Total(Holds(u, now), amounts) = Total(Holds(u, now), Value)
  BY <1>3, TotalSame
<1>5. Accounts!Free(u) = Balances[u] - Total(Accounts!LiveHolds(u), amounts)
  BY DEF Accounts!Free, Balances, HoldTable
<1>6. Balances[u] = wallet[u].balance
  BY DEF Balances
<1> QED
  BY <1>2, <1>4, <1>5, <1>6 DEF Available, Reserved

\* What was available when a transaction began is free when it commits.
LEMMA FreeNow ==
  ASSUME IInv, NEW r \in Requests, NEW u \in Users, NEW v \in Nat,
         Available(u, began[r]) >= v
  PROVE  v <= Accounts!Free(u) /\ v <= wallet[u].balance
<1>1. Reserved(u, now) + v <= wallet[u].balance
  BY AvailableNow
<1>2. Reserved(u, now) \in Nat /\ wallet[u].balance \in Nat
  BY ReservedShrinks DEF IInv, TypeOK, WalletTable
<1> QED
  BY <1>1, <1>2, FreeIsAvailable DEF Available

-----------------------------------------------------------------------------
(* One step.                                                               *)

\* Holds that stay, stay the same until the clock moves.
LEMMA SameHolds ==
  ASSUME now' = now,
         \A r \in Requests : /\ row'[r] = "RESERVED" <=> row[r] = "RESERVED"
                             /\ row[r] = "RESERVED" =>
                                  call'[r] = call[r] /\ until'[r] = until[r]
  PROVE  HoldTable' = HoldTable
<1> SUFFICES ASSUME NEW r \in Requests PROVE HoldOf(r)' = HoldOf(r)
  BY DEF HoldTable
<1> QED
  BY DEF HoldOf

LEMMA SameBalances ==
  ASSUME \A u \in Users : wallet'[u].balance = wallet[u].balance
  PROVE  Balances' = Balances
  BY DEF Balances

LEMMA Stutter ==
  ASSUME Balances' = Balances, HoldTable' = HoldTable
  PROVE  UNCHANGED Accounts!fvars
  BY DEF Accounts!fvars, Balances, HoldTable

LEMMA BeginIsInvisible ==
  ASSUME IInv, NEW r \in Requests, NEW c \in Calls, Search(r, c) \/ Replay(r, c)
  PROVE  UNCHANGED Accounts!fvars
<1>1. phase[r] = "idle" /\ call' = [call EXCEPT ![r] = c]
      /\ UNCHANGED <<wallet, row, until, now>>
  BY DEF Search, Replay, Begin
<1>2. row[r] = "ABSENT"
  BY <1>1 DEF IInv, Consistent
<1>3. HoldTable' = HoldTable
  BY <1>1, <1>2, SameHolds DEF IInv, TypeOK
<1>4. Balances' = Balances
  BY <1>1, SameBalances
<1> QED
  BY <1>3, <1>4, Stutter

\* A request that goes from its lookup to its commit had no row.
LEMMA CommitHolds ==
  ASSUME IInv, NEW r \in Requests, NEW state \in {"SUCCESS", "RESERVED"}, Commit(r, state)
  PROVE  /\ call[r] \in Calls /\ Valid(call[r]) /\ HoldTable[r] = NoHold
         /\ state = "SUCCESS" /\ until' = until => HoldTable' = HoldTable
<1>1. phase[r] = "searched" /\ row' = [row EXCEPT ![r] = state] /\ call' = call /\ now' = now
  BY DEF Commit
<1>2. row[r] = "ABSENT" /\ call[r] \in Calls /\ Valid(call[r])
  BY <1>1 DEF IInv, Consistent
<1>3. ASSUME state = "SUCCESS", until' = until PROVE HoldTable' = HoldTable
  BY <1>1, <1>2, <1>3, SameHolds DEF IInv, TypeOK
<1> QED
  BY <1>2, <1>3, SeenHolds

LEMMA DebitDeposits ==
  ASSUME IInv, IInv', NEW r \in Requests, Debit(r)
  PROVE  Accounts!Next
<1> DEFINE c == call[r]
           v == c.value
<1>1. /\ Commit(r, "SUCCESS") /\ until' = until /\ c.op = "DEBIT"
      /\ InRange(Moved(Ensured(c), c)) /\ wallet' = Moved(Ensured(c), c)
  BY DEF Debit
<1>2. c \in Calls /\ Valid(c) /\ HoldTable' = HoldTable
  BY <1>1, CommitHolds
<1>3. c.target \in Users /\ v \in Nat /\ v > 0
  BY <1>2, CallType DEF Valid
<1>4. \A u \in Users : wallet'[u].balance = wallet[u].balance + IF u = c.target THEN v ELSE 0
  BY <1>1, <1>2, EnsuredType, MovedType DEF IInv, TypeOK
<1>5. \A u \in Users : wallet[u].balance \in 0..MaxBigint /\ wallet'[u].balance \in 0..MaxBigint
  BY DEF IInv, TypeOK, WalletTable
<1>6. v \in 1..MaxBigint /\ Balances[c.target] + v <= MaxBigint
  <2>1. wallet'[c.target].balance = wallet[c.target].balance + v
    BY <1>3, <1>4
  <2>2. wallet[c.target].balance \in 0..MaxBigint /\ wallet'[c.target].balance \in 0..MaxBigint
    BY <1>3, <1>5
  <2>3. Balances[c.target] = wallet[c.target].balance
    BY <1>3 DEF Balances
  <2> HIDE DEF c, v
  <2> QED
    BY <1>3, <2>1, <2>2, <2>3
<1>7. Balances' = [Balances EXCEPT ![c.target] = @ + v]
  BY <1>3, <1>4, <1>5 DEF Balances
<1>8. Accounts!Deposit(c.target, v)
  BY <1>2, <1>6, <1>7 DEF Accounts!Deposit, Balances, HoldTable
<1> HIDE DEF c, v
<1> QED
  BY <1>3, <1>6, <1>8 DEF Accounts!Next, Accounts!Deposit

LEMMA CreditWithdraws ==
  ASSUME IInv, IInv', NEW r \in Requests, Credit(r)
  PROVE  Accounts!Next
<1> DEFINE c == call[r]
           v == c.value
<1>1. /\ Commit(r, "SUCCESS") /\ until' = until /\ c.op = "CREDIT"
      /\ Available(c.target, began[r]) >= v
      /\ InRange(Moved(Ensured(c), c)) /\ wallet' = Moved(Ensured(c), c)
  BY DEF Credit
<1>2. c \in Calls /\ Valid(c) /\ HoldTable' = HoldTable
  BY <1>1, CommitHolds
<1>3. c.target \in Users /\ v \in Nat /\ v > 0
  BY <1>2, CallType DEF Valid
<1>4. \A u \in Users : wallet'[u].balance = wallet[u].balance - IF u = c.target THEN v ELSE 0
  BY <1>1, <1>2, EnsuredType, MovedType DEF IInv, TypeOK
<1>5. \A u \in Users : wallet[u].balance \in 0..MaxBigint /\ wallet'[u].balance \in 0..MaxBigint
  BY DEF IInv, TypeOK, WalletTable
<1>6. v <= Accounts!Free(c.target) /\ v <= wallet[c.target].balance
  BY <1>1, <1>3, FreeNow
<1>7. v \in 1..MaxBigint
  <2>1. wallet[c.target].balance \in 0..MaxBigint
    BY <1>3, <1>5
  <2> HIDE DEF c, v
  <2> QED
    BY <1>3, <1>6, <2>1
<1>8. Balances' = [Balances EXCEPT ![c.target] = @ - v]
  BY <1>3, <1>4, <1>5 DEF Balances
<1>9. Accounts!Withdraw(c.target, v)
  BY <1>2, <1>6, <1>8 DEF Accounts!Withdraw, Balances, HoldTable
<1> HIDE DEF c, v
<1> QED
  BY <1>3, <1>7, <1>9 DEF Accounts!Next, Accounts!Withdraw
LEMMA TransferMoves ==
  ASSUME IInv, IInv', NEW r \in Requests, Transfer(r)
  PROVE  Accounts!Next
<1> DEFINE c == call[r]
           v == c.value
<1>1. /\ Commit(r, "SUCCESS") /\ until' = until /\ c.op = "SWAP"
      /\ Available(c.source, began[r]) >= v
      /\ InRange(Moved(wallet, c)) /\ wallet' = Moved(wallet, c)
  BY DEF Transfer
<1>2. c \in Calls /\ Valid(c) /\ HoldTable' = HoldTable
  BY <1>1, CommitHolds
<1>3. c.source \in Users /\ c.target \in Users /\ c.source # c.target /\ v \in Nat /\ v > 0
  BY <1>1, <1>2, CallType DEF Valid
<1>4. \A u \in Users : wallet'[u].balance =
        wallet[u].balance + (IF u = c.target THEN v ELSE 0) - (IF u = c.source THEN v ELSE 0)
  BY <1>1, <1>2, MovedType DEF IInv, TypeOK
<1>5. \A u \in Users : wallet[u].balance \in 0..MaxBigint /\ wallet'[u].balance \in 0..MaxBigint
  BY DEF IInv, TypeOK, WalletTable
<1>6. v <= Accounts!Free(c.source) /\ v <= wallet[c.source].balance
  BY <1>1, <1>3, FreeNow
<1>7. v \in 1..MaxBigint /\ Balances[c.target] + v <= MaxBigint
  <2>1. wallet'[c.target].balance = wallet[c.target].balance + v
    BY <1>3, <1>4, <1>5
  <2>2. wallet[c.target].balance \in 0..MaxBigint /\ wallet'[c.target].balance \in 0..MaxBigint
    BY <1>3, <1>5
  <2>3. Balances[c.target] = wallet[c.target].balance
    BY <1>3 DEF Balances
  <2> HIDE DEF c, v
  <2> QED
    BY <1>3, <2>1, <2>2, <2>3
<1>8. Balances' = [Balances EXCEPT ![c.source] = @ - v, ![c.target] = @ + v]
  BY <1>3, <1>4, <1>5 DEF Balances
<1>9. Accounts!Move(c.source, c.target, v)
  BY <1>2, <1>3, <1>6, <1>7, <1>8 DEF Accounts!Move, Balances, HoldTable
<1> HIDE DEF c, v
<1> QED
  BY <1>3, <1>7, <1>9 DEF Accounts!Next, Accounts!Move

LEMMA ReservePlaces ==
  ASSUME IInv, IInv', NEW r \in Requests, Reserve(r)
  PROVE  Accounts!Next
<1> DEFINE c == call[r]
           v == c.value
           live == [state |-> "live", owner |-> c.target, amount |-> v]
<1>1. /\ Commit(r, "RESERVED") /\ until' = [until EXCEPT ![r] = now + TTL(c)]
      /\ Available(c.target, began[r]) >= v /\ wallet' = Ensured(c)
  BY DEF Reserve
<1>2. c \in Calls /\ Valid(c) /\ HoldTable[r] = NoHold
  BY <1>1, CommitHolds
<1>3. c.target \in Users /\ v \in Nat /\ v > 0 /\ TTL(c) \in Nat \ {0}
  BY <1>2, CallType DEF Valid
<1>4. v <= Accounts!Free(c.target) /\ v <= wallet[c.target].balance
  BY <1>1, <1>3, FreeNow
<1>5. v \in 1..MaxBigint
  <2>1. wallet[c.target].balance \in 0..MaxBigint
    BY <1>3 DEF IInv, TypeOK, WalletTable
  <2> HIDE DEF c, v
  <2> QED
    BY <1>3, <1>4, <2>1
<1>6. Balances' = Balances
  BY <1>1, <1>2, EnsuredType, SameBalances DEF IInv, TypeOK
<1>7. HoldTable' = [HoldTable EXCEPT ![r] = live]
  <2>1. row' = [row EXCEPT ![r] = "RESERVED"] /\ call' = call /\ now' = now
    BY <1>1 DEF Commit
  <2>2. HoldOf(r)' = live
    <3>1. until'[r] = now + TTL(c) /\ now' \in Nat /\ row'[r] = "RESERVED"
      BY <1>1, <2>1 DEF IInv, TypeOK
    <3>2. until'[r] > now'
      BY <1>3, <2>1, <3>1
    <3> QED
      BY <2>1, <3>1, <3>2 DEF HoldOf
  <2>3. ASSUME NEW q \in Requests, q # r PROVE HoldOf(q)' = HoldOf(q)
    BY <1>1, <2>1, <2>3 DEF HoldOf, IInv, TypeOK
  <2> HIDE DEF live
  <2> QED
    BY <2>2, <2>3 DEF HoldTable
<1>8. Accounts!Place(r, c.target, v)
  BY <1>2, <1>4, <1>6, <1>7 DEF Accounts!Place, Accounts!NoHold, NoHold, Balances, HoldTable
<1> HIDE DEF c, v
<1> QED
  BY <1>3, <1>5, <1>8 DEF Accounts!Next, Accounts!Place

LEMMA ConfirmCaptures ==
  ASSUME IInv, IInv', NEW r \in Requests, Confirm(r)
  PROVE  Accounts!Next
<1> DEFINE c == call[r]
           v == c.value
<1>1. /\ row[r] = "RESERVED" /\ row' = [row EXCEPT ![r] = "SUCCESS"]
      /\ until' = [until EXCEPT ![r] = 0] /\ call' = call /\ now' = now
      /\ InRange(Moved(wallet, c)) /\ wallet' = Moved(wallet, c)
  BY DEF Confirm, Pending
<1>2. c \in Calls /\ Valid(c) /\ c.op = "RESERVE"
  BY <1>1 DEF IInv, Consistent
<1>3. c.target \in Users /\ v \in Nat
  BY <1>2, CallType
<1>4. \A u \in Users : wallet'[u].balance = wallet[u].balance - IF u = c.target THEN v ELSE 0
  BY <1>1, <1>2, MovedType DEF IInv, TypeOK
<1>5. \A u \in Users : wallet[u].balance \in 0..MaxBigint /\ wallet'[u].balance \in 0..MaxBigint
  BY DEF IInv, TypeOK, WalletTable
<1>6. HoldTable[r] # NoHold /\ HoldTable[r].owner = c.target /\ HoldTable[r].amount = v
  BY <1>1, SeenHolds
<1>7. v <= Balances[c.target]
  <2>1. wallet'[c.target].balance = wallet[c.target].balance - v
    BY <1>3, <1>4
  <2>2. wallet[c.target].balance \in 0..MaxBigint /\ wallet'[c.target].balance \in 0..MaxBigint
    BY <1>3, <1>5
  <2>3. Balances[c.target] = wallet[c.target].balance
    BY <1>3 DEF Balances
  <2> HIDE DEF c, v
  <2> QED
    BY <1>3, <2>1, <2>2, <2>3
<1>8. Balances' = [Balances EXCEPT ![c.target] = @ - v]
  BY <1>3, <1>4, <1>5 DEF Balances
<1>9. HoldTable' = [HoldTable EXCEPT ![r] = NoHold]
  <2>1. HoldOf(r)' = NoHold
    BY <1>1 DEF HoldOf, NoHold, IInv, TypeOK
  <2>2. ASSUME NEW q \in Requests, q # r PROVE HoldOf(q)' = HoldOf(q)
    BY <1>1, <2>2 DEF HoldOf, IInv, TypeOK
  <2> QED
    BY <2>1, <2>2 DEF HoldTable
<1> HIDE DEF c, v
<1>10. Accounts!Capture(r)
  BY <1>6, <1>7, <1>8, <1>9 DEF Accounts!Capture, Accounts!NoHold, NoHold, Balances, HoldTable
<1> QED
  BY <1>10 DEF Accounts!Next, Accounts!Capture

\* Holds that are given up, by the client or by the worker.
LEMMA SettlingDrops ==
  ASSUME IInv, NEW S \in SUBSET Requests, \A r \in S : row[r] = "RESERVED",
         row' = [r \in Requests |-> IF r \in S THEN "REJECTED" ELSE row[r]],
         until' = [r \in Requests |-> IF r \in S THEN 0 ELSE until[r]],
         UNCHANGED <<wallet, call, now>>
  PROVE  Accounts!Next
<1>1. S \in SUBSET Accounts!Held
  BY SeenHolds DEF Accounts!Held, Accounts!NoHold, HoldTable, NoHold
<1>2. Balances' = Balances
  BY SameBalances
<1>3. HoldTable' = [r \in Requests |-> IF r \in S THEN NoHold ELSE HoldTable[r]]
  <2>1. ASSUME NEW r \in S PROVE HoldOf(r)' = NoHold
    BY <2>1 DEF HoldOf, NoHold
  <2>2. ASSUME NEW r \in Requests, r \notin S PROVE HoldOf(r)' = HoldOf(r)
    BY <2>2 DEF HoldOf
  <2> QED
    BY <2>1, <2>2 DEF HoldTable
<1>4. Accounts!Drop(S)
  BY <1>2, <1>3 DEF Accounts!Drop, Accounts!NoHold, NoHold, Balances, HoldTable
<1> QED
  BY <1>1, <1>4 DEF Accounts!Next, Accounts!Drop

LEMMA TickLapses ==
  ASSUME IInv, IInv', Tick
  PROVE  Accounts!Next
<1> DEFINE S == {r \in Requests : row[r] = "RESERVED" /\ ~(until[r] > now + 1)}
<1>1. now' = now + 1 /\ UNCHANGED <<wallet, call, row, until>>
  BY DEF Tick
<1>2. S \in SUBSET Accounts!Held
  BY SeenHolds DEF Accounts!Held, Accounts!NoHold, HoldTable, NoHold
<1>3. Balances' = Balances
  BY <1>1, SameBalances
<1>4. HoldTable' = [r \in Requests |-> IF r \in S THEN [HoldTable[r] EXCEPT !.state = "lapsed"]
                                        ELSE HoldTable[r]]
  <2>1. ASSUME NEW r \in S PROVE HoldOf(r)' = [HoldTable[r] EXCEPT !.state = "lapsed"]
    <3>1. r \in Requests /\ row[r] = "RESERVED" /\ ~(until[r] > now + 1)
      BY <2>1
    <3>2. HoldTable[r] = [state |-> IF until[r] > now THEN "live" ELSE "lapsed",
                          owner |-> call[r].target, amount |-> call[r].value]
      BY <3>1, SeenHolds
    <3>3. HoldOf(r)' = [state |-> "lapsed", owner |-> call[r].target, amount |-> call[r].value]
      BY <1>1, <3>1 DEF HoldOf
    <3> QED
      BY <3>2, <3>3
  <2>2. ASSUME NEW r \in Requests, r \notin S PROVE HoldOf(r)' = HoldOf(r)
    BY <1>1, <2>2 DEF HoldOf, IInv, TypeOK
  <2> QED
    BY <2>1, <2>2 DEF HoldTable
<1>5. Accounts!Lapse(S)
  BY <1>3, <1>4 DEF Accounts!Lapse, Balances, HoldTable
<1> HIDE DEF S
<1> QED
  BY <1>2, <1>5 DEF Accounts!Next, Accounts!Lapse

\* What has no counterpart in Funds: a wallet's state, a request's end.
LEMMA RestIsInvisible ==
  ASSUME IInv,
         \/ \E r \in Requests : Rollback(r)
         \/ \E u \in Users : Information(u) \/ \E s \in Changes : ChangeState(u, s)
         \/ UNCHANGED vars
  PROVE  UNCHANGED Accounts!fvars
<1>1. UNCHANGED <<call, row, until, now>>
  BY DEF Rollback, Information, ChangeState, vars
<1>2. \A u \in Users : wallet'[u].balance = wallet[u].balance
  BY DEF Rollback, Information, ChangeState, vars, IInv, TypeOK, WalletTable
<1> QED
  BY <1>1, <1>2, SameHolds, SameBalances, Stutter

LEMMA InitMaps == Init => Accounts!Init
<1> SUFFICES ASSUME Init PROVE Accounts!Init
  OBVIOUS
<1>1. Balances = [u \in Users |-> 0]
  BY DEF Balances, Init
<1>2. HoldTable = [r \in Requests |-> NoHold]
  BY DEF HoldTable, HoldOf, NoHold, Init
<1> QED
  BY <1>1, <1>2 DEF Accounts!Init, Accounts!NoHold, NoHold, Balances, HoldTable

LEMMA StepMaps == IInv /\ IInv' /\ [Next]_vars => [Accounts!Next]_Accounts!fvars
<1> SUFFICES ASSUME IInv, IInv', [Next]_vars PROVE Accounts!Next \/ UNCHANGED Accounts!fvars
  OBVIOUS
<1>1. CASE \E r \in Requests : \E c \in Calls : Search(r, c) \/ Replay(r, c)
  BY <1>1, BeginIsInvisible
<1>2. CASE \E r \in Requests : Debit(r)
  BY <1>2, DebitDeposits
<1>3. CASE \E r \in Requests : Credit(r)
  BY <1>3, CreditWithdraws
<1>4. CASE \E r \in Requests : Reserve(r)
  BY <1>4, ReservePlaces
<1>5. CASE \E r \in Requests : Transfer(r)
  BY <1>5, TransferMoves
<1>6. CASE \E r \in Requests : Confirm(r)
  BY <1>6, ConfirmCaptures
<1>7. CASE \E r \in Requests : Reject(r)
  <2>1. PICK r \in Requests : Reject(r)
    BY <1>7
  <2>2. /\ {r} \in SUBSET Requests /\ \A q \in {r} : row[q] = "RESERVED"
        /\ row' = [q \in Requests |-> IF q \in {r} THEN "REJECTED" ELSE row[q]]
        /\ until' = [q \in Requests |-> IF q \in {r} THEN 0 ELSE until[q]]
        /\ UNCHANGED <<wallet, call, now>>
    BY <2>1 DEF Reject, IInv, TypeOK, Pending
  <2> QED
    BY <2>2, SettlingDrops
<1>8. CASE ReleaseExpired
  <2>1. Overdue \in SUBSET Requests /\ \A q \in Overdue : row[q] = "RESERVED"
    BY DEF Overdue
  <2> QED
    BY <1>8, <2>1, SettlingDrops DEF ReleaseExpired
<1>9. CASE Tick
  BY <1>9, TickLapses
<1>10. CASE \/ \E r \in Requests : Rollback(r)
            \/ \E u \in Users : Information(u) \/ \E s \in Changes : ChangeState(u, s)
            \/ UNCHANGED vars
  BY <1>10, RestIsInvisible
<1> QED
  BY <1>1, <1>2, <1>3, <1>4, <1>5, <1>6, <1>7, <1>8, <1>9, <1>10 DEF Next

\* The wallet service (gRPC handlers, trigger, release worker) does to balances
\* and holds only what Funds allows, whatever the keys, lookups and terms.
THEOREM Refinement == Spec => ImplementsFunds
  BY Invariance, InitMaps, StepMaps, PTL DEF Spec, ImplementsFunds, Accounts!Spec
=============================================================================
