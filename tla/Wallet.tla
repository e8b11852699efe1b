------------------------------- MODULE Wallet -------------------------------
(***************************************************************************)
(* The wallet service: balances, operations with idempotency keys, and     *)
(* reservations that expire.                                               *)
(*                                                                         *)
(* A request is one gRPC call, served by one READ COMMITTED database       *)
(* transaction.  Its first statement looks the idempotency key up with a   *)
(* plain SELECT and takes no lock; the next ones lock the wallet rows FOR  *)
(* UPDATE, check, insert the row of table "transaction" and commit.  The   *)
(* row locks are held until the commit, so everything after the lookup is  *)
(* one step here, while any number of other requests may commit between    *)
(* the lookup and that step.                                               *)
(*                                                                         *)
(* A user owns at most one wallet (UNIQUE (user_id, type), and no code     *)
(* creates the type COMMON), so a wallet is named by its user.  A request  *)
(* inserts at most one row of "transaction", so a row is named by the      *)
(* request that inserted it and its columns are that request's arguments.  *)
(***************************************************************************)
EXTENDS Amounts

CONSTANTS
  Users,       \* owners of wallets
  Requests,    \* gRPC calls that move money
  Keys,        \* idempotency keys
  Calls,       \* the arguments requests come with
  Changes,     \* the states owners ask for with ChangeState
  DefaultTTL,  \* defaultReservationTTL
  MaxBigint,   \* the largest value of a BIGINT column
  MaxTime      \* bound: the clock stops here

ASSUME UsersAssumption    == IsFiniteSet(Users)
ASSUME RequestsAssumption == IsFiniteSet(Requests)
ASSUME BoundsAssumption   == /\ DefaultTTL \in Nat \ {0}
                             /\ MaxBigint \in Nat
                             /\ MaxTime \in Nat

Operations   == {"DEBIT", "CREDIT", "RESERVE", "SWAP"}
WalletStates == {"ACTIVE", "BLOCKED", "DELETED", "CLOSED"}
RowStates    == {"RESERVED", "SUCCESS", "REJECTED"}

\* named: the request carries the wallet's id, instead of leaving the service
\* to take the owner's default wallet (then target = owner).  source matters
\* to SWAP alone, ttl to RESERVE alone (0 when the client gives none).
CallRecord == [op : Operations, owner : Users, named : BOOLEAN,
               source : Users, target : Users, value : Nat,
               key : Keys, ttl : Nat]

ASSUME CallsAssumption ==
  /\ Calls \subseteq CallRecord
  /\ \A c \in Calls : ~c.named => c.target = c.owner

ASSUME ChangesAssumption == Changes \subseteq WalletStates

NoCall == [op |-> "NONE", value |-> 0]

VARIABLES
  wallet,  \* table "wallet": state ("NONE": no row yet) and balance, by user
  phase,   \* progress of each request
  call,    \* its arguments, once it has begun
  began,   \* now() of its database transaction: the time it began
  row,     \* the state of the row it inserted, "ABSENT" if it inserted none
  until,   \* reserved_until of that row, 0 for NULL
  now,     \* the clock
  before,  \* history: the rows committed when the request looked its key up
  late     \* history: owners of reservations confirmed after their term

vars == <<wallet, phase, call, began, row, until, now, before, late>>

WalletTable == [Users -> [state : WalletStates \cup {"NONE"}, balance : 0..MaxBigint]]

TypeOK ==
  /\ wallet \in WalletTable
  /\ phase \in [Requests -> {"idle", "searched", "replayed", "committed", "failed"}]
  /\ call \in [Requests -> Calls \cup {NoCall}]
  /\ began \in [Requests -> 0..MaxTime]
  /\ row \in [Requests -> RowStates \cup {"ABSENT"}]
  /\ until \in [Requests -> 0..MaxTime]
  /\ now \in 0..MaxTime
  /\ before \in [Requests -> SUBSET Requests]
  /\ late \subseteq Users

Init ==
  /\ wallet = [u \in Users |-> [state |-> "NONE", balance |-> 0]]
  /\ phase  = [r \in Requests |-> "idle"]
  /\ call   = [r \in Requests |-> NoCall]
  /\ began  = [r \in Requests |-> 0]
  /\ row    = [r \in Requests |-> "ABSENT"]
  /\ until  = [r \in Requests |-> 0]
  /\ now    = 0
  /\ before = [r \in Requests |-> {}]
  /\ late   = {}

-----------------------------------------------------------------------------
(* What the queries read.                                                  *)

Rows   == {r \in Requests : row[r] # "ABSENT"}
Value  == [r \in Requests |-> call[r].value]
TTL(c) == IF c.ttl = 0 THEN DefaultTTL ELSE c.ttl

\* Mutant of KeyTaken: only a finished operation answers for its key.
KeyFinished(key) == \E q \in Rows : call[q].key = key /\ row[q] = "SUCCESS"

\* The lookup ignores the owner, the operation and the amount.
KeyTaken(key) == \E q \in Rows : call[q].key = key

\* The reservations that count at time t, and what is left beside them.
Holds(u, t)     == {r \in Requests : /\ row[r] = "RESERVED"
                                     /\ call[r].target = u
                                     /\ until[r] > t}
Reserved(u, t)  == Total(Holds(u, t), Value)

\* Mutant of Available: the balance without the reservations.
BalanceAlone(u, t) == wallet[u].balance

Available(u, t) == wallet[u].balance - Reserved(u, t)

\* Table "wallet" as the locking statements find it: without a wallet id the
\* owner's default wallet is inserted first, unless he has one.
Ensured(c) ==
  IF ~c.named /\ wallet[c.owner].state = "NONE"
  THEN [wallet EXCEPT ![c.owner].state = "ACTIVE"]
  ELSE wallet

\* Mutant of Lockable: the row is found, its state is not looked at.
OwnedWallet(c) == c.target = c.owner /\ Ensured(c)[c.target].state # "NONE"

\* lockWallet: the wallet must be the caller's and active.
Lockable(c) ==
  /\ c.target = c.owner
  /\ Ensured(c)[c.target].state = "ACTIVE"

\* Mutant of Moved: a transfer whose source the trigger forgets (before
\* migration 4 it forgot both sides).
MovedInOnly(w, c) ==
  IF c.op = "CREDIT" \/ c.op = "RESERVE"
  THEN [w EXCEPT ![c.target].balance = @ - c.value]
  ELSE [w EXCEPT ![c.target].balance = @ + c.value]

\* The trigger: the balances once a transaction with these arguments succeeds.
Moved(w, c) ==
  CASE c.op = "DEBIT" -> [w EXCEPT ![c.target].balance = @ + c.value]
    [] c.op \in {"CREDIT", "RESERVE"} -> [w EXCEPT ![c.target].balance = @ - c.value]
    [] c.op = "SWAP" -> [w EXCEPT ![c.source].balance = @ - c.value,
                                  ![c.target].balance = @ + c.value]

\* CHECK (balance >= 0) and the width of the column: the statement fails, and
\* the transaction with it, when a balance would leave this range.
InRange(w) == \A u \in Users : w[u].balance \in 0..MaxBigint

-----------------------------------------------------------------------------
(* The requests that move money.                                           *)

\* Arguments that are refused before the database is asked anything.
Valid(c) == c.value > 0 /\ (c.op = "SWAP" => c.source # c.target)

Begin(r, c, outcome) ==
  /\ phase[r] = "idle"
  /\ Valid(c)
  /\ phase'  = [phase EXCEPT ![r] = outcome]
  /\ call'   = [call EXCEPT ![r] = c]
  /\ began'  = [began EXCEPT ![r] = now]
  /\ before' = [before EXCEPT ![r] = Rows]
  /\ UNCHANGED <<wallet, row, until, now, late>>

\* findByIdempotencyKey finds nothing: the request goes on to lock.
Search(r, c) == ~KeyTaken(c.key) /\ Begin(r, c, "searched")

\* It finds a row: that row is the answer, and nothing is written.
Replay(r, c) == KeyTaken(c.key) /\ Begin(r, c, "replayed")

\* The rest of the transaction inserts row r and commits.
Commit(r, state) ==
  /\ phase[r] = "searched"
  /\ phase' = [phase EXCEPT ![r] = "committed"]
  /\ row'   = [row EXCEPT ![r] = state]
  /\ UNCHANGED <<call, began, now, before, late>>

\* operate, for Debit: money comes in from outside.
Debit(r) ==
  /\ call[r].op = "DEBIT"
  /\ Lockable(call[r])
  /\ InRange(Moved(Ensured(call[r]), call[r]))
  /\ wallet' = Moved(Ensured(call[r]), call[r])
  /\ Commit(r, "SUCCESS")
  /\ UNCHANGED until

\* operate, for Credit: money leaves, if what is not reserved covers it.
Credit(r) ==
  /\ call[r].op = "CREDIT"
  /\ Lockable(call[r])
  /\ Available(call[r].target, began[r]) >= call[r].value
  /\ InRange(Moved(Ensured(call[r]), call[r]))
  /\ wallet' = Moved(Ensured(call[r]), call[r])
  /\ Commit(r, "SUCCESS")
  /\ UNCHANGED until

\* Bound: every reservation's term is over before the clock stops.
EndsInTime(c) == now + TTL(c) < MaxTime

\* Reserve puts money aside and leaves the balance alone.
Reserve(r) ==
  /\ call[r].op = "RESERVE"
  /\ EndsInTime(call[r])
  /\ Lockable(call[r])
  /\ Available(call[r].target, began[r]) >= call[r].value
  /\ wallet' = Ensured(call[r])
  /\ until'  = [until EXCEPT ![r] = now + TTL(call[r])]
  /\ Commit(r, "RESERVED")

\* Transfer: both wallets exist, the source is the caller's in whatever state,
\* the target is active.
Transfer(r) ==
  /\ call[r].op = "SWAP"
  /\ wallet[call[r].source].state # "NONE"
  /\ call[r].source = call[r].owner
  /\ Available(call[r].source, began[r]) >= call[r].value
  /\ wallet[call[r].target].state = "ACTIVE"
  /\ InRange(Moved(wallet, call[r]))
  /\ wallet' = Moved(wallet, call[r])
  /\ Commit(r, "SUCCESS")
  /\ UNCHANGED until

\* The transaction is rolled back: a check above fails, the client goes away,
\* the connection breaks, or the process stops.
Rollback(r) ==
  /\ phase[r] = "searched"
  /\ phase' = [phase EXCEPT ![r] = "failed"]
  /\ UNCHANGED <<wallet, call, began, row, until, now, before, late>>

-----------------------------------------------------------------------------
(* The end of a reservation, the state of a wallet, the clock.             *)

\* The state settle insists on, once it has locked the row.
Pending(r) == row[r] = "RESERVED"

\* settle: neither the reservation's term nor the state of the wallet is
\* looked at.
Confirm(r) ==
  /\ Pending(r)
  /\ InRange(Moved(wallet, call[r]))
  /\ wallet' = Moved(wallet, call[r])
  /\ row'    = [row EXCEPT ![r] = "SUCCESS"]
  /\ until'  = [until EXCEPT ![r] = 0]
  /\ late'   = IF until[r] > now THEN late ELSE late \cup {call[r].target}
  /\ UNCHANGED <<phase, call, began, now, before>>

Reject(r) ==
  /\ Pending(r)
  /\ row'   = [row EXCEPT ![r] = "REJECTED"]
  /\ until' = [until EXCEPT ![r] = 0]
  /\ UNCHANGED <<wallet, phase, call, began, now, before, late>>

\* Mutant of Overdue: the comparison turned round.
InForce == {r \in Requests : row[r] = "RESERVED" /\ until[r] > now}

Overdue == {r \in Requests : row[r] = "RESERVED" /\ until[r] < now}

\* The periodic worker: one UPDATE over every reservation past its term.
ReleaseExpired ==
  /\ Overdue # {}
  /\ row'   = [r \in Requests |-> IF r \in Overdue THEN "REJECTED" ELSE row[r]]
  /\ until' = [r \in Requests |-> IF r \in Overdue THEN 0 ELSE until[r]]
  /\ UNCHANGED <<wallet, phase, call, began, now, before, late>>

\* Reading one's wallets creates the default one.
Information(u) ==
  /\ wallet[u].state = "NONE"
  /\ wallet' = [wallet EXCEPT ![u].state = "ACTIVE"]
  /\ UNCHANGED <<phase, call, began, row, until, now, before, late>>

\* The owner changes the state of his wallet; the trigger keeps DELETED.
ChangeState(u, s) ==
  /\ wallet[u].state \notin {"NONE", "DELETED"}
  /\ wallet' = [wallet EXCEPT ![u].state = s]
  /\ UNCHANGED <<phase, call, began, row, until, now, before, late>>

Tick ==
  /\ now < MaxTime
  /\ now' = now + 1
  /\ UNCHANGED <<wallet, phase, call, began, row, until, before, late>>

Next ==
  \/ \E r \in Requests :
       \/ \E c \in Calls : Search(r, c) \/ Replay(r, c)
       \/ Debit(r) \/ Credit(r) \/ Reserve(r) \/ Transfer(r) \/ Rollback(r)
       \/ Confirm(r) \/ Reject(r)
  \/ \E u \in Users : Information(u) \/ \E s \in Changes : ChangeState(u, s)
  \/ ReleaseExpired
  \/ Tick

Spec == Init /\ [][Next]_vars

-----------------------------------------------------------------------------
(* Properties.                                                             *)

\* The wallets a transaction with arguments c pays into and takes from.
Enters(c, u) == c.op \in {"DEBIT", "SWAP"} /\ c.target = u
Leaves(c, u) == \/ c.op \in {"CREDIT", "RESERVE"} /\ c.target = u
                \/ c.op = "SWAP" /\ c.source = u

Incoming(u) == {r \in Requests : row[r] = "SUCCESS" /\ Enters(call[r], u)}
Outgoing(u) == {r \in Requests : row[r] = "SUCCESS" /\ Leaves(call[r], u)}

\* The balance column, which the trigger maintains row by row, is what the
\* history of successful transactions adds up to: no update of it is lost,
\* doubled or made by a transaction that did not succeed.
BalanceIsLedger ==
  \A u \in Users :
    wallet[u].balance = Total(Incoming(u), Value) - Total(Outgoing(u), Value)

\* What is reserved and in force never exceeds the balance: the same money is
\* not promised twice, nor spent past a reservation, whatever the order of
\* debits, credits, transfers, expiries and releases.  The owners of a
\* reservation that was confirmed after its term are excepted: between the end
\* of the term and the release its money counts as free and can be promised
\* again, and Confirm does not look at the term.
FundsPromisedOnce ==
  \A u \in Users \ late : Reserved(u, now) <= wallet[u].balance

\* A request repeated with the same key after the first one has committed
\* inserts nothing: two rows share a key only if each of the two requests
\* looked the key up before the other committed.
RepeatFindsTheFirst ==
  \A r, q \in Rows : (r # q /\ call[r].key = call[q].key) => q \notin before[r]

\* Confirm, Reject and the release worker race for a reservation, and one of
\* them wins: a row that has left RESERVED never changes again.
SettledIsFinal ==
  [][\A r \in Requests : row[r] \in {"SUCCESS", "REJECTED"} => row'[r] = row[r]]_vars

\* A wallet that is blocked, closed or deleted takes no money in and makes no
\* new reservation, even for a request that began while it was active.
FrozenWalletOnlyDrains ==
  [][\A u \in Users :
       wallet[u].state \in {"BLOCKED", "CLOSED", "DELETED"}
         => /\ wallet'[u].balance <= wallet[u].balance
            /\ Holds(u, now)' \subseteq Holds(u, now)]_vars

\* A reservation does not hold money for ever: it is confirmed, rejected, or
\* released once its term is over.
EveryReservationEnds ==
  \A r \in Requests : row[r] = "RESERVED" ~> row[r] # "RESERVED"

\* operations.go says of a concurrent repeat that it finds the key: an
\* idempotency key is executed at most once.
KeyExecutesOnce ==
  \A r, q \in Rows : call[r].key = call[q].key => r = q

-----------------------------------------------------------------------------
(* The service implements accounts with holds.  A row RESERVED is a hold,  *)
(* live until its reserved_until; a request is invisible until it commits. *)

HoldOf(r) ==
  IF row[r] = "RESERVED"
  THEN [state  |-> IF until[r] > now THEN "live" ELSE "lapsed",
        owner  |-> call[r].target,
        amount |-> call[r].value]
  ELSE [state |-> "none"]

Accounts == INSTANCE Funds WITH
  Owners    <- Users,
  Ids       <- Requests,
  MaxAmount <- MaxBigint,
  Sum       <- Total,
  balance   <- [u \in Users |-> wallet[u].balance],
  hold      <- [r \in Requests |-> HoldOf(r)]

\* Keys, lookups made too early, expiry and the release worker never let the
\* service do to balances and holds what Funds does not allow.
ImplementsFunds == Accounts!Spec
=============================================================================
