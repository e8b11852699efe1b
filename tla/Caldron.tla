------------------------------ MODULE Caldron ------------------------------
(***************************************************************************)
(* The caldron service: participants pay into a common pot, which is drawn *)
(* for one of them or, if the creator cancels, paid back.                  *)
(*                                                                         *)
(* One caldron.  A worker is one call being served: an HTTP request of the *)
(* creator, the arbiter or a participant, or one round of the periodic     *)
(* refund task, on any replica of the service.  Each of its database       *)
(* transactions and each wallet call is a step of its own; between two     *)
(* steps the other workers move, and the call may end there for good (an   *)
(* error, a timeout whose outcome is unknown, a client that goes away, a   *)
(* process that stops).                                                    *)
(*                                                                         *)
(* The wallet service is seen through its Transfer (module Wallet): it     *)
(* looks the idempotency key up, and commits later.  The pot's balance is  *)
(* what transfers paid in less what they took out (Wallet, BalanceIsLedger).*)
(***************************************************************************)
EXTENDS Amounts

CONSTANTS
  Users,                \* people who may be asked to take part
  Creator,              \* who owns the caldron
  CreatorParticipates,  \* whether he pays like everyone, or only presides
  NoOne,                \* no winner
  Mode,                 \* how a contribution is determined
  Contributions,        \* the amounts the caldron admits
  Workers               \* calls served at the same time

Modes == {"FIXED", "INDIVIDUAL", "RANGE"}

ASSUME PeopleAssumption ==
  /\ IsFiniteSet(Users)
  /\ NoOne \notin Users
  /\ CreatorParticipates \in BOOLEAN
ASSUME AmountsAssumption ==
  /\ Mode \in Modes
  /\ Contributions \subseteq Nat \ {0}
  /\ Mode = "FIXED" => \A a, b \in Contributions : a = b

VARIABLES
  state,        \* state of the caldron
  part,         \* state of each participant, "NONE" if there is no row
  expected,     \* what he is asked for, 0 for NULL
  contributed,  \* what he is recorded to have paid
  hasWallet,    \* whether wallet_id is set
  draw,         \* the winner in table "draw", NoOne if there is no row
  moved,        \* what the wallet transferred, by kind of transfer and user
  job           \* what each worker is doing

vars == <<state, part, expected, contributed, hasWallet, draw, moved, job>>

Kinds == {"CONTRIBUTION", "REFUND", "PAYOUT"}

\* at: the next step.  The kind and the user of a transfer are its key.
\* todo: participants this call has still to refund.
Job == [at     : {"idle", "wallet", "lookup", "transfer", "mark", "refund", "draw", "settle"},
        kind   : Kinds \cup {"NONE"},
        user   : Users \cup {NoOne},
        amount : Nat,
        todo   : SUBSET Users]

Idle == [at |-> "idle", kind |-> "NONE", user |-> NoOne, amount |-> 0, todo |-> {}]

TypeOK ==
  /\ state \in {"PREPARING", "READY", "SETTLED", "CANCELLED"}
  /\ part \in [Users -> {"NONE", "INVITED", "PAID", "REFUNDED"}]
  /\ expected \in [Users -> Contributions \cup {0}]
  /\ contributed \in [Users -> Nat]
  /\ hasWallet \in BOOLEAN
  /\ draw \in Users \cup {NoOne}
  /\ moved \in [Kinds -> [Users -> Nat]]
  /\ job \in [Workers -> Job]

\* The row has just been inserted.  A creator who takes part is added by a
\* transaction of its own, like anyone else.
Init ==
  /\ state = "PREPARING"
  /\ part = [u \in Users |-> "NONE"]
  /\ expected = [u \in Users |-> 0]
  /\ contributed = [u \in Users |-> 0]
  /\ hasWallet = FALSE
  /\ draw = NoOne
  /\ moved = [k \in Kinds |-> [u \in Users |-> 0]]
  /\ job = [w \in Workers |-> Idle]

-----------------------------------------------------------------------------

In(status) == {u \in Users : part[u] = status}
Participants == {u \in Users : part[u] # "NONE"}

\* Those a contribution is expected from: not the creator who only presides.
Members == {u \in Participants : u = Creator => CreatorParticipates}

\* Mutant of Complete: the first payment completes the caldron.
AnyPaid == \E u \in Members : part[u] = "PAID"

Complete == Members # {} /\ \A u \in Members : part[u] = "PAID"

\* What reads of the caldron report as collected.
Collected == Total(In("PAID"), contributed)

\* ContributionFor: the amounts a request of u may end up with.
Asked(u) == IF Mode = "INDIVIDUAL" THEN {expected[u]} \ {0} ELSE Contributions

\* The wallet: what is in the pot, and whether a key has been used.  The key
\* of the payout does not name the winner.
Pot == Total(Users, moved["CONTRIBUTION"])
         - Total(Users, moved["REFUND"]) - Total(Users, moved["PAYOUT"])

\* Mutant of KeyTaken: no key names the participant it is for.
KeyOfKind(kind, u) == \E v \in Users : moved[kind][v] > 0

KeyTaken(kind, u) == IF kind = "PAYOUT"
                     THEN \E v \in Users : moved[kind][v] > 0
                     ELSE moved[kind][u] > 0

Goes(w, at) == job' = [job EXCEPT ![w].at = at]
Ends(w)     == job' = [job EXCEPT ![w] = Idle]

-----------------------------------------------------------------------------
(* The creator's list.  One transaction each, under the caldron's lock.    *)

\* Mutant of AddParticipant: the list is open whatever the caldron's state.
AddAnyTime(u) ==
  /\ part[u] \in {"NONE", "INVITED"}
  /\ part' = [part EXCEPT ![u] = "INVITED"]
  /\ \E a \in Contributions :
       expected' = [expected EXCEPT ![u] = IF Mode = "RANGE" THEN 0 ELSE a]
  /\ UNCHANGED <<state, contributed, hasWallet, draw, moved, job>>

AddParticipant(u) ==
  /\ state = "PREPARING"
  /\ part[u] \in {"NONE", "INVITED"}
  /\ part' = [part EXCEPT ![u] = "INVITED"]
  /\ \E a \in Contributions :
       expected' = [expected EXCEPT ![u] = IF Mode = "RANGE" THEN 0 ELSE a]
  /\ UNCHANGED <<state, contributed, hasWallet, draw, moved, job>>

RemoveParticipant(u) ==
  /\ state = "PREPARING"
  /\ part[u] = "INVITED"
  /\ part' = [part EXCEPT ![u] = "NONE"]
  /\ expected' = [expected EXCEPT ![u] = 0]
  /\ UNCHANGED <<state, contributed, hasWallet, draw, moved, job>>

-----------------------------------------------------------------------------
(* A transfer, whatever it is for.                                         *)

\* findByIdempotencyKey, in the wallet: a used key is answered as a success.
FindKey(w) ==
  /\ job[w].at = "lookup"
  /\ Goes(w, IF KeyTaken(job[w].kind, job[w].user) THEN "mark" ELSE "transfer")
  /\ UNCHANGED <<state, part, expected, contributed, hasWallet, draw, moved>>

\* The wallet commits.  The pot must cover what leaves it; a participant who
\* cannot pay is a call that ends.
Transfer(w) ==
  /\ job[w].at = "transfer"
  /\ job[w].kind # "CONTRIBUTION" => job[w].amount <= Pot
  /\ moved' = [moved EXCEPT ![job[w].kind][job[w].user] = @ + job[w].amount]
  /\ Goes(w, "mark")
  /\ UNCHANGED <<state, part, expected, contributed, hasWallet, draw>>

\* The call ends early, whatever the wallet has done so far.
Abort(w) ==
  /\ job[w].at # "idle"
  /\ Ends(w)
  /\ UNCHANGED <<state, part, expected, contributed, hasWallet, draw, moved>>

-----------------------------------------------------------------------------
(* Contribute.                                                             *)

\* StartContribution decides under the lock, and writes nothing.
StartContribution(w, u) ==
  /\ job[w].at = "idle"
  /\ part[u] = "INVITED"
  /\ state = "PREPARING"
  /\ \E a \in Asked(u) :
       job' = [job EXCEPT ![w] =
                 [Idle EXCEPT !.at = "wallet", !.kind = "CONTRIBUTION", !.user = u, !.amount = a]]
  /\ UNCHANGED <<state, part, expected, contributed, hasWallet, draw, moved>>

\* Mutant of OpenWallet: the payment is recorded without the transfer.
MarkFirst(w) ==
  /\ job[w].at = "wallet"
  /\ hasWallet' = TRUE
  /\ Goes(w, "mark")
  /\ UNCHANGED <<state, part, expected, contributed, draw, moved>>

\* walletOf: the pot's wallet is opened for the first contribution.
OpenWallet(w) ==
  /\ job[w].at = "wallet"
  /\ hasWallet' = TRUE
  /\ Goes(w, "lookup")
  /\ UNCHANGED <<state, part, expected, contributed, draw, moved>>

\* The last contribution makes the caldron ready.
MarkPaid(w) ==
  /\ job[w].at = "mark"
  /\ job[w].kind = "CONTRIBUTION"
  /\ IF part[job[w].user] = "INVITED"
     THEN /\ part' = [part EXCEPT ![job[w].user] = "PAID"]
          /\ contributed' = [contributed EXCEPT ![job[w].user] = job[w].amount]
     ELSE UNCHANGED <<part, contributed>>
  /\ state' = IF state = "PREPARING" /\ Complete' THEN "READY" ELSE state
  /\ Ends(w)
  /\ UNCHANGED <<expected, hasWallet, draw, moved>>

-----------------------------------------------------------------------------
(* Cancel, and the periodic task that finishes what Cancel began.          *)

\* The participants a call finds PAID are refunded one by one, in an order
\* that does not matter.  Without a wallet there is nothing to refund.
Refund(todo) ==
  IF todo = {} \/ ~hasWallet
  THEN Idle
  ELSE [Idle EXCEPT !.at = "refund", !.kind = "REFUND", !.todo = todo]

\* Transition to CANCELLED under the lock; its reload gives the participants.
Cancel(w) ==
  /\ job[w].at = "idle"
  /\ state \in {"PREPARING", "READY"}
  /\ state' = "CANCELLED"
  /\ job' = [job EXCEPT ![w] = Refund(In("PAID"))]
  /\ UNCHANGED <<part, expected, contributed, hasWallet, draw, moved>>

\* Mutant of RefundPending: only caldrons nobody of which was refunded yet.
RefundWhole(w) ==
  /\ job[w].at = "idle"
  /\ state = "CANCELLED"
  /\ In("PAID") # {}
  /\ In("REFUNDED") = {}
  /\ job' = [job EXCEPT ![w] = Refund(In("PAID"))]
  /\ UNCHANGED <<state, part, expected, contributed, hasWallet, draw, moved>>

RefundPending(w) ==
  /\ job[w].at = "idle"
  /\ state = "CANCELLED"
  /\ In("PAID") # {}
  /\ job' = [job EXCEPT ![w] = Refund(In("PAID"))]
  /\ UNCHANGED <<state, part, expected, contributed, hasWallet, draw, moved>>

\* On to the next participant; the wallet looks his key up.  What he paid is
\* in the list that was read: a PAID row keeps its amount.
RefundNext(w, u) ==
  /\ job[w].at = "refund"
  /\ u \in job[w].todo
  /\ job' = [job EXCEPT ![w].at = IF KeyTaken("REFUND", u) THEN "mark" ELSE "transfer",
                        ![w].user = u,
                        ![w].amount = contributed[u],
                        ![w].todo = @ \ {u}]
  /\ UNCHANGED <<state, part, expected, contributed, hasWallet, draw, moved>>

MarkRefunded(w) ==
  /\ job[w].at = "mark"
  /\ job[w].kind = "REFUND"
  /\ part' = IF part[job[w].user] = "PAID"
             THEN [part EXCEPT ![job[w].user] = "REFUNDED"] ELSE part
  /\ job' = [job EXCEPT ![w] = Refund(job[w].todo)]
  /\ UNCHANGED <<state, expected, contributed, hasWallet, draw, moved>>

\* One refund fails, or its answer is lost: the loop goes on to the others.
SkipRefund(w) ==
  /\ job[w].at \in {"transfer", "mark"}
  /\ job[w].kind = "REFUND"
  /\ job' = [job EXCEPT ![w] = Refund(job[w].todo)]
  /\ UNCHANGED <<state, part, expected, contributed, hasWallet, draw, moved>>

-----------------------------------------------------------------------------
(* Draw and Settle.                                                        *)

\* Draw reads the caldron and computes the winner.  He depends on the members
\* and on the seed, which is not modelled: it may be any of the members.
Draw(w, u) ==
  /\ job[w].at = "idle"
  /\ state = "READY"
  /\ draw = NoOne
  /\ u \in Members
  /\ job' = [job EXCEPT ![w] = [Idle EXCEPT !.at = "draw", !.user = u]]
  /\ UNCHANGED <<state, part, expected, contributed, hasWallet, draw, moved>>

\* INSERT ... ON CONFLICT DO NOTHING: the first result stays.
SaveDraw(w) ==
  /\ job[w].at = "draw"
  /\ draw' = IF draw = NoOne THEN job[w].user ELSE draw
  /\ Goes(w, "settle")
  /\ UNCHANGED <<state, part, expected, contributed, hasWallet, moved>>

\* Settle, after SaveDraw, by a repeated Draw, or on request.  The caldron is
\* read without a lock.
Settle(w) ==
  /\ job[w].at \in {"idle", "settle"}
  /\ state = "READY"
  /\ draw # NoOne
  /\ Collected > 0
  /\ job' = [job EXCEPT ![w] = [Idle EXCEPT !.at = "lookup", !.kind = "PAYOUT",
                                            !.user = draw, !.amount = Collected]]
  /\ UNCHANGED <<state, part, expected, contributed, hasWallet, draw, moved>>

\* Mutant of MarkSettled: the transition is not checked.
SettleAnyhow(w) ==
  /\ job[w].at = "mark"
  /\ job[w].kind = "PAYOUT"
  /\ state' = "SETTLED"
  /\ Ends(w)
  /\ UNCHANGED <<part, expected, contributed, hasWallet, draw, moved>>

\* Transition to SETTLED; a caldron that is READY no more is an error.
MarkSettled(w) ==
  /\ job[w].at = "mark"
  /\ job[w].kind = "PAYOUT"
  /\ state' = IF state = "READY" THEN "SETTLED" ELSE state
  /\ Ends(w)
  /\ UNCHANGED <<part, expected, contributed, hasWallet, draw, moved>>

-----------------------------------------------------------------------------

Next ==
  \/ \E u \in Users : AddParticipant(u) \/ RemoveParticipant(u)
  \/ \E w \in Workers :
       \/ \E u \in Users : StartContribution(w, u) \/ RefundNext(w, u) \/ Draw(w, u)
       \/ OpenWallet(w) \/ FindKey(w) \/ Transfer(w) \/ Abort(w)
       \/ MarkPaid(w) \/ MarkRefunded(w) \/ MarkSettled(w)
       \/ Cancel(w) \/ RefundPending(w) \/ SkipRefund(w)
       \/ SaveDraw(w) \/ Settle(w)

Spec == Init /\ [][Next]_vars

\* Every call ends.  The refund task comes round again and again, and what it
\* attempts for a participant for ever does not fail for ever.
Fairness ==
  /\ \A w \in Workers : WF_vars(Abort(w))
  /\ SF_vars(\E w \in Workers : RefundPending(w))
  /\ \A u \in Users :
       /\ SF_vars(\E w \in Workers : RefundNext(w, u))
       /\ SF_vars(\E w \in Workers : job[w].kind = "REFUND" /\ job[w].user = u /\ Transfer(w))
       /\ SF_vars(\E w \in Workers : job[w].user = u /\ MarkRefunded(w))

-----------------------------------------------------------------------------
(* Properties.                                                             *)

\* Every record of money rests on a transfer the wallet has committed, though
\* the record and the transfer live in two databases and any call may stop
\* between the two: who counts as PAID was charged, who counts as REFUNDED
\* was paid back, a caldron that counts as SETTLED was paid out to the winner
\* of its draw.  And a payer's caldron knows its wallet, or Cancel would take
\* it for empty.
BooksFollowMoney ==
  /\ \A u \in Users : /\ part[u] \in {"PAID", "REFUNDED"} => moved["CONTRIBUTION"][u] > 0
                      /\ part[u] = "REFUNDED" => moved["REFUND"][u] > 0
                      /\ part[u] = "PAID" => hasWallet
  /\ state = "SETTLED" => draw # NoOne /\ moved["PAYOUT"][draw] > 0

\* A caldron is drawn among payers only: once it is READY every member has
\* paid, the winner of a draw is a member who paid, and money goes to nobody
\* else.
DrawnAmongPayers ==
  /\ state \in {"READY", "SETTLED"} => Complete
  /\ draw # NoOne => draw \in Members /\ part[draw] \in {"PAID", "REFUNDED"}
  /\ \A u \in Users : moved["PAYOUT"][u] > 0 => u = draw

PaidOut == \E u \in Users : moved["PAYOUT"][u] > 0

\* What the caldron reports as collected, and will hand over, is in its
\* wallet until somebody has been paid out of it, however often a contribution
\* was interrupted and repeated.  Only where everyone pays the same: a repeat
\* that asks for another amount is recorded with the new one, while the wallet
\* answers it with the first transfer.
CollectedIsThere ==
  state \in {"PREPARING", "READY"} /\ ~PaidOut => Collected <= Pot

\* The winner of a settled caldron got all that was collected, though Settle
\* read the sum without a lock and contributions were under way.  Excepted is
\* a caldron with a participant who is not waited for, the creator who only
\* presides: what he pays after that reading stays in the pot.
WinnerGetsAll ==
  state = "SETTLED" /\ Members = Participants
    => Collected <= moved["PAYOUT"][draw]

\* What is over stays over: no call that was under way revives a caldron that
\* ended, replaces a winner, takes a payer off the list, or marks anyone
\* refunded in a caldron that was not cancelled.
EndsAreFinal ==
  [][/\ state \in {"SETTLED", "CANCELLED"} => state' = state
     /\ draw # NoOne => draw' = draw
     /\ \A u \in Users :
          /\ part[u] = "PAID" => part'[u] = "PAID" \/ (part'[u] = "REFUNDED" /\ state = "CANCELLED")
          /\ part[u] = "REFUNDED" => part'[u] = "REFUNDED"]_vars

RefundedTwice == \E u \in Users : moved["REFUND"][u] > contributed[u]

\* Refunds that a failure interrupted are finished by the periodic task, as
\* long as the pot holds what it owes: the prize has not been paid out (see
\* CancelledCanRefund), and no two calls that looked a refund's key up at the
\* same time have both paid it (see KeyExecutesOnce in module Wallet).
RefundsComplete ==
  \A u \in Users :
    (state = "CANCELLED" /\ part[u] = "PAID")
      ~> (part[u] = "REFUNDED" \/ PaidOut \/ RefundedTwice)

\* What is still owed: the contributions the wallet has paid back to nobody.
Owed == Total({u \in In("PAID") : moved["REFUND"][u] = 0}, contributed)

\* The README says that a caldron can be cancelled at any moment and the money
\* is returned: the pot of a cancelled caldron holds what it still owes.
CancelledCanRefund == state = "CANCELLED" => Owed <= Pot

=============================================================================
