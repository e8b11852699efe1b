# A TLA+ verification of Caldero

Caldero is a set of Go services for giving presents together: people keep
wishlists, pay into a common pot (a *caldron*) that is drawn for one of them,
hold money in wallets and are notified of what happens. This directory holds
TLA+ models of the services that move money or hand out rights to it, the TLC
configurations that check them on small instances, and TLAPS proofs of their main
properties for every instance.

- [The system](#the-system): components, state, operations, interactions
- [The modules](#the-modules) and how they correspond to the code
- [The runs](#the-runs): what each one checks, bounds, fairness
- [The proofs](#the-proofs): what is proved, and along which invariant
- [Disagreements with the documentation](#disagreements-with-the-documentation)
- [What is not modelled](#what-is-not-modelled) and [the plan](#the-plan)

## The system

Every service is a process of its own with its own PostgreSQL database; several
replicas may run. Services call each other over gRPC or HTTP and share nothing
else, so no transaction spans two services. Idempotency keys stand in for it.
Paths are relative to `src/services/`.

| Component | State | Operations | Hard behaviours | What makes it correct |
|---|---|---|---|---|
| **wallet** (`cmd/wallet`) | tables `wallet` (balance, state) and `transaction` (state, key, `reserved_until`); a trigger keeps the balance | Debit, Credit, Transfer, Reserve, Confirm, Reject, Information, ChangeState; periodic release of expired reservations | repeats with one key at the same time, Confirm against Reject against release, stale `current_timestamp`, deletion of a wallet under a request, crossing row locks | the balance is the ledger; money is promised once; a reservation settles once; a repeat finds the first; calls do not deadlock |
| **caldron** (`cmd/caldron`, `shared/caldron`) | tables `caldron`, `participant`, `gift`, `draw`; the pot's wallet | AddParticipant, RemoveParticipant, Contribute, Cancel, SetGifts, SetArbiter, Draw, Settle; periodic refunds | a transfer in the wallet and its record here are two steps, any of which may be the last; cancel, settle, draw and refunds interleave; prices move under a draw; rounds of the refund task are limited | records rest on transfers; the pot covers what is collected; the winner paid and gets everything; winner and gifts are what the published seed makes of what was read; ends are final; refunds finish |
| **wishlist** (`cmd/wishlist/gifts.go`) | table `item` (state, giver, `reserved_until`) | Show, Hide, Delete, Reserve, Cancel, Confirm, Reject, Accept; periodic release | the payment comes before the locked transition; a reservation ends meanwhile | one giver at a time; given means paid; the owner's answer is kept; abandoned reservations end |
| **shopaholic** (`cmd/wishlist/shopaholic.go`) | tables of runs and purchases | Run, list | record, order, payment and result are steps of their own, each may fail unanswered | nothing is paid that was not ordered; a run stays in its budget and says what it did |
| **credit** (`cmd/credit`) | credits, payments | issue, pay, schedule | payment in the wallet before the record, a CHECK that the last payment violates, an unsigned difference of months that have thirty days | what is paid is counted once and was charged; the schedule ends with the term |
| **notify delivery** (`cmd/notify/delivery.go`) | events (deduplicated), deliveries (claimed under a lease) | Publish, Claim, Delivered, Retry, Failed, Defer | lease expiry, two workers with one delivery, rate limits | an accepted event is delivered or given up, once unless a result is lost or a lease runs out |
| **notify feed and hub** (`channels.go`, `bus.go`, `hub.go`) | numbered messages, live subscribers, news in Redis | AppendMessage, poll, subscribe | numbers that commit out of order, news that is lost | nobody is skipped by a cursor or left asleep over a message |
| **notify preferences** (`handlers.go`, `db.go`) | table `preference` | set, unsubscribe, publish | loops of statements that overlap and fail on their way | who was told that letters are off gets none |
| **messenger bindings** (`messenger.go`, `db.go`) | table `messenger_binding`, codes | link, the bot's updates, block, send | updates that come twice or late, to bots of several instances; chats that change hands under a delivery | a message reaches a chat its user linked; a code links once |
| **payment** (`shared/payment`) | operations, applied events, a journal | deposit, payout, webhook, reconcile | requests repeated with their key, repeated and reordered webhooks, reconciliation racing them, answers that are lost or stored late | what is stored as settled is what the provider decided |
| **breaker** (`breaker.go`) | a state and counters shared by the callers of a client | Allow, Record | callers that pass a half-open breaker together, answers of old calls | the circuit follows the answers |
| **pick and draw** (`shared/pick`, `shared/caldron/draw.go`) | none (pure) | index without bias, shuffle, choice within a budget | tail rejection, order of the input, off-by-one | every member is equally likely; the budget is kept; the choice does not depend on the order of reading |
| **users: tokens** (`cmd/users`) | table `oauth_tokens` | codes, challenges, pairs, refresh, revocation, expiry | a pair is revoked and replaced by four statements without a transaction | what was used up serves no more |
| **users: signing keys** (`keys.go`) | table `keys`, the current key of each instance | start, rotate, clear, sign, publish | instances that rotate together and clear each other's keys, headers older than the signature | a key outlives one rotation |
| **users: contacts** (`confirmation_handlers.go`, `db.go`) | contacts of a user, table `confirmation` | register, update, request a code, present it | the contact changes between request, delivery, check and mark | a confirmed address was confirmed by a code that was made for it |
| **users: social identities** (`social*.go`, `db.go`) | tables `identity`, `social_login` | start, callback, link, unlink | first logins, links and unlinks together | nobody loses the last way to log in |
| **users: the rest** | profiles | start, routing, forms, input | library glue | |
| **fee, retry, rate limiter** (`fee.go`, `retry.go`, `ratelimit.go`) | none; none; a counter per address | a rounded multiplication, a loop with pauses, a window | boundaries | limits hold |
| **account, marketplace, web, skeleton** | caches | reads, start and stop | mostly library glue | |

Interactions that matter here:

- caldron, wishlist, shopaholic and credit call the wallet's `Transfer` with keys
  derived from their rows (`caldron:{id}:contribution:{user}`,
  `wishlist:{id}:gift`, ...). The wallet answers a used key as a success.
- wishlist and caldron publish events to notify with deduplication keys.
- users signs the tokens the other services verify; notify asks it for a user's contacts.
- payment and the marketplace are reached through a circuit breaker each.
- `RunPeriodic` (`run.go`) drives the background tasks of every service.

## The modules

| Module | Role | Models |
|---|---|---|
| `Amounts` | sums without recursion | `SUM(value)` in the queries |
| `Funds` | abstract specification | what the wallet promises: balances and holds |
| `Wallet` | component | `cmd/wallet`; implements `Funds` |
| `WalletLocks` | component | the row locks of the wallet's transactions |
| `Caldron` | component | the money of one caldron, with the wallet seen through `Transfer` |
| `Draw` | component | the gifts of one caldron and its draw; uses `Pick` |
| `RefundQueue` | component | the refunds of many cancelled caldrons |
| `Wishlist` | component | `cmd/wishlist/gifts.go`, `db.go`, with wallet, marketplace and notify seen through their calls |
| `Shopaholic` | component | the shopping runs of `cmd/wishlist`; uses `Pick` |
| `Pick` | operators | `shared/pick`: index, shuffle, choice within a budget |
| `Credit` | component | `cmd/credit` |
| `PaymentOptions` | constants | what `Payments` is given: keys, callers, settings of reconciler and breaker |
| `PaymentsPart` | composition | the variables of `Payments` and its operators under the name `P`, to stand beside `Services` |
| `Payments`, `Breaker` | components | `shared/payment`, composed with the circuit breaker of its client |
| `Delivery` | component | the queue of `cmd/notify`: `delivery.go`, `db.go`, in discrete time |
| `Feed` | component | the feed of `cmd/notify` and those who follow it: `channels.go`, `db.go`, `bus.go`, `hub.go`, `handlers.go` |
| `Preferences`, `Bindings` | components | the switches and the messengers' chats of `cmd/notify` |
| `Tokens`, `Keys`, `Contacts`, `Identities` | components | four parts of `cmd/users` |
| `Services` | composition | nine parts that share nothing, side by side: `Credit`, `Tokens`, `Keys`, `Contacts`, `Identities`, `Bindings`, `Preferences`, `WalletLocks`, `Feed` |
| `Pots` | composition | `Caldron`, `Draw` and `Shopaholic` side by side |
| `MCWallet`, `MCCaldron`, `MCRefundQueue`, `MCWishlist`, `MCDelivery`, `MCCredit` | instances | one component each |
| `MCPots` | instances | of `Pots` |
| `MCReservations` | instances | `Wishlist` and `Wallet`, whose reservations a periodic release must end, and `Feed`, whose messages a client must find by asking again |
| `MCTasks` | instances | `Caldron` and `RefundQueue`: what periodic refunds must finish |
| `MCServices` | instances | of `Services` and `PaymentsPart` |
| `AmountsProofs`, `WalletProofs`, `CaldronProofs`, `WishlistProofs`, `DeliveryProofs`, `PaymentsProofs`, `ServicesProofs`, `PotsProofs` | proofs | |

`Services` and `Pots` instantiate components that share no state: their next-state relation is the
disjunction of the parts' steps, each of which leaves the others alone, and they state
the properties of the parts under names of their own. The theorems about those parts are theorems of
the composition. Where an MC module holds instances of several components, a behaviour
is of one of them, chosen at the start by `kind`, `active`, `task` or `part`, while the others
rest; a property names the part it is about. So each part is explored as it would be alone.

Operators named as mutants ("Mutant of ...") are deliberately wrong versions of
the definition that follows them. Each breaks a property of a run, and shows
that the property depends on what the code does; no specification uses them.

### Wallet

A *request* is a gRPC call; its database transaction runs at READ COMMITTED. Its
first statement, the lookup of the idempotency key (`findByIdempotencyKey`), takes
no lock: that is the step `Search` (or `Replay`, when a row is found). Everything
after it happens with the wallet rows locked until the commit and is a second
step: `Debit`, `Credit`, `Reserve`, `Transfer`, or `Rollback` for every error path
and every crash. `began` is the transaction's `now()`, which `availableBalance`
compares terms with. `ensureWallet`, which the code calls on the way, is `Ensured`; the
trigger `fn_update_after_transaction` is `Moved`; the CHECK constraint and the width
of BIGINT are `InRange`, a transaction that violates them fails. A row of
`transaction` is named by the request that inserted it, a wallet by its owner (the
schema allows one default wallet per user and the code creates no other).
`Confirm` and `Reject` lock the row and are one step each; `ReleaseExpired` is one
UPDATE. Time is a counter up to `MaxTime`.

`Funds` forgets requests, keys, rows and the clock. A row in RESERVED is a hold, live
while its term lasts and lapsed after it; `ImplementsFunds` says that every
behaviour of `Wallet` is one of `Funds` under that mapping.

### Caldron

One caldron. A *worker* is a call under way (HTTP handler or a round of the refund
task) on any replica; `job[w].at` is the step it is about to take. The transactions of
`db.go` are single steps because they lock the caldron's row; the calls to the
wallet are two steps (`FindKey`, `Transfer`), as in `Wallet`; between any two steps a
call may end (`Abort`: error, lost answer, crash). `moved` is what the wallet committed
per kind of transfer and user, so `Pot` is the balance of the caldron's wallet.
`Contribute` is `StartContribution`, `OpenWallet`, `FindKey`, `Transfer`, `MarkPaid`.
`Cancel` and the task `RefundPending` both start the loop `RefundNext`, `Transfer`,
`MarkRefunded`, with `SkipRefund` for a participant whose refund fails. `Draw` may pick
any member: the seed and the arithmetic that turn it into a member are module `Draw`.

### Wishlist

One item, money or product. Every change of the row is a `Transition` under its lock,
with the table of transitions as `Actors` and the check of the giver in `MayMove`.
`Reserve` and `Choose` are the unlocked reading and the locked transition of one call,
`Accept`, ..., `Give` the steps of the other one: lookup and transfer of the gift, of
the fee (whose failure is ignored), or the order, then the transition. `events` is
what notify accepted; being a set, it deduplicates by key as notify does. `by` is a
history variable: who moved the item last.

### Delivery

The queue of one user's deliveries and the instances of the service that empty it. `row`
is the table `delivery`, with `next_attempt_at` as the time left (`wait`), which `Tick`
counts down. `Claim` is one statement (`FOR UPDATE SKIP LOCKED` and the lease); `batch[w]`
is what `Once` goes through, task by task: `Begin` is `handle` up to the sending (no sender,
no count, over the rate, no template, or on to the channel), `Send`, `SendFails` and `AnswerLost`
are what a channel may do, and `Settle` is the UPDATE by id alone, with what it writes in
`Settled`. `MarkLost` is an UPDATE that failed (only logged), `Stop` an instance that
ends, or a `Claim` whose answer was lost: the tasks come back when the lease is over.
`recent` is what `SentSince` counts. `HandleTime` bounds the time for one task, as the
timeouts of the channels' clients do.

A lease may run out while its batch is still being handled: `Tick` then makes a row due that somebody
holds (`RunsOut`), which the history variable `overruns` counts and `MaxFaults` bounds together with the lost results.
That is what the defaults of the code allow (32 tasks, up to 35 seconds each, a lease of two minutes), and no
property assumes it away: `SentOnce` counts it as a reason for a repetition, `QueueDrains` holds in spite of it, and
`LeaseKeeps` and `RateHolds` say what holds until it happens, run `delivery_lease` what happens then.
`LongLease` (the lease outlasts a whole batch) is a condition under which it never happens (`LongLeaseSuffices`).
`recent`, like `SentSince`, counts what is recorded as delivered: a message the channel took and whose
result was lost is in neither, so a channel may take more than `RateHolds` says is recorded.

### Feed

The messages of one user. An instance appends in one transaction: `AppendMessage` (the lookup
by event), `Number` (the upsert of `message_sequence`, whose row it then holds locked: no other
instance is at `insert`), `Insert` with the commit, or `Rollback`. `Publish` hands the news to
Redis, `flight` is what Redis has not brought yet, `Deliver` the loop of `Bus.Run` with
`Hub.Deliver`; `PublishHere` is the service without Redis or with a failing one, `Drop` what Redis
loses. A client's long poll is `Poll` (first reading), `Subscribe`, `Reread`, `Wake` or
`Leave`, and its cursor goes on from the last message of the page. `lost` and `seen` are
history variables.

`Delivery` calls the channel in-app through the same interface as the others, so the two
meet at `Send`: an event may be appended again, by any instance, which is what `Feed` allows.

### WalletLocks

Who waits for whom inside the wallet's database. A *transaction* is a call or a round of
the release task on a connection; `plan` is what it is going to lock, in order, `holds` what it
has. `Transfer` locks both wallets in the order of their identifiers (`InOrder`) and then each
once more when it reads it; `Settle` (Confirm, Reject) locks the reservation and then its wallet;
the release task meets the expired reservations in whatever order its scan takes
(`Meet`, `Lock`, `Skip`). What is read and written under the locks is module `Wallet`.

### Draw and Pick

`Pick` holds the pure algorithms. A stream is the sequence of random values that a seed and a label give,
read round and round; `Lasts` says that it does not consist of rejected values alone, without which the loop of
`Index` would not end. `Index` takes the first value outside the rejected tail and leaves the rest, `Canonical` puts
the items into the order of their keys (`Place`: the position a stable sort gives), `Exchanges` is the loop of Fisher
and Yates as a function of how often it has been round, and `Takes` the loop of `Within`. Keys are numbers.

`Draw` is a gift caldron everybody has paid into: lists (`SetGifts`) and arbiter, prices that move, and *calls* of Draw,
each a reading with its computation (`Choose`, with rows and prices as they come), the record that only
the first one makes (`Save`), the orders, and the payout, whose money is module `Caldron`. The record has what table `draw`
has: the winner, the chosen gifts with their prices, total and payout. The prices of the gifts that were passed over are
asked anew for the draw (`refreshPrices`) and stored nowhere; `offered`, a history variable, keeps them for `DrawFollowsSeed` alone.

### RefundQueue

Many caldrons, of which Cancel left something to refund. `cancelled` is the order of
`cancelled_at`, `PendingRefunds` the query with its limit, `job` the caldrons and participants
a call has read and still goes through. `RefundFails` goes on with the next one, as the loop
does; it is the only step for a user whose wallet is DELETED. How one refund goes through
the wallet is module `Caldron`.

### Shopaholic

A *run* with its rows of purchases. `StartRun` chooses with `Within`, `ChooseNothing` and `GoShopping` are the check
of the funds; then `AddPurchase`, `Order`, `Transfer`, `SettlePaid` or `SettleUnpaid` product by product, each of
which may be carried out without an answer, and `FinishRun` or `Stop`. `charged` is the wallet's memory of
keys, which name the run and the product.

### Credit

`Begin` is payCredit up to its checks, `WalletCredit` the charge, `PayCredit` the transaction that
records the payment under its unique key and moves the debt, `GiveUp` an error, a lost answer or
a stop at any of them. `asked` remembers the requests, so that a key which names two of them can be told. `HasSchedule`,
`Instalments` and `LastDue` are the schedule as far as months go: the months paid are spans of thirty days (`Spans`), the instalments
an unsigned difference of `Width` bits, each a calendar month after the one before, from the last payment or from now.

### Payments and Breaker

`provider` is what the provider knows, `store` what the system has stored, `webhooks` what may
still be delivered, any number of times and in any order, or be lost. `Request` to `Put` is a request with
its idempotency key: several callers may make it at the same time, and again when the operation was stored long ago; `Put`
overwrites whatever is there, as `Memory.Put` does. `Deliver` is the webhook's handler, `Load` to `Reconcile` a pass of the reconciler.
Both events and answers go through `Apply`, one transaction with its guards in `Applies`.
`Allow`, `Succeed`, `Fail` of `Breaker` surround each call of the provider; the breaker's clock is
the ticks left of `ResetAfter`. Nothing in the repository makes these calls outside the tests, so there is no fairness:
they may be made at any time or never.

### Tokens, Keys, Contacts, Identities

Four parts of users, each statement of the database a step, with other requests in between.
`Tokens`: rows of `oauth_tokens`; the OAuth2 library makes the storage's calls in an order of its own, which
is external (`at` of a request): a code is validated (`HandleCode`), its challenge is found and deleted (`FindChallenge`, `AnswerChallenge`), it is read again, invalidated and answered with a pair; a
refresh deletes the refresh token, then the access token, then makes two rows.
`Keys`: each instance remembers a current key; `RotateKeys` makes a row, `MakeCurrent` and `ClearKeys` follow;
a login stores the key id of its moment as the header of the session (`NewSession`), and whoever exchanges the code or a refresh token
later, on any instance, signs with the key that is current there under that header (`Sign`).
`Contacts`: a code is counted, then made (`CountConfirmations`, `CreateConfirmation`); it is found, then failed or
confirmed under the user's row lock (`ActiveConfirmation`, `FailConfirmation`, `ConfirmContact`), while
`UpdateProfile` changes addresses. Its message comes at a time of its own (`Deliver`), by letter to the address of that time
or in the application (`Places`); a code that came to nobody is not presented. A code's age passes the pause, the end of the code and the window of the rate.
`Identities`: a callback takes the state of its login, is told the account (`Profile`), looks its owner up
(`IdentityUser`) and then links or makes a user; `UnlinkIdentity` locks the user's row.

### Preferences and Bindings

`Preferences`: setting and unsubscribing are loops of `SetPreference` that may `Fail` on the way;
`PublishEvent` reads the switches and `Publish` queues. `quiet` is a history variable: the user was told
that letters are off and has not asked for any since.
`Bindings`: `LinkMessenger` gives out a code, a bot handles an update (`Stopped`, `Started`, `HandleCommand`), a
delivery reads the chat, sends, and on a refusal marks the binding (`MessengerBinding`, `Send`, `Refuse`,
`BlockMessenger`). Any update about a code that was given out may come at any time. `linked` is a history variable.

## The runs

Only the runs of the queue of deliveries check deadlock. All others set `CHECK_DEADLOCK FALSE`: every
call may have been served, the clock stops at its bound, an item that was given does not
move, codes and keys are used up, so these systems may really stop.

| Run | Expect | Checks | Instance |
|---|---|---|---|
| `wallet_safety` | pass | `BalanceIsLedger`, `RepeatFindsTheFirst`, `FrozenWalletOnlyDrains`; refinement `ImplementsFunds` | 2 users, 3 requests, 2 of the 3 keys shared by different operations, balances to 3, 2 ticks; requests are symmetric |
| `wallet_repeat` | violation | `KeyExecutesOnce` | 1 user, 3 requests |
| `pots_safety` | pass | money: `BooksFollowMoney`, `DrawnAmongPayers`, `CollectedIsThere`, `WinnerGetsAll`, `EndsAreFinal`; gifts: `DrawFollowsSeed`, `EveryMemberAlike`; shopping: `BudgetKept` | 2 users and a creator who only presides, 2 calls at a time, fixed amounts, symmetric; 3 members, 2 products with prices of 1 and 2, a fee of 1, values of 2 bits, 2 calls of Draw; 1 run, the same 2 products, budgets of 1 to 3, up to 2 items, funds to 4 |
| `caldron_cancel` | violation | `CancelledCanRefund` | 1 payer and a creator who only presides, 1 call at a time, fixed amounts |
| `queue_returns` | violation | `MoneyReturns` | 3 caldrons, 2 of them owing to one user, rounds of 2, 1 call at a time |
| `reservations_safety` | pass | item: `GivenIsPaid`, `NewsIsTrue`, `OneGiverAtATime`, `ConfirmedIsKept`, liveness `ReservationEnds`; money: liveness `EveryReservationEnds`; feed: liveness `EveryMessageIsRead` | 2 givers, 2 calls at a time, 2 reservations, 2 orders; 1 wallet, 3 requests, a short and a long term, 3 ticks; 2 events, 2 instances, 1 client, pages of 1, news of one event at a time under way in Redis |
| `wishlist_paid` | violation | `PayerHoldsItem` | as the item of the run above |
| `delivery_safety` | pass | `LeaseKeeps`, `SentOnce`, `RateHolds`; liveness `QueueDrains` | 3 events, 1 channel, 2 instances, batches of 2, a lease of 2 with 1 per task (so it may run out under the second task), 2 attempts, a rate of 1, 1 fault: a lost result, a stop or a lease that runs out |
| `delivery_lease` | violation | `TakenOnce` | 2 events, a lease of 3 with 2 per task, 1 fault |
| `tasks_settle` | pass | liveness `RefundsComplete`, `RefundsReachAll` | 2 payers, 2 calls at a time; 3 caldrons of 2 users, rounds of 2, 2 calls at a time |
| `services_safety` | pass | types of the nine parts of `Services` (`TypesOK`), and of each: `DebtFollowsCharges`, `ScheduleFitsTerm` (credit), `UsedUpIsDead` (tokens), `KeyOutlivesRotation` (keys), `ConfirmedByItsCode` (contacts), `EverybodyCanLogIn` (identities), `MessagesFindTheirOwner` (bindings), `UnsubscribedStays` (preferences), `CallsDoNotDeadlock` (locks), `CursorMissesNothing`, `SleepersAreWoken` (feed); of the payments `SettledTruly`, `OpenWhileFailing` | the table below |
| `credit_record` | violation | `ChargedCanBeRecorded` | 2 users, 1 credit, 2 keys, 2 calls |

The parts of `services_safety`:

| Part | Instance | Why it is enough |
|---|---|---|
| credit | a borrower and an operator, 1 credit, 2 keys, 2 calls, amounts of -1, 1 and 3, terms of 2 months, integers of 4 bits | two payments overlap, repeat each other's key with the same or another amount, and the last may come after the term, with a month more or less behind by thirty days |
| tokens | 1 session, with or without a challenge, 2 requests at a time, 2 pairs | two exchange one code, before or after its challenge is deleted; a pair is replaced while another request has the code or the old pair in its hands; sessions share nothing but the table |
| keys | 2 instances, 4 keys, 1 session | both rotate, one clears what the other has just made, and a login outlives both |
| contacts | 1 user, 2 addresses, 1 kind, 2 calls, 1 attempt, 2 codes | an address is changed while a code is made, delivered or checked, and changed back |
| identities | 3 accounts at 2 providers, 1 user with a password, 3 logins, 2 callbacks | a user of a first login, with two accounts to unlink, while a callback links one |
| bindings | 2 users, 2 chats, 2 codes, 2 bots, 1 delivery | a chat changes hands while a message is sent to it |
| preferences | 2 types of events, one of them a confirmation, letters, 2 calls, up to 2 settings | an unsubscription beside a setting or a publication |
| locks | 3 wallets, 2 reservations, 3 transactions | a circle of three; transfers that share one wallet |
| payments | 1 operation changed twice, 2 callers, a reconciler, a circuit that opens after 2 failures for 1 tick | two requests with one key overlap or repeat one another, webhooks and a pass come in between; an operation is what everything is about but the circuit, which the three callers share |
| feed | 2 events, 2 instances, 1 client, pages of 1, news of one event at a time under way in Redis | two events are appended together and one page cannot hold both; news carry nothing but the wake-up, so their order among events does not matter |

**Why the other bounds are enough.** Three requests are the fewest in which two race for
what a third one brought in, or a repeat and its first request meet a third. A
balance of 3 with amounts of 1 and 2 makes every sum of two operations possible, over
and under the limit of the column. Two ticks with a term of one let a reservation be
in force, at its end and past it, while another request began before. In `Caldron`
two calls at a time give every pairing of handlers (contribute and remove, settle and
cancel, cancel and refund task, two draws); a third adds another interleaving of the same
pairs. Two payers are the fewest for whom one refund may fail or be doubled while the other
is owed. In `Draw` three members make values of two bits have a tail to reject, and two calls read
different prices. In `Shopaholic` each product fits the budget alone and both do not, the same one may be chosen
twice, and runs meet only in the funds, which anything may spend. Three caldrons and rounds of two are the fewest that leave one out. In `Wishlist`
the second cycle is where a giver returns with a reservation he has lost. In `Delivery` three
tasks are the fewest that make two batches of two meet, one full and one not, and one fault (a lost result, a stop, or
a lease that runs out) is what `SentOnce` counts; once a lease has run out, `LeaseKeeps` and `RateHolds` say no more. In `Payments` two changes are a status that moves before it settles. What is proved (see below) holds for every value of the
constants, so for it the bounds only concern how the models are explored, not what is shown.

**Symmetry.** Permuted are values that no definition of the part compares, orders or chooses: requests in `wallet_safety`, users and calls in
`pots_safety`, and in `services_safety` the two keys (which stand for keys of payments, codes, addresses and events) and the two
callers (requests, instances, transactions). These runs check invariants and action properties only; the runs with liveness
use no symmetry.

**Sizes.** `services_safety` has 505 318 distinct states (depth 37), `reservations_safety` 583 837 (37), `tasks_settle` 59 769 (44), and each
of the runs ends in less than three minutes with two workers.

**Fairness.** `RunPeriodic` calls the background tasks for as long as a process lives, and
a failed round is followed by the next one: hence weak fairness of `ReleaseExpired` in
`Wallet` and `Wishlist`, with weak fairness of the clock. Nobody is obliged to
send, confirm or finish a call. In `Caldron` and `RefundQueue` every call ends, since each has a
deadline (`WF` of `Abort`); the refund task comes round again (`SF` of `RefundPending`), and what it
attempts for one participant over and over is not cut off and does not fail for ever if it can be made (`SF` of the
steps of the refund, user by user). Without the latter a wallet that refuses for ever
keeps a refund from finishing, as in the code. `Payments` has no fairness, because nothing in the repository starts its calls. In
`Delivery`, `Run` never ends (`WF` of `Claim` by some instance), every call of a channel or of the
database returns (`WF` of `Work`), and time passes; publications are not obliged, and the faults
are finitely many. In `Feed` the only fairness is that of the client: it asks again, and each wait
has an end (`waitParam` caps it). Nothing obliges an instance to tell anybody: `EveryMessageIsRead`
does not rest on it. The liveness properties of `MCTasks` are implications whose premise is the fairness of their own
part, since fairness to a part would exclude the behaviours in which it rests; in `MCReservations` the steps of a part
that rests are not enabled, and fairness asks nothing of them.

**Conditions in properties.** `FundsPromisedOnce` excepts owners of a reservation
confirmed after its term, `CollectedIsThere` is stated where all pay the same,
`WinnerGetsAll` where everyone on the list is waited for, `RefundsComplete` where the
pot was neither paid out nor drained by a double refund, `RefundsReachAll` as long as caldrons that can
never be refunded do not fill a round, `LeaseKeeps`, `GivesUp` and `RateHolds` (and the finality of a result in `EndsAreFinal`) until a lease runs out, `DebtFollowsCharges`
as to the amount where the client did not name two requests by one key, `ScheduleFitsTerm` as to its last date where something was paid,
`SettledTruly` but for an answer of the time before the decision that is stored after it. Each condition is a
behaviour of the code that the comment beside the property describes; the next but one
section lists them.

## The proofs

`tlapm` checks every module below to the last leaf. Constants are arbitrary, under the
assumptions named in the modules of the components and compositions (finite sets of users and requests, amounts that
are natural numbers, a creator and an owner who are distinguished from nobody, products and members with
ordered keys, streams that last). There is no bound on the number of requests, workers, users or amounts.
TLC evaluates the assumptions in the runs of the same modules.

**Sums** (`AmountsProofs`). A sum is the number of units its rows hold, so facts about
sums (adding a row, changing one value, monotonicity, sums of nothing) follow from the
library's theorems on cardinality instead of an induction.

**Wallet** (`WalletProofs`). The inductive invariant adds to the types
what a request's phase says of its row: only a committed request has a row, its value
is positive, a row is RESERVED exactly while its term is set, and what a request
found of its key before it began. From it follow
`TypeCorrect`, `LedgerTheorem` (the trigger's balance is the ledger), `PromisedOnce` (its
own strengthening: what is held at any time a transaction began with is at least what
is held now), `SequentialRepeats`, `ReservationsSettleOnce`, `FrozenWallets` and
`Refinement`: the initial state maps to the initial state of `Funds`, every step to a step
of it or a stutter.

**Caldron** (`CaldronProofs`). The invariant has three parts. `Booked` says what the rows
say of each other and of the transfers (it contains `BooksFollowMoney` and
`DrawnAmongPayers`). `Knows(w)` says, for every step a call may be at, what it has
established and still relies on after others moved: a call about to mark somebody
paid has seen his transfer, a refund was begun in a cancelled caldron, a draw names a
member who paid. `Forward` lists what no step undoes (transfers, payments, ends,
winners), which is why what one call knows survives the steps of the others. For
`CollectedCovered`, `Charged` adds that in a caldron of fixed amounts every payer was charged
at least what is recorded. For `WinnerTakesAll`, `Awarded` adds that nothing is drawn or handed over before
the last contribution is recorded, and that in a closed caldron (ready or settled, everyone on the list
waited for) what a call of Settle carries, or what was handed over, covers all that was
collected; `Steady` is what keeps it so: a closed caldron was closed before, or becomes so by its last contribution.

**Wishlist** (`WishlistProofs`). The same shape: `Knows(w)` says that the gift is paid when
a call reaches the fee or the transition, and that an event about to be published tells
of an end of the table of transitions; `Forward` is what keeps it so.
`TransitionType` is the lemma about the table every move goes through.

**Delivery** (`DeliveryProofs`), for any lease. The invariant has two halves. `Whole` always holds: the types, and the account of what was
sent, in which every sending beyond the first is paid for by a lost result, a stop or a lease that ran out (`Bounded`); it has to
cover two holders who write over each other's rows, and `NoRepeats` and the first half of `DeliveriesEndOnce` follow
from it. `Calm` holds as long as no lease has run out: a row that somebody holds is leased, hence not due, hence
claimed by nobody else, and what its holder knows of its attempts is what is in the row (`LeaseHolds`,
`AttemptsAreBounded`, the second half of `DeliveriesEndOnce`). `RateTheorem` counts, per channel, the recorded messages and the instances that
are sending or about to record one: at most the limit and one for each other instance.
`LongLeaseSuffices` is an inequality of clocks: for every task in a batch, the time left of its lease plus the time
its instance has spent on the task at hand exceeds what the rest of the batch may still
take. Claiming establishes it (this is where `LongLease` is used), a tick takes from one
side what it adds to the other, and leaving a task frees `HandleTime`.

**Payments** (`PaymentsProofs`). `ToldTrue` says that whatever anybody was told of an operation and has
not applied yet (an answer, a webhook, the reconciler's reading), and what is stored, is what the provider has decided if it is
a final status; since the provider's final statuses do not change, a late or repeated event cannot
contradict it, and what overwrites a settled operation can only be an answer that was PENDING when it was given
(`SettlementsAreTrue`). `CircuitFollowsFailures` goes through the steps of the breaker
(`BreakerKept`) and the fact that every step of `Payments` is one of them (`NextSteps`).

**The nine services** (`ServicesProofs`). Each part has an inductive invariant that says what its tables know of one
another and what every call on its way still knows when it continues; a step of another part
changes nothing the invariant speaks of.

*Credit* (`CreditInv`). A payment on record is of a credit that exists, under a key its owner was charged with; a
call past its checks has asked for what it is about to charge; a charge under its key is its own, or the key names two requests; and what a credit
says is paid is what it began with and the sum of its recorded payments, by
the sums of `AmountsProofs`: `DebtIsWhatIsLeft`. The spans of thirty days differ from the months by at most one, so that the months
that are left, counted on from the last payment, end with the term at the latest: `SchedulesEnd`.

*Tokens* (`TokensInv`). A session whose code was answered has no code left that is not used, only such sessions have refresh
tokens, and of the pair a request is replacing, what it has revoked is gone (`Gone`). The pair a request is making
is one nobody has refreshed yet (`Fresh`), and no two requests make or replace the same one (`PairsApart`): hence
`NothingServesTwice`, although four statements in a row have no transaction. It is about the rows: two requests that exchange one code
at the same time may both be answered, and the gateway, which checks a signature, asks for no row.

*Keys* (`KeysInv`). The last two keys made are in the table, whichever instance clears it, and nobody signs with a key that was
not made; a key followed by fewer than two rotations is one of those two, whoever holds it: an instance, a token or a header (`KeysAreKept`).

*Contacts* (`ContactsInv`). A code keeps the address it was made for, and a call that has found a code has found
one of its own user and kind; the mark is made where the address is still that one, by a code that has come to somebody (`ContactsAreConfirmed`).

*Identities* (`IdentitiesInv`). A callback that was told an account keeps it. An account with an owner is lost by
unlinking alone, which locks the user's row and counts what remains: `NobodyIsLockedOut` is inductive with that.

*Bindings* (`BindingsInv`). A chat that a user has, and a chat a delivery is about to send to, was linked by a code
given to that user; a code in a binding is its user's and has linked nothing yet, so no code links two chats (`MessagesFindOwners`).

*Preferences* (`PreferencesInv`). What an unsubscription still has to write, together with what is written, is every type of events
(`Covered`), unless something asks for letters meanwhile; a publication that read its channels under the promise has
no letters among them. So a kept promise needs all switches off, not one (`UnsubscribedAreLeftAlone`).

*Locks of the wallet* (`LocksInv`). The invariant gives a transaction its shape: what it
holds, by what it still wants, and that no lock is held twice. Whoever waits for a wallet holds only lower
ones, and whoever waits for a reservation holds no wallet. In a deadlock in which somebody waits for a
wallet, look at the one who waits for the greatest: whoever holds it waits for a greater one
still, or for nobody. So all wait for reservations, and only rounds of the release task hold one
reservation while they wait for another: two of them are in the circle (`NoDeadlockOfCalls`). The
greatest element comes of the library's well-foundedness of the natural numbers, not of an induction.

*Feed* (`FeedInv`). Who is past `Number` has the next number and is alone there
(`Locked`), so the numbers are 1 to `last`; no cursor is ahead of them (`Behind`). A page
has no holes (`WholePage`, by cardinalities) and an empty page leaves nothing behind the
cursor (`EmptyPage`, by the numbering): from these follow `CursorIsSafe` and
`NoWakeupMissed`, the latter because who waits has read after he subscribed.

`TypesAreKept` puts the nine invariants together.

**Draw, choice and shopping** (`PotsProofs`). First the rule of choice, for any items, prices and streams. A function that is
given at 0 and from each number to the next is defined by it (`Steps`, from the well-foundedness of the numbers), so
what one exchange or one item keeps, the loops keep (`ExchangesKeep`, `TakesFit`). The place of an item without an equal is its rank,
which the order of reading does not touch (`CanonicalOfSet`); a shuffle is a permutation (`ShuffleOfSet`); what is taken fits,
and what was passed over costs nothing or would not have fitted in the end, because the total only grows.

`DrawInv` then says that members and seed stay, and that what a call has computed, and not only what is recorded, can be
made again from the seed, the members and the offer it had (`Repeats`): whichever call saves first, its draw satisfies `DrawsFollowSeed`. `MembersAreAlike` counts: the values outside
the tail are full rounds of the number of members (`RoundsAreHeard`), each remainder comes up once in a round
(`Remainders`), and each member has one position (`MembersInOrder`).

`ShoppingInv` follows a run through its products. What is left is the end of what was chosen (`LeftInv`), what was spent is at
most what the products already passed cost, the last row is that of the product at hand (`PurchasedInv`), who counts as ordered
or was charged was ordered (`OrderedInv`, `ChargedInv`), and a run counted empty was charged for nothing. The sum over the set of
charged products is at most the sum over the sequence of chosen ones (`ChargedWithinBudget`), where a
product chosen twice counts twice and is charged once. Hence `BudgetsAreKept`.

Some properties are proved and not run any more: `FundsPromisedOnce`, `SettledIsFinal`, `FeedIsNumbered`,
`GivesUp`, `EndsAreFinal` of `Delivery`, the condition `LongLease`, and the types of the wallet, the caldron, the wishlist, the deliveries and the payments.

Every safety property and action property that a passing run checks is proved. Only model-checked are the liveness
properties (`EveryReservationEnds`, `RefundsComplete`, `RefundsReachAll`, `ReservationEnds`, `QueueDrains`, `EveryMessageIsRead`):
fairness and ENABLED are out of the prover's reach. That a draw or a run may be repeated concerns
the choice given its streams; that two seeds give independent streams is a matter of HMAC-SHA256 and not modelled.

## Disagreements with the documentation

Each has a run in which TLC finds the counterexample, and a quotation in `PROJECT.json`.

- `wallet_repeat`: two simultaneous requests with one key both execute. The lookup takes no
  lock, and the unique index includes the time of creation.
- `caldron_cancel`: between the payout and the transition to SETTLED a caldron may
  be cancelled, and what it still owes (what was contributed and not yet paid back by the wallet) is not in its pot. TLC's trace
  pays in, draws, pays out, stops before the transition, and cancels.
- `wishlist_paid`: a giver who cancels while his own Accept is under way has paid for
  an item that is free again; the next giver is not charged.
- `queue_returns`: caldrons that can never be refunded, because a wallet was deleted, keep their
  place at the head of the queue of refunds; as many as a round takes keep all later ones waiting for ever.
- `credit_record`: the payment of the whole remaining debt is charged, and the CHECK of the table refuses its
  record, at every repeat.
- `delivery_lease`: a lease covers one task and is given to a batch; the tasks at its end are
  claimed, and sent, by a second instance when a channel is slow.

Met while modelling, and visible in the models, but without a run of their own:

- Two calls that refund one participant at the same time pay him twice (consequence of
  `wallet_repeat`; README of caldron, lines 54-55). `RefundsComplete` excepts it.
- A reservation of the wallet past its term counts no more but can still be confirmed.
  `FundsPromisedOnce` excepts its owner.
- A contribution repeated with another amount (modes RANGE and INDIVIDUAL) is recorded with
  the new amount while the wallet moved the old one. `CollectedIsThere` is stated for
  fixed amounts.
- The contribution of a creator who only presides is accepted at any time; what comes
  after Settle's reading stays in the pot. `WinnerGetsAll` excepts it.
- Removing the last participant who has not paid leaves a complete caldron in
  PREPARING, and nobody's payment moves it on.
- `MaxParticipants` (`shared/caldron/models.go`) is used nowhere.
- One who was charged and is not yet recorded can be removed from the list
  (`cmd/caldron/db.go:315`), and nobody will refund him.
- A call of Draw that overlaps another orders the recorded gifts as well; one that stops after
  its record leaves them unordered for good, since the next call only pays out.
- A shopping run with the same product twice has one key in the wallet for both: it is charged once, reported as
  spent twice and ordered twice. A transfer that was made and not answered is not in `spent`. A run whose last
  product was ordered and not paid is DONE.
- A payment of a credit that was recorded and is repeated is answered 400 instead of 201 when it exceeds what is left
  (`cmd/credit/handlers.go:169` comes before `:192`). One repeated with another amount before its record is recorded
  with the new amount while the wallet charged the old one. `DebtFollowsCharges` therefore asks for the amount and the credit only of keys that name
  one request of their user. (A key that another user has used for a payment of his is answered 201 after the charge, and
  this payment is never recorded: keys of payments are unique over all credits.)
- A month of a credit's schedule has thirty days where it is behind and is one of the calendar where it is ahead (`payments.go:44-47`, a FIXME); a schedule
  of a credit nothing was paid of begins with the day it is asked for, whenever the term began.
- A message the channel took and whose result was lost is not counted in the rate (`SentSince`), so that with two
  lost results an instance may send three where one is allowed. `RateHolds` speaks of what is recorded.
- "Розыгрыш проверяем" (README of caldron, line 66; FR-41): whoever has the seed finds the winner again, but not why these gifts were chosen, because the prices of
  the ones passed over are taken anew for the draw and stored nowhere (`caldrons.go:678-702`, `migrations/2_gift_draw.up.sql:34-47`).
- "Терминальное состояние не меняется никогда" (`shared/payment/payment.go:62-63`), but `Memory.Put` stores any answer over any state
  (`memory.go:33-40`): a request repeated with its key, and answered before the provider decided, takes a settled operation back to PENDING when its answer is stored late.
  The webhooks of the decision are then known and ignored, and only the reconciler settles the operation again, if it has not before. `SettledTruly` excepts it.
- Nothing runs the reconciler (TASKS.md, T-077, item 6; ADR 0005, part 2; only its interval is configured, `config.go:111-114`): an operation whose webhooks
  are lost stays unsettled. So no liveness of payments is claimed.
- The header of a token names the key of its login, which is stored with the code and with each refresh token (`cmd/users/db.go:484-498, 517-521`), while
  the key that is current at the exchange signs. After a rotation the gateway refuses such a token, or looks for a key that is no more there. `KeyOutlivesRotation` is about the keys.
  An instance that has missed two rotations has a current key whose row is gone, and cannot sign.
- A code of a contact "уходит на контакт" (README of users, lines 28-29), but its event names the user alone: the letter goes to whatever the address is when
  it is delivered (`cmd/notify/email.go:97-119`), and the application shows the code too. Who changes the address, gets the code there and changes it back has confirmed
  an address that no code has reached: in `Contacts` such a behaviour has nine states. `ConfirmedByItsCode` says what does hold.
- Two requests that exchange one code at the same time may both be answered, since the code is looked at and marked used by two statements.
- An empty contact "clears" (`cmd/users/db.go:293-295`) and does not: it reaches the statement as NULL, and
  COALESCE keeps the old one.
- A failed attempt at a code "counts even if" its write fails (`confirmation_handlers.go:121-122`), and is
  only logged then; two requests that are counted together exceed the limit of codes by one.
- A user who came of a first login and unlinks that account cannot come back with it: the name is his already, and
  the transaction that makes the user fails.
- A refusal marks the user's binding, whatever chat he has linked meanwhile; an update about a stop that comes late
  marks a chat that was started again (`messenger.go:155-165`), and a mark that fails to be written is only logged.
- Letters that were queued before an unsubscription are still sent; setting several preferences is no transaction.
- Two rounds of the release task, on two instances, may wait for each other's reservations: the database
  fails one of them, and the next round repeats it.

## What is not modelled

- Partition maintenance of the wallet's history, and the history's pages: jobs on the storage of old rows.
- A deadlock's resolution by the database: it fails a transaction, which the models have as `Rollback` and `Abort`.
- Editing a caldron's text, invitations by link, and notifications of caldrons.
- Prices taken from the marketplace when an item is added to a wishlist, and what a viewer is shown.
- The value of an instalment (floating point, rounded) and the fee of a payment (one rounded multiplication with limits).
- The retry loop, which the models see as a call that may come again, and the rate limiter (a counter per address
  in fixed windows).
- WebSocket sessions of notify, which are pushed to and read nothing themselves: a client that loses one polls.
- Templates and the formats of the channels (Telegram, MAX, e-mail), the catalogue clients of the marketplace behind
  their cache, the rest of users, account, web, configuration, health and metrics: input and output, or library glue.

`PROJECT.json` lists every component with its status, and every hazard with the properties
that cover it or the reason why none does.

## The plan

Done: `Wallet` with `Funds` and its refinement, because every other service rests on it; `Caldron`, the largest
service; `Wishlist`; `Delivery` and `Feed`; `Payments` with `Breaker`; `Shopaholic`, `Credit`, `Draw` and `Pick`;
`RefundQueue` and `WalletLocks`; the four parts of users; `Bindings` and `Preferences`; the proofs of every safety
property that a run checks.

Left, in this order:

1. Proofs of `RefundQueue`: a caldron leaves the queue only when nothing is owed in it, the safe half of `RefundsReachAll`.
2. The action properties of the draw and the shopping runs (a record is written once, a finished run stays as it is), checked and proved.
3. `RateLimiter`: windows of fixed length and how much passes at their border.
