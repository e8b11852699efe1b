------------------------------ MODULE Services ------------------------------
(***************************************************************************)
(* The parts that share nothing with one another, side by side: each has   *)
(* tables, calls and instances of its own, and a step is a step of one of  *)
(* them.  The feed is EXTENDed and keeps its names; those of a part that   *)
(* another part uses as well get a name that tells them apart.             *)
(***************************************************************************)
EXTENDS Feed, Sequences

CONSTANTS
  Users, Calls,                                          \* of several parts
  Operators, Credits, PaymentKeys, Sums, Width, MaxMonth, \* payments of credits
  Sessions, MaxPairs,                                     \* tokens
  MaxKeys,                                                \* signing keys, and Sessions
  Owners, Addresses, Kinds, Required, MaxAttempts, RateLimit, MaxCodes, \* contacts
  Accounts, Provider, Registered, States,                 \* social identities
  Chats, Codes, Senders,                                  \* bindings
  EventTypes, Confirmations, Channels, MaxSettings,       \* preferences
  NumWallets, Rows, WalletOf, Txns                        \* locks of the wallet

VARIABLES
  credits, payments, charges, asked, pay, month,
  tokens, pairs, spent, request,
  table, made, current, rotation, header, token,
  contact, codes, confirming,
  people, identity, logins, used, callback,
  binding, issued, linked, update, sending,
  preference, asking, quiet, letters,
  kind, plan, holds

R == INSTANCE Credit WITH Keys <- PaymentKeys, Amounts <- Sums

T == INSTANCE Tokens WITH Requests <- Calls, issued <- pairs

K == INSTANCE Keys

C == INSTANCE Contacts WITH
  Users <- Owners, NoAddress <- Nothing, users <- contact, call <- confirming

I == INSTANCE Identities WITH NoUser <- Nothing, Callbacks <- Calls, users <- people

B == INSTANCE Bindings WITH Bots <- Instances

N == INSTANCE Preferences WITH call <- asking

L == INSTANCE WalletLocks

-----------------------------------------------------------------------------
(* What is known of the constants.                                         *)

\* Amounts are integers, and an unsigned difference of months is as wide as
\* any term.
ASSUME CreditAssumption ==
  /\ Sums \subseteq Int
  /\ MaxMonth \in Nat /\ 2^Width \in Nat /\ MaxMonth < 2^Width

\* "Nothing" is nobody.
ASSUME NobodyAssumption == Nothing \notin Users \cup Registered \cup Accounts

\* Bounds are numbers.
ASSUME BoundsAssumption ==
  /\ MaxKeys \in Nat /\ MaxCodes \in Nat
  /\ MaxPairs \in Nat /\ MaxSettings \in Nat

\* Letters are among the channels, and the types of events are listed.
ASSUME PreferencesAssumption ==
  /\ "EMAIL" \in Channels
  /\ EventTypes \in Seq({EventTypes[i] : i \in DOMAIN EventTypes})

\* Wallets are numbered, and a reservation has one.
ASSUME LocksAssumption == NumWallets \in Nat /\ WalletOf \in [Rows -> 0..NumWallets]

-----------------------------------------------------------------------------

creditVars      == <<credits, payments, charges, asked, pay, month>>
tokensVars      == <<tokens, pairs, spent, request>>
keysVars        == <<table, made, current, rotation, header, token>>
contactsVars    == <<contact, codes, confirming>>
identitiesVars  == <<people, identity, logins, used, callback>>
bindingsVars    == <<binding, issued, linked, update, sending>>
preferencesVars == <<preference, asking, quiet, letters>>
locksVars       == <<kind, plan, holds>>

services == <<creditVars, tokensVars, keysVars, contactsVars, identitiesVars,
              bindingsVars, preferencesVars, locksVars, vars>>

ServicesInit ==
  /\ R!Init /\ T!Init /\ K!Init /\ C!Init /\ I!Init
  /\ B!Init /\ N!Init /\ L!Init /\ Init

\* A step of each part, which leaves the others alone.
CreditStep ==
  R!Next /\ UNCHANGED
    <<tokensVars, keysVars, contactsVars, identitiesVars,
      bindingsVars, preferencesVars, locksVars, vars>>
TokensStep ==
  T!Next /\ UNCHANGED
    <<creditVars, keysVars, contactsVars, identitiesVars,
      bindingsVars, preferencesVars, locksVars, vars>>
KeysStep ==
  K!Next /\ UNCHANGED
    <<creditVars, tokensVars, contactsVars, identitiesVars,
      bindingsVars, preferencesVars, locksVars, vars>>
ContactsStep ==
  C!Next /\ UNCHANGED
    <<creditVars, tokensVars, keysVars, identitiesVars,
      bindingsVars, preferencesVars, locksVars, vars>>
IdentitiesStep ==
  I!Next /\ UNCHANGED
    <<creditVars, tokensVars, keysVars, contactsVars,
      bindingsVars, preferencesVars, locksVars, vars>>
BindingsStep ==
  B!Next /\ UNCHANGED
    <<creditVars, tokensVars, keysVars, contactsVars, identitiesVars,
      preferencesVars, locksVars, vars>>
PreferencesStep ==
  N!Next /\ UNCHANGED
    <<creditVars, tokensVars, keysVars, contactsVars, identitiesVars,
      bindingsVars, locksVars, vars>>
LocksStep ==
  L!Next /\ UNCHANGED
    <<creditVars, tokensVars, keysVars, contactsVars, identitiesVars,
      bindingsVars, preferencesVars, vars>>
FeedStep ==
  Next /\ UNCHANGED
    <<creditVars, tokensVars, keysVars, contactsVars, identitiesVars,
      bindingsVars, preferencesVars, locksVars>>

ServicesNext ==
  \/ CreditStep \/ TokensStep \/ KeysStep \/ ContactsStep \/ IdentitiesStep
  \/ BindingsStep \/ PreferencesStep \/ LocksStep \/ FeedStep

ServicesSpec == ServicesInit /\ [][ServicesNext]_services

-----------------------------------------------------------------------------

\* Every table and every call of every part has its type.
TypesOK ==
  /\ R!TypeOK /\ T!TypeOK /\ K!TypeOK /\ C!TypeOK /\ I!TypeOK
  /\ B!TypeOK /\ N!TypeOK /\ L!TypeOK /\ TypeOK

\* What a credit counts as paid was charged to the wallet, if a key names a request.
DebtFollowsCharges == R!DebtFollowsCharges

\* A schedule is no longer than the term, and once something was paid it ends with it.
ScheduleFitsTerm == R!ScheduleFitsTerm

\* No request that comes after a code was answered gets a pair for it, and no
\* row of a refreshed pair is accepted.
UsedUpIsDead == T!UsedUpIsDead

\* A key that signs, has signed or is named by a token outlives one rotation.
KeyOutlivesRotation == K!KeyOutlivesRotation

\* A confirmed address was confirmed by a code made while it was in the profile.
ConfirmedByItsCode == C!ConfirmedByItsCode

\* Nobody loses the last way to log in.
EverybodyCanLogIn == I!EverybodyCanLogIn

\* A chat gets the messages of the user who linked it.
MessagesFindTheirOwner == B!MessagesFindTheirOwner

\* Who has unsubscribed gets no letters.
UnsubscribedStays == N!UnsubscribedStays

\* Calls do not block one another for ever.
CallsDoNotDeadlock == L!CallsDoNotDeadlock

=============================================================================
