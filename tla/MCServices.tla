----------------------------- MODULE MCServices -----------------------------
(***************************************************************************)
(* Small instances of the parts that share nothing with one another, those *)
(* of Services and the payments.  A behaviour is of one part, chosen at    *)
(* the start; the others rest.                                             *)
(***************************************************************************)
EXTENDS Services, PaymentsPart, TLC

CONSTANTS k1, k2, p1, p2

VARIABLE part

paymentsVars == <<provider, store, applied, webhooks, client, pass, breaker>>

mcvars == <<part, services, paymentsVars>>

\* Keys, codes, addresses and events are alike, and so are the calls and the
\* instances that handle them.
Alike == Permutations({k1, k2}) \cup Permutations({p1, p2})

\* Amounts of requests, not positive ones among them.
RequestedSums == {-1, 1, 3}

\* Two accounts at one provider, and one at another.
ProviderOf == [account \in Accounts |-> IF account = "b1" THEN "y" ELSE "v"]

EventList == <<"t", "k">>

\* One reservation of each of the first two wallets.
WalletOfRow == <<0, 1>>

\* Bound: Redis has the news of one message under way.  News carry nothing but
\* the wake-up, so their order among messages does not matter.
MaxFlight == 2

\* The part that moves.
MCInit ==
  /\ ServicesInit /\ P!Init
  /\ part \in {"credit", "tokens", "keys", "contacts", "identities",
               "bindings", "preferences", "locks", "feed", "payments"}

MCNext ==
  /\ UNCHANGED part
  /\ \/ /\ UNCHANGED paymentsVars
        /\ \/ part = "credit" /\ CreditStep
           \/ part = "tokens" /\ TokensStep
           \/ part = "keys" /\ KeysStep
           \/ part = "contacts" /\ ContactsStep
           \/ part = "identities" /\ IdentitiesStep
           \/ part = "bindings" /\ BindingsStep
           \/ part = "preferences" /\ PreferencesStep
           \/ part = "locks" /\ LocksStep
           \/ part = "feed" /\ FeedStep /\ Cardinality(flight') <= MaxFlight
     \/ part = "payments" /\ P!Next /\ UNCHANGED services

MCSpec == MCInit /\ [][MCNext]_mcvars

=============================================================================
