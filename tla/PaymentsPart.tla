---------------------------- MODULE PaymentsPart ----------------------------
(***************************************************************************)
(* The payments as one of several parts that share nothing (MCServices):   *)
(* their variables, and their operators under a name of their own.         *)
(***************************************************************************)
EXTENDS PaymentOptions

VARIABLES provider, store, applied, webhooks, client, pass, breaker

P == INSTANCE Payments

\* What is stored as settled is what the provider decided, and nothing takes
\* it back but an answer of the time before the decision, stored after it
\* (Put, ApplyTo and Reconcile).
SettledTruly == P!SettledTruly

\* The circuit is away from closed exactly while the answers fail, whichever
\* of the calls that share it gets them (Breaker.record).
OpenWhileFailing == P!OpenWhileFailing

=============================================================================
