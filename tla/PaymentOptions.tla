--------------------------- MODULE PaymentOptions ---------------------------
(***************************************************************************)
(* What payment operations are given: who requests them, and the settings  *)
(* of the reconciler and of the circuit breaker.                           *)
(***************************************************************************)
EXTENDS Naturals

CONSTANTS
  Ops,          \* one for each idempotency key of a request
  NoOp,
  Callers,      \* who request operations, at the same time
  Limit,        \* of one pass of the reconciler
  MaxChanges,   \* bound: how often the provider changes an operation
  Threshold, ResetAfter

\* A bound is a number, and NewBreaker makes a threshold positive that is not.
ASSUME SettingsAssumption ==
  MaxChanges \in Nat /\ Threshold \in Nat \ {0} /\ ResetAfter \in Nat

=============================================================================
