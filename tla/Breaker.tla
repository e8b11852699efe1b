------------------------------ MODULE Breaker ------------------------------
(***************************************************************************)
(* The circuit breaker between a service and something that may be down.   *)
(* Its state is shared by all the calls of one client, which change it in  *)
(* two steps under a mutex: before a call (Allow) and after it (Record).   *)
(* Between the two the call is on its way, and others come and go.         *)
(***************************************************************************)
EXTENDS Naturals

CONSTANTS
  Threshold,   \* failures in a row that open the circuit
  ResetAfter   \* ticks since the last failure before a call may pass again

VARIABLE breaker  \* state, failures in a row, ticks left of ResetAfter

BreakerStates == {"CLOSED", "OPEN", "HALF_OPEN"}

BreakerType ==
  breaker \in [state : BreakerStates, failures : 0..Threshold, rest : 0..ResetAfter]

InitBreaker == breaker = [state |-> "CLOSED", failures |-> 0, rest |-> 0]

Passes == breaker.state = "OPEN" => breaker.rest = 0

\* ErrCircuitOpen.
Refuse == ~Passes /\ UNCHANGED breaker

\* Everybody passes a half-open circuit, not only the first one.
Allow ==
  /\ Passes
  /\ breaker' = [breaker EXCEPT !.state = IF @ = "OPEN" THEN "HALF_OPEN" ELSE @]

\* Mutant of Succeed: the failures before the success still count.
SucceedOnly == breaker' = [breaker EXCEPT !.state = "CLOSED", !.rest = 0]

\* An answer, even a refusal of the payment, is not a failure.  A call that
\* began before the circuit opened closes it, too.
Succeed == breaker' = [state |-> "CLOSED", failures |-> 0, rest |-> 0]

\* The number of failures is not read beyond the threshold, the time of the
\* last one not in a closed circuit: both stop there.
Fail ==
  LET failures == IF breaker.failures < Threshold THEN breaker.failures + 1 ELSE Threshold
      opens    == breaker.state = "HALF_OPEN" \/ failures >= Threshold
  IN  breaker' = [state    |-> IF opens THEN "OPEN" ELSE breaker.state,
                  failures |-> failures,
                  rest     |-> IF opens THEN ResetAfter ELSE 0]

Rest == breaker.rest > 0 /\ breaker' = [breaker EXCEPT !.rest = @ - 1]

-----------------------------------------------------------------------------

\* The circuit is away from closed exactly while the last Threshold answers
\* that were recorded, of whatever calls in whatever order, were failures: a
\* dependency that answers is not cut off, one that fails does not stay on.
OpenWhileFailing == breaker.state # "CLOSED" <=> breaker.failures = Threshold

=============================================================================
