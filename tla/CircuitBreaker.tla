--------------------------- MODULE CircuitBreaker ---------------------------
(***************************************************************************)
(* gateway/app/circuit_breaker.py, _ProviderBreaker: the state machine the *)
(* gateway keeps for one provider, as functions from a breaker to the      *)
(* breaker after one call.  Every method holds the breaker's lock from     *)
(* beginning to end, so each of them is one step wherever it is used.      *)
(*                                                                         *)
(*   failures   how many failures are younger than the window; it is       *)
(*              counted up to the threshold, which is all that is compared *)
(*   cooled     while open: the cooldown since _opened_at has passed       *)
(*   probing    _half_open_probe_in_flight                                 *)
(***************************************************************************)
EXTENDS Naturals

CONSTANT FailureThreshold

ASSUME ThresholdAssumption == FailureThreshold \in Nat \ {0}

Breaker == [state : {"closed", "open", "half_open"}, failures : 0..FailureThreshold,
            cooled : BOOLEAN, probing : BOOLEAN]

Healthy == [state |-> "closed", failures |-> 0, cooled |-> FALSE, probing |-> FALSE]

\* What the methods keep true of a breaker.  A closed one is below the
\* threshold.  The slot of a half-open one is taken: it is given away when the
\* breaker becomes half open, and what frees it also ends that state.
Consistent(b) ==
  /\ b.state = "closed" => b.failures < FailureThreshold
  /\ b.state = "half_open" <=> b.probing
  /\ b.cooled => b.state = "open"

\* The breaker opens, and its cooldown begins (again).
Opened(b) == [b EXCEPT !.state = "open", !.cooled = FALSE, !.probing = FALSE]

\* A breaker that never honours its cooldown.
AdmitsNoProbe(b) == b.state = "closed" \/ (b.state = "half_open" /\ ~b.probing)

\* allow_request: whether it lets a request through ...
Admits(b) ==
  \/ b.state = "closed"
  \/ b.state = "open" /\ b.cooled
  \/ b.state = "half_open" /\ ~b.probing

\* ... and what it is after it did.
Admitted(b) ==
  IF b.state = "closed" THEN b
  ELSE [b EXCEPT !.state = "half_open", !.cooled = FALSE, !.probing = TRUE]

\* A success that closes the breaker but keeps its history.
RecordSuccessOnly(b) == [b EXCEPT !.state = "closed", !.cooled = FALSE, !.probing = FALSE]

RecordSuccess(b) == Healthy

RecordFailure(b) ==
  IF b.state = "half_open" THEN Opened(b)
  ELSE LET n == IF b.failures < FailureThreshold THEN b.failures + 1 ELSE FailureThreshold
       IN IF n = FailureThreshold THEN Opened([b EXCEPT !.failures = n])
          ELSE [b EXCEPT !.failures = n]

\* A cancellation taken for a failure.
RecordCancelledAsFailure(b) == RecordFailure(b)

\* The client went away, or its request was one the provider cannot serve.
RecordCancelled(b) == IF b.state = "half_open" THEN Opened(b) ELSE b

\* A failure grows older than the window: _prune_old_failures forgets it.
Aged(b) == [b EXCEPT !.failures = @ - 1]

=============================================================================
