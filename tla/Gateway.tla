------------------------------ MODULE Gateway -------------------------------
(***************************************************************************)
(* The chat endpoint of one gateway process (gateway/app/main.py) with the *)
(* retries of retry.py, the breakers of circuit_breaker.py, the probes of  *)
(* health_checker.py and the router.  Requests run concurrently: the calls *)
(* in the threads of a pool, the streams and everything around the calls   *)
(* as tasks of the event loop.  What they share is the breakers.           *)
(*                                                                         *)
(* Time is abstracted to what the code asks of its clocks: whether the     *)
(* deadline of a request has passed, whether the cooldown of a breaker     *)
(* has, whether a failure is still inside the window.  Each of these may   *)
(* become true at any moment.                                              *)
(***************************************************************************)
EXTENDS Router, CircuitBreaker, FiniteSets

CONSTANTS
  Requests,       \* the HTTP requests, or the clients that repeat theirs
  Automatic,      \* the ones that leave the choice to the router
  Streaming,      \* the ones that want a stream
  Providers,
  Capabilities,
  Catalog,        \* providers.yaml
  Asks,           \* what each may ask for, and the policy it is served under
  Reliable,       \* the providers that work from the beginning
  MaxRetries,     \* retries of a provider after its first attempt
  NoProvider

ASSUME GatewayAssumption ==
  /\ Automatic \subseteq Requests
  /\ Streaming \subseteq Requests
  /\ Reliable \subseteq Providers
  /\ MaxRetries \in Nat
  /\ NoProvider \notin Providers

VARIABLES
  breaker,     \* BREAKER: the breaker of every provider
  sound,       \* the providers that answer whatever fits them, given the time
  ask,         \* what the request asks for
  rpc,         \* how far the request is
  chosen,      \* the provider it is with
  tried,       \* tried_names
  attempt,     \* which attempt at the provider this is
  late,        \* its deadline has passed
  err          \* why the last provider did not serve it

shared  == <<breaker, sound>>
control == <<rpc, chosen, tried, attempt, late, err>>
vars    == <<shared, ask, control>>

AllAsks == UNION {Asks[r] : r \in Requests}

InProgress == {"select", "admit", "attempt", "flight", "sleep", "failed"}
Answered   == {"served", "broken", "cancelled", "rejected", "no_route", "unavailable", "timed_out"}
Errors     == {"none", "refused", "budget", "timeout", "error", "fatal", "invalid"}

TypeOK ==
  /\ breaker \in [Providers -> Breaker]
  /\ sound \in SUBSET Providers
  /\ ask \in [Requests -> AllAsks]
  /\ rpc \in [Requests -> {"idle", "stream"} \cup InProgress \cup Answered]
  /\ chosen \in [Requests -> Providers \cup {NoProvider}]
  /\ tried \in [Requests -> SUBSET Providers]
  /\ attempt \in [Requests -> 0..MaxRetries]
  /\ late \in [Requests -> BOOLEAN]
  /\ err \in [Requests -> Errors]

Init ==
  /\ breaker = [p \in Providers |-> Healthy]
  /\ sound = Reliable
  /\ ask \in {a \in [Requests -> AllAsks] : \A r \in Requests : a[r] \in Asks[r]}
  /\ rpc = [r \in Requests |-> "idle"]
  /\ chosen = [r \in Requests |-> NoProvider]
  /\ tried = [r \in Requests |-> {}]
  /\ attempt = [r \in Requests |-> 0]
  /\ late = [r \in Requests |-> FALSE]
  /\ err = [r \in Requests |-> "none"]

Goto(r, where) == rpc' = [rpc EXCEPT ![r] = where]

\* What a breaker is told about the provider the request is with.
Tell(r, Record(_)) == breaker' = [breaker EXCEPT ![chosen[r]] = Record(@)]

\* The provider is given up for the given reason: its attempts are over.
GiveUp(r, why) ==
  /\ Goto(r, "failed")
  /\ err' = [err EXCEPT ![r] = why]
  /\ attempt' = [attempt EXCEPT ![r] = 0]

\* The request is through with its providers: attempts, deadline and the last
\* exception are gone with the calls whose locals they were.
Settle(r, where) ==
  /\ Goto(r, where)
  /\ attempt' = [attempt EXCEPT ![r] = 0]
  /\ late' = [late EXCEPT ![r] = FALSE]
  /\ err' = [err EXCEPT ![r] = "none"]

-----------------------------------------------------------------------------
(* Routing *)

\* health_snapshot: the router skips a provider whose breaker is open.
Down == {p \in Providers : breaker[p].state = "open"}

Routed(r, pool) == SelectProvider(Catalog, ask[r].want, ask[r].policy, Down, pool)

\* _forced_provider: a forced provider has to pass the guardrails too.
MayForce(r) == ask[r].forced \in Guarded(Catalog, ask[r].want, {}, Providers)

\* The request arrives.
Arrive(r) ==
  /\ rpc[r] = "idle"
  /\ \/ /\ r \in Automatic
        /\ Goto(r, "select")
        /\ UNCHANGED <<chosen, tried>>
     \/ /\ r \notin Automatic
        /\ MayForce(r)
        /\ Goto(r, "admit")
        /\ chosen' = [chosen EXCEPT ![r] = ask[r].forced]
        /\ tried' = [tried EXCEPT ![r] = {ask[r].forced}]
     \/ /\ r \notin Automatic
        /\ ~MayForce(r)
        /\ Goto(r, "rejected")
        /\ UNCHANGED <<chosen, tried>>
  /\ UNCHANGED <<shared, ask, attempt, late, err>>

\* A failover that may choose a provider again.
SelectAny(r) ==
  /\ rpc[r] = "select"
  /\ \E p \in Routed(r, Providers) :
       /\ chosen' = [chosen EXCEPT ![r] = p]
       /\ tried' = [tried EXCEPT ![r] = @ \cup {p}]
  /\ err' = [err EXCEPT ![r] = "none"]
  /\ Goto(r, "admit")
  /\ UNCHANGED <<shared, ask, attempt, late>>

\* _select found a provider among those not tried yet.
Select(r) ==
  /\ rpc[r] = "select"
  /\ \E p \in Routed(r, Providers \ tried[r]) :
       /\ chosen' = [chosen EXCEPT ![r] = p]
       /\ tried' = [tried EXCEPT ![r] = @ \cup {p}]
  /\ err' = [err EXCEPT ![r] = "none"]
  /\ Goto(r, "admit")
  /\ UNCHANGED <<shared, ask, attempt, late>>

\* _select raised: a 503 for a request that was not with any provider yet,
\* else what the last provider's failure becomes.
NoRoute(r) ==
  /\ rpc[r] = "select"
  /\ Routed(r, Providers \ tried[r]) = {}
  /\ Settle(r, CASE tried[r] = {}      -> "no_route"
                 [] err[r] = "timeout" -> "timed_out"
                 [] OTHER              -> "unavailable")
  /\ UNCHANGED <<shared, ask, chosen, tried>>

\* The except branch of _call_non_stream and _stream_response.
HandleFailure(r) ==
  /\ rpc[r] = "failed"
  /\ LET exhausted == err[r] = "budget" \/ late[r]
         remaining == r \in Automatic /\ tried[r] # Providers
     IN \/ /\ ~exhausted /\ remaining
           /\ Goto(r, "select")
           /\ UNCHANGED <<attempt, late, err>>
        \/ /\ exhausted \/ ~remaining
           /\ Settle(r, IF exhausted \/ err[r] = "timeout" THEN "timed_out" ELSE "unavailable")
  /\ UNCHANGED <<shared, ask, chosen, tried>>

\* The deadline, set once the first provider is chosen, passes.
Expire(r) ==
  /\ rpc[r] \in InProgress
  /\ chosen[r] # NoProvider
  /\ ~late[r]
  /\ late' = [late EXCEPT ![r] = TRUE]
  /\ UNCHANGED <<shared, ask, rpc, chosen, tried, attempt, err>>

-----------------------------------------------------------------------------
(* A provider with its retries: call_provider_with_resilience and          *)
(* open_provider_stream_with_resilience                                    *)

Admit(r) ==
  /\ rpc[r] = "admit"
  /\ Admits(breaker[chosen[r]])
  /\ Tell(r, Admitted)
  /\ Goto(r, "attempt")
  /\ attempt' = [attempt EXCEPT ![r] = 0]
  /\ UNCHANGED <<sound, ask, chosen, tried, late, err>>

\* ProviderUnavailableError
Refuse(r) ==
  /\ rpc[r] = "admit"
  /\ ~Admits(breaker[chosen[r]])
  /\ GiveUp(r, "refused")
  /\ UNCHANGED <<shared, ask, chosen, tried, late>>

\* No time is left at the head of an attempt.  The breaker is not told.
OutOfTime(r) ==
  /\ rpc[r] = "attempt"
  /\ late[r]
  /\ GiveUp(r, "budget")
  /\ UNCHANGED <<shared, ask, chosen, tried, late>>

Call(r) ==
  /\ rpc[r] = "attempt"
  /\ ~late[r]
  /\ Goto(r, "flight")
  /\ UNCHANGED <<shared, ask, chosen, tried, attempt, late, err>>

\* Whether the provider cannot serve this request whatever its health:
\* ProviderPayloadError, 400, 422.
Unfit(r) == chosen[r] \in ask[r].unfit

CallSucceeds(r) ==
  /\ rpc[r] = "flight"
  /\ r \notin Streaming
  /\ ~Unfit(r)
  /\ Tell(r, RecordSuccess)
  /\ Settle(r, "served")
  /\ UNCHANGED <<sound, ask, chosen, tried>>

\* An error that is not worth a retry: _record_terminal_failure.
FailsForGood(r) ==
  /\ rpc[r] = "flight"
  /\ \/ /\ Unfit(r)
        /\ Tell(r, RecordCancelled)
        /\ GiveUp(r, "invalid")
     \/ /\ chosen[r] \notin sound
        /\ Tell(r, RecordFailure)
        /\ GiveUp(r, "fatal")
  /\ UNCHANGED <<sound, ask, chosen, tried, late>>

\* One attempt too many.
FailsForNowOnceMore(r) ==
  /\ rpc[r] = "flight"
  /\ chosen[r] \notin sound
  /\ attempt[r] <= MaxRetries
  /\ ~late[r]
  /\ Goto(r, "sleep")
  /\ UNCHANGED <<shared, ask, chosen, tried, attempt, late, err>>

\* A transient error, with a retry left that fits into the budget.
FailsForNow(r) ==
  /\ rpc[r] = "flight"
  /\ chosen[r] \notin sound
  /\ attempt[r] < MaxRetries
  /\ ~late[r]
  /\ Goto(r, "sleep")
  /\ UNCHANGED <<shared, ask, chosen, tried, attempt, late, err>>

\* A call is cut off at min(timeout_s, remaining): with the deadline close, a
\* provider that would have answered fails like any other.  The opening of a
\* stream is cut off by OpeningTimesOut.
CutOff(r) == late[r] /\ r \notin Streaming

\* A retry that does not fit, of which the breaker is not told.
FailsForLastUntold(r) ==
  /\ rpc[r] = "flight"
  /\ chosen[r] \notin sound \/ CutOff(r)
  /\ IF attempt[r] = MaxRetries
     THEN /\ \E why \in {"timeout", "error"} : GiveUp(r, why)
          /\ Tell(r, RecordFailure)
     ELSE /\ GiveUp(r, "budget")
          /\ UNCHANGED breaker
  /\ UNCHANGED <<sound, ask, chosen, tried, late>>

\* A transient error at the last attempt, or one whose retry would come too
\* late: the delay may be longer than the time left, and is when none is left.
FailsForLast(r) ==
  /\ rpc[r] = "flight"
  /\ \E why \in {"timeout", "error", "budget"} :
       /\ why # "budget" <=> attempt[r] = MaxRetries
       /\ chosen[r] \notin sound \/ (CutOff(r) /\ why # "error")
       /\ GiveUp(r, why)
  /\ Tell(r, RecordFailure)
  /\ UNCHANGED <<sound, ask, chosen, tried, late>>

\* asyncio.wait_for ends the opening of a stream at the deadline, be the
\* provider as sound as it may.
OpeningTimesOut(r) ==
  /\ rpc[r] = "flight"
  /\ r \in Streaming
  /\ late[r]
  /\ Tell(r, RecordFailure)
  /\ GiveUp(r, "budget")
  /\ UNCHANGED <<sound, ask, chosen, tried, late>>

Retry(r) ==
  /\ rpc[r] = "sleep"
  /\ Goto(r, "attempt")
  /\ attempt' = [attempt EXCEPT ![r] = @ + 1]
  /\ UNCHANGED <<shared, ask, chosen, tried, late, err>>

-----------------------------------------------------------------------------
(* Streams: the first event commits the answer; the breaker is told at the *)
(* end, by the finally of downstream().                                    *)

StreamOpens(r) ==
  /\ rpc[r] = "flight"
  /\ r \in Streaming
  /\ ~Unfit(r)
  /\ Settle(r, "stream")
  /\ UNCHANGED <<shared, ask, chosen, tried>>

StreamCompletes(r) ==
  /\ rpc[r] = "stream"
  /\ Tell(r, RecordSuccess)
  /\ Goto(r, "served")
  /\ UNCHANGED <<sound, ask, chosen, tried, attempt, late, err>>

\* It breaks off, sends garbage, or ends without finish_reason and [DONE].
StreamBreaks(r) ==
  /\ rpc[r] = "stream"
  /\ chosen[r] \notin sound
  /\ Tell(r, RecordFailure)
  /\ Goto(r, "broken")
  /\ UNCHANGED <<sound, ask, chosen, tried, attempt, late, err>>

\* The client disconnects while downstream() waits for the next event: it
\* asks is_disconnected, or its task is cancelled.
StreamCancelled(r) ==
  /\ rpc[r] = "stream"
  /\ Tell(r, RecordCancelled)
  /\ Goto(r, "cancelled")
  /\ UNCHANGED <<sound, ask, chosen, tried, attempt, late, err>>

\* The client disconnects while downstream() is suspended at its yield: the
\* GeneratorExit passes every except, the outcome is still "partial_error", and
\* the finally takes it for a failure of the provider.
StreamClosed(r) ==
  /\ rpc[r] = "stream"
  /\ Tell(r, RecordFailure)
  /\ Goto(r, "broken")
  /\ UNCHANGED <<sound, ask, chosen, tried, attempt, late, err>>

-----------------------------------------------------------------------------
(* Providers, clocks and clients *)

\* _probe_once: only the providers that are not real are probed, and a probe
\* that succeeds records nothing.
HealthProbeFails(p) ==
  /\ Catalog[p].kind # "real"
  /\ p \notin sound
  /\ breaker' = [breaker EXCEPT ![p] = RecordFailure(@)]
  /\ UNCHANGED <<sound, ask, control>>

\* The cooldown of an open breaker passes.
Cool(p) ==
  /\ breaker[p].state = "open"
  /\ ~breaker[p].cooled
  /\ breaker' = [breaker EXCEPT ![p].cooled = TRUE]
  /\ UNCHANGED <<sound, ask, control>>

\* A failure leaves the window.  While the breaker is half open, nobody counts.
Age(p) ==
  /\ breaker[p].failures > 0
  /\ breaker' = [breaker EXCEPT ![p] = Aged(@)]
  /\ UNCHANGED <<sound, ask, control>>

\* A provider that failed is repaired, for good.
Heal(p) ==
  /\ p \notin sound
  /\ sound' = sound \cup {p}
  /\ UNCHANGED <<breaker, ask, control>>

Provider(r) ==
  \/ CallSucceeds(r) \/ FailsForGood(r) \/ FailsForNow(r) \/ FailsForLast(r)
  \/ OpeningTimesOut(r) \/ StreamOpens(r)
  \/ StreamCompletes(r) \/ StreamBreaks(r) \/ StreamCancelled(r) \/ StreamClosed(r)

Serve(r) ==
  \/ Arrive(r) \/ Select(r) \/ NoRoute(r) \/ HandleFailure(r)
  \/ Admit(r) \/ Refuse(r) \/ OutOfTime(r) \/ Call(r) \/ Retry(r)
  \/ Provider(r)

Environment(p) == HealthProbeFails(p) \/ Cool(p) \/ Age(p) \/ Heal(p)

\* The client of an answered request sends the same one again.
Renew(r) ==
  /\ rpc[r] \in Answered
  /\ Goto(r, "idle")
  /\ chosen' = [chosen EXCEPT ![r] = NoProvider]
  /\ tried' = [tried EXCEPT ![r] = {}]
  /\ UNCHANGED <<shared, ask, attempt, late, err>>

Next ==
  \/ \E r \in Requests : Serve(r) \/ Expire(r) \/ Renew(r)
  \/ \E p \in Providers : Environment(p)

Spec == Init /\ [][Next]_vars

\* Requests keep coming, and every step of serving one is taken in the end:
\* threads and tasks are scheduled, sleeps are bounded by the budget, httpx
\* ends a call that times out.  Nothing forces a deadline to pass, a failure to
\* grow old or a provider to fail.
FairSpec ==
  /\ Spec
  /\ \A r \in Requests : WF_vars(Serve(r)) /\ WF_vars(Renew(r))
  /\ \A p \in Providers : WF_vars(Cool(p))

-----------------------------------------------------------------------------
(* Properties *)

\* What a request with model "auto" is promised: each of them is an instance
\* of Failover, the breakers deciding who is down at each selection.
Phase(r) ==
  CASE rpc[r] \in {"idle", "select"}                           -> "routing"
    [] rpc[r] \in {"admit", "attempt", "flight", "sleep", "failed"} -> "calling"
    [] rpc[r] \in {"stream", "served", "broken", "cancelled"}   -> "served"
    [] rpc[r] = "timed_out"                                     -> "timed_out"
    [] OTHER                                                    -> "unavailable"

Promise(r) == INSTANCE Failover WITH
  Catalogs <- {Catalog},
  Requests <- {a.want : a \in AllAsks},
  Policies <- {a.policy : a \in AllAsks},
  catalog <- Catalog,
  request <- ask[r].want,
  policy <- ask[r].policy,
  phase <- Phase(r),
  chosen <- chosen[r],
  tried <- tried[r]

ImplementsFailover ==
  /\ \A r \in Automatic : Promise(r)!Init
  /\ [][\A r \in Automatic : [Promise(r)!Next]_(Promise(r)!vars)]_vars

\* Every breaker is consistent, however the results of calls admitted before
\* and after it opened, health probes and cancellations interleave.
BreakersConsistent == \A p \in Providers : Consistent(breaker[p])

\* A request that has been let through to p and may still report on it.
With(r, p) == chosen[r] = p /\ rpc[r] \in {"attempt", "flight", "sleep", "stream"}

Owned(p) == \E r \in Requests : With(r, p)

\* Whoever is the last to leave a half-open breaker with its slot taken gives
\* the slot back, on every way out of a call but one: when the time of the
\* request is up at the head of an attempt (OutOfTime, the exit at retry.py:202
\* that is raised before or between the calls).
SlotIsReturned(p) ==
  breaker[p].probing /\ Owned(p) /\ ~Owned(p)' =>
    \/ ~breaker'[p].probing
    \/ \E r \in Requests : With(r, p) /\ rpc[r] = "attempt" /\ late[r]

\* In no step does the slot of any provider go astray (retry.py, main.py).
SlotsAreReturned == [][\A p \in Providers : SlotIsReturned(p)]_vars

\* A failure has been counted against p, or has opened its breaker.
Blamed(p) ==
  \/ breaker'[p].failures > breaker[p].failures
  \/ breaker[p].state = "closed" /\ breaker'[p].state = "open"

\* A health probe of p failed.
ProbeFailed(p) == p \notin sound /\ Catalog[p].kind # "real" /\ UNCHANGED rpc

\* The call of r was given up; a sound provider was cut off at the deadline.
CallFailed(r) ==
  /\ rpc[r] = "flight" /\ rpc'[r] = "failed" /\ err'[r] # "invalid"
  /\ chosen[r] \in sound => late[r]

\* The stream of r ended early; with a sound provider, its client closed it.
StreamFailed(r) == rpc[r] = "stream" /\ rpc'[r] = "broken"

\* A provider is blamed for its health probes, and by a request only as that
\* request leaves it, however many retries it took: not for the retries, not for
\* a deadline that passes between them, not for a request it cannot serve
\* and not for a client whose departure was noticed.  Who answers all that fits
\* is blamed by a deadline that cuts a call and by a client that
\* disconnects at the yield alone (retry.py, record_cancelled, main.py).
BlamedForAReason ==
  [][\A p \in Providers : Blamed(p) =>
       \/ ProbeFailed(p)
       \/ \E r \in Requests : chosen[r] = p /\ (CallFailed(r) \/ StreamFailed(r))]_vars

\* Every request is answered, however its providers and the breakers behave:
\* retries and failovers end.
AllAnswered == \A r \in Requests : rpc[r] \in InProgress ~> rpc[r] \in Answered \cup {"stream"}

\* A client insists on p for a whole answer, and p can serve it.
Wanted(p) == \E r \in Requests \ (Automatic \cup Streaming) :
  ask[r].forced = p /\ MayForce(r) /\ p \notin ask[r].unfit

\* No deadline passes and no stream is closed while a request is with p.
Undisturbed(p) == \A r \in Requests : chosen[r] = p => ~late[r] /\ rpc[r] # "broken"

\* A provider that has been repaired is closed again in the end, as long as
\* some client insists on it, deadlines and disconnects stop cutting its answers
\* off and its slot is not lost (SlotsAreReturned).
Recovers ==
  \A p \in Providers :
    <>[]Undisturbed(p) =>
      (p \in sound /\ Wanted(p) ~>
         breaker[p].state = "closed" \/ (breaker[p].probing /\ ~Owned(p)))

\* "Once the cooldown is over, let one request through to see whether the
\* provider has recovered" (circuit_breaker.py).
OpenIsTriedAgain ==
  \A p \in Providers : breaker[p].state = "open" ~> breaker[p].state # "open"

=============================================================================
