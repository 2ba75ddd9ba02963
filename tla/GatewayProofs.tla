---------------------------- MODULE GatewayProofs ----------------------------
(***************************************************************************)
(* For any number of requests, providers, retries and any failure          *)
(* threshold: the gateway is well typed, its breakers stay consistent, are *)
(* told of a failure for a reason and get their probe slots back, and a    *)
(* request with model "auto" is treated as Failover says.                  *)
(***************************************************************************)
EXTENDS Gateway, TLAPS

LEMMA HealthyBreaker == Healthy \in Breaker /\ Consistent(Healthy)
  BY ThresholdAssumption DEF Healthy, Breaker, Consistent

LEMMA AdmittedBreaker ==
  ASSUME NEW b \in Breaker, Consistent(b)
  PROVE  Admitted(b) \in Breaker /\ Consistent(Admitted(b))
  BY DEF Breaker, Consistent, Admitted

LEMMA OpenedBreaker ==
  ASSUME NEW b \in Breaker
  PROVE  Opened(b) \in Breaker /\ Consistent(Opened(b))
  BY DEF Breaker, Consistent, Opened

LEMMA FailedBreaker ==
  ASSUME NEW b \in Breaker, Consistent(b)
  PROVE  RecordFailure(b) \in Breaker /\ Consistent(RecordFailure(b))
<1> DEFINE n == IF b.failures < FailureThreshold THEN b.failures + 1 ELSE FailureThreshold
           c == [b EXCEPT !.failures = n]
<1>1. n \in 0..FailureThreshold
  BY ThresholdAssumption DEF Breaker
<1>2. c \in Breaker
  BY <1>1 DEF Breaker
<1>3. b.state # "half_open" /\ n # FailureThreshold => Consistent(c)
  BY <1>1, ThresholdAssumption DEF Breaker, Consistent
<1>4. RecordFailure(b) = IF b.state = "half_open" THEN Opened(b)
                         ELSE IF n = FailureThreshold THEN Opened(c) ELSE c
  BY DEF RecordFailure
<1> HIDE DEF n, c
<1> QED
  BY <1>2, <1>3, <1>4, OpenedBreaker

LEMMA CancelledBreaker ==
  ASSUME NEW b \in Breaker, Consistent(b)
  PROVE  RecordCancelled(b) \in Breaker /\ Consistent(RecordCancelled(b))
  BY OpenedBreaker DEF RecordCancelled

LEMMA CooledBreaker ==
  ASSUME NEW b \in Breaker, Consistent(b), b.state = "open"
  PROVE  [b EXCEPT !.cooled = TRUE] \in Breaker /\ Consistent([b EXCEPT !.cooled = TRUE])
  BY DEF Breaker, Consistent

LEMMA AgedBreaker ==
  ASSUME NEW b \in Breaker, Consistent(b), b.failures > 0
  PROVE  Aged(b) \in Breaker /\ Consistent(Aged(b))
<1>1. b.failures - 1 \in 0..FailureThreshold
  BY ThresholdAssumption DEF Breaker
<1> QED
  BY <1>1, ThresholdAssumption DEF Breaker, Consistent, Aged

-----------------------------------------------------------------------------
(* Types *)

Inv == TypeOK /\ BreakersConsistent

LEMMA InitInv == Init => Inv
  BY HealthyBreaker, GatewayAssumption DEF Init, Inv, TypeOK, BreakersConsistent, Errors

\* A step that replaces the breaker of one provider by a consistent one.
LEMMA OneBreaker ==
  ASSUME Inv, NEW p \in Providers, NEW b \in Breaker, Consistent(b),
         breaker' = [breaker EXCEPT ![p] = b]
  PROVE  breaker' \in [Providers -> Breaker] /\ BreakersConsistent'
  BY DEF Inv, TypeOK, BreakersConsistent

\* The part of the state a request owns.
RequestTypes ==
  /\ rpc \in [Requests -> {"idle", "stream"} \cup InProgress \cup Answered]
  /\ chosen \in [Requests -> Providers \cup {NoProvider}]
  /\ tried \in [Requests -> SUBSET Providers]
  /\ attempt \in [Requests -> 0..MaxRetries]
  /\ late \in [Requests -> BOOLEAN]
  /\ err \in [Requests -> Errors]

LEMMA TypeParts ==
  TypeOK <=> /\ breaker \in [Providers -> Breaker]
             /\ sound \in SUBSET Providers
             /\ ask \in [Requests -> AllAsks]
             /\ RequestTypes
  BY DEF TypeOK, RequestTypes

\* What a step of a request on its way leaves well typed, and whom it is with.
LEMMA GotoTypes ==
  ASSUME RequestTypes, NEW r \in Requests,
         NEW where \in {"idle", "stream"} \cup InProgress \cup Answered, Goto(r, where)
  PROVE  rpc' \in [Requests -> {"idle", "stream"} \cup InProgress \cup Answered]
  BY DEF RequestTypes, Goto

LEMMA GiveUpTypes ==
  ASSUME RequestTypes, NEW r \in Requests, NEW why \in Errors, GiveUp(r, why),
         UNCHANGED <<chosen, tried, late>>
  PROVE  RequestTypes'
<1>1. Goto(r, "failed") /\ err' = [err EXCEPT ![r] = why] /\ attempt' = [attempt EXCEPT ![r] = 0]
  BY DEF GiveUp
<1>2. rpc' \in [Requests -> {"idle", "stream"} \cup InProgress \cup Answered]
  BY <1>1, GotoTypes DEF InProgress
<1>3. attempt' \in [Requests -> 0..MaxRetries]
  BY <1>1, GatewayAssumption DEF RequestTypes
<1>4. err' \in [Requests -> Errors]
  BY <1>1 DEF RequestTypes
<1> QED
  BY <1>2, <1>3, <1>4 DEF RequestTypes

LEMMA SettleTypes ==
  ASSUME RequestTypes, NEW r \in Requests, NEW where \in {"stream"} \cup Answered,
         Settle(r, where), UNCHANGED <<chosen, tried>>
  PROVE  RequestTypes'
<1>1. /\ Goto(r, where) /\ attempt' = [attempt EXCEPT ![r] = 0]
      /\ late' = [late EXCEPT ![r] = FALSE] /\ err' = [err EXCEPT ![r] = "none"]
  BY DEF Settle
<1>2. rpc' \in [Requests -> {"idle", "stream"} \cup InProgress \cup Answered]
  BY <1>1, GotoTypes
<1>3. attempt' \in [Requests -> 0..MaxRetries]
  BY <1>1, GatewayAssumption DEF RequestTypes
<1>4. late' \in [Requests -> BOOLEAN]
  BY <1>1 DEF RequestTypes
<1>5. err' \in [Requests -> Errors]
  BY <1>1 DEF RequestTypes, Errors
<1> QED
  BY <1>2, <1>3, <1>4, <1>5 DEF RequestTypes

\* Beyond its selection a request is with a provider, and one that waits has an
\* attempt left.
WithProvider ==
  \A r \in Requests :
    /\ rpc[r] \in {"admit", "attempt", "flight", "sleep", "failed", "stream"} => chosen[r] \in Providers
    /\ rpc[r] = "sleep" => attempt[r] < MaxRetries

IInv == Inv /\ WithProvider

\* A request that leaves the retries disturbs nobody's place.
LEMMA LeavingKeepsPlaces ==
  ASSUME RequestTypes, WithProvider, NEW r \in Requests,
         NEW where \in {"failed", "stream"} \cup Answered, Goto(r, where),
         attempt' = [attempt EXCEPT ![r] = 0], UNCHANGED chosen,
         where \in {"failed", "stream"} => chosen[r] \in Providers
  PROVE  WithProvider'
<1>1. \A q \in Requests : q # r => rpc'[q] = rpc[q] /\ attempt'[q] = attempt[q]
  BY DEF Goto, RequestTypes
<1>2. rpc'[r] = where
  BY DEF Goto, RequestTypes
<1>3. where # "sleep" /\ where \notin {"admit", "attempt", "flight"}
  BY DEF Answered
<1> QED
  BY <1>1, <1>2, <1>3 DEF WithProvider, Answered

LEMMA SelectedIsListed ==
  ASSUME NEW r, NEW pool, NEW p \in Routed(r, pool)
  PROVE  p \in pool
<1>1. p \in Eligible(Catalog, ask[r].want, ask[r].policy, Down, pool)
  BY DEF Routed, SelectProvider, Preferred, HighQuality, Balanced, Cheapest, TopReals, Reals
<1>2. p \in Priced(Catalog, ask[r].want, ask[r].policy, Guarded(Catalog, ask[r].want, Down, pool))
  BY <1>1 DEF Eligible, InTime, Relaxed
<1> QED
  BY <1>2 DEF Priced, Relaxed, Affordable, Guarded

\* The provider of a request is told something that keeps breakers consistent.
LEMMA ToldBreaker ==
  ASSUME Inv, NEW r \in Requests, chosen[r] \in Providers,
         NEW b \in Breaker, Consistent(b), breaker' = [breaker EXCEPT ![chosen[r]] = b]
  PROVE  breaker' \in [Providers -> Breaker] /\ BreakersConsistent'
  BY OneBreaker

LEMMA ToldFailure ==
  ASSUME Inv, NEW r \in Requests, chosen[r] \in Providers, Tell(r, RecordFailure)
  PROVE  breaker' \in [Providers -> Breaker] /\ BreakersConsistent'
<1>1. breaker[chosen[r]] \in Breaker /\ Consistent(breaker[chosen[r]])
  BY DEF Inv, TypeOK, BreakersConsistent
<1>2. breaker' = [breaker EXCEPT ![chosen[r]] = RecordFailure(breaker[chosen[r]])]
  BY DEF Tell
<1> QED
  BY <1>1, <1>2, FailedBreaker, ToldBreaker

LEMMA ToldCancelled ==
  ASSUME Inv, NEW r \in Requests, chosen[r] \in Providers, Tell(r, RecordCancelled)
  PROVE  breaker' \in [Providers -> Breaker] /\ BreakersConsistent'
<1>1. breaker[chosen[r]] \in Breaker /\ Consistent(breaker[chosen[r]])
  BY DEF Inv, TypeOK, BreakersConsistent
<1>2. breaker' = [breaker EXCEPT ![chosen[r]] = RecordCancelled(breaker[chosen[r]])]
  BY DEF Tell
<1> QED
  BY <1>1, <1>2, CancelledBreaker, ToldBreaker

LEMMA ToldSuccess ==
  ASSUME Inv, NEW r \in Requests, chosen[r] \in Providers, Tell(r, RecordSuccess)
  PROVE  breaker' \in [Providers -> Breaker] /\ BreakersConsistent'
<1>1. breaker' = [breaker EXCEPT ![chosen[r]] = Healthy]
  BY DEF Tell, RecordSuccess
<1> QED
  BY <1>1, HealthyBreaker, ToldBreaker

LEMMA ToldAdmitted ==
  ASSUME Inv, NEW r \in Requests, chosen[r] \in Providers, Tell(r, Admitted)
  PROVE  breaker' \in [Providers -> Breaker] /\ BreakersConsistent'
<1>1. breaker[chosen[r]] \in Breaker /\ Consistent(breaker[chosen[r]])
  BY DEF Inv, TypeOK, BreakersConsistent
<1>2. breaker' = [breaker EXCEPT ![chosen[r]] = Admitted(breaker[chosen[r]])]
  BY DEF Tell
<1> QED
  BY <1>1, <1>2, AdmittedBreaker, ToldBreaker

-----------------------------------------------------------------------------
(* Every step keeps the invariant.                                         *)

LEMMA ServeKeeps ==
  ASSUME IInv, NEW r \in Requests, Serve(r)
  PROVE  /\ breaker' \in [Providers -> Breaker] /\ BreakersConsistent'
         /\ UNCHANGED <<sound, ask>>
         /\ RequestTypes'
         /\ WithProvider'
<1> USE DEF IInv, Inv
<1>1. RequestTypes
  BY TypeParts
<1>2. UNCHANGED breaker => breaker' \in [Providers -> Breaker] /\ BreakersConsistent'
  BY DEF TypeOK, BreakersConsistent
<1>3. CASE Arrive(r)
  <2>1. UNCHANGED <<breaker, sound, ask, attempt, late, err>>
    BY <1>3 DEF Arrive, shared
  <2>2. CASE Goto(r, "select") /\ UNCHANGED <<chosen, tried>>
    BY <1>1, <1>2, <2>1, <2>2 DEF Goto, RequestTypes, WithProvider, InProgress
  <2>3. CASE /\ MayForce(r) /\ Goto(r, "admit")
             /\ chosen' = [chosen EXCEPT ![r] = ask[r].forced]
             /\ tried' = [tried EXCEPT ![r] = {ask[r].forced}]
    <3>1. ask[r].forced \in Providers
      BY <2>3 DEF MayForce, Guarded
    <3> QED
      BY <1>1, <1>2, <2>1, <2>3, <3>1 DEF Goto, RequestTypes, WithProvider, InProgress
  <2>4. CASE Goto(r, "rejected") /\ UNCHANGED <<chosen, tried>>
    BY <1>1, <1>2, <2>1, <2>4 DEF Goto, RequestTypes, WithProvider, Answered
  <2> QED
    BY <1>3, <2>2, <2>3, <2>4 DEF Arrive
<1>4. CASE Select(r)
  <2>1. PICK p \in Routed(r, Providers \ tried[r]) :
          /\ chosen' = [chosen EXCEPT ![r] = p]
          /\ tried' = [tried EXCEPT ![r] = @ \cup {p}]
    BY <1>4 DEF Select
  <2>2. p \in Providers
    BY SelectedIsListed
  <2>3. /\ Goto(r, "admit") /\ err' = [err EXCEPT ![r] = "none"]
        /\ UNCHANGED <<breaker, sound, ask, attempt, late>>
    BY <1>4 DEF Select, shared
  <2> QED
    BY <1>1, <1>2, <2>1, <2>2, <2>3 DEF Goto, RequestTypes, WithProvider, InProgress, Errors
<1>5. CASE NoRoute(r)
  <2>1. PICK where \in Answered : Settle(r, where)
    BY <1>5 DEF NoRoute, Answered
  <2>2. UNCHANGED <<breaker, sound, ask, chosen, tried>>
    BY <1>5 DEF NoRoute, shared
  <2>3. RequestTypes'
    BY <1>1, <2>1, <2>2, SettleTypes
  <2>4. WithProvider'
    BY <1>1, <2>1, <2>2, LeavingKeepsPlaces DEF Settle, Answered
  <2> QED
    BY <1>2, <2>2, <2>3, <2>4
<1>6. CASE HandleFailure(r)
  <2>1. rpc[r] = "failed" /\ UNCHANGED <<breaker, sound, ask, chosen, tried>>
    BY <1>6 DEF HandleFailure, shared
  <2>2. CASE Goto(r, "select") /\ UNCHANGED <<attempt, late, err>>
    BY <1>1, <1>2, <2>1, <2>2 DEF Goto, RequestTypes, WithProvider, InProgress
  <2>3. ASSUME NEW where \in {"timed_out", "unavailable"}, Settle(r, where)
        PROVE  RequestTypes' /\ WithProvider'
    BY <1>1, <2>1, <2>3, SettleTypes, LeavingKeepsPlaces DEF Settle, Answered
  <2>4. \/ Goto(r, "select") /\ UNCHANGED <<attempt, late, err>>
        \/ \E where \in {"timed_out", "unavailable"} : Settle(r, where)
    BY <1>6 DEF HandleFailure
  <2> QED
    BY <1>2, <2>1, <2>2, <2>3, <2>4
<1>7. CASE Admit(r)
  <2>1. rpc[r] = "admit" /\ Tell(r, Admitted)
    BY <1>7 DEF Admit
  <2>2. breaker' \in [Providers -> Breaker] /\ BreakersConsistent'
    BY <2>1, ToldAdmitted DEF WithProvider
  <2>3. /\ Goto(r, "attempt") /\ attempt' = [attempt EXCEPT ![r] = 0]
        /\ UNCHANGED <<sound, ask, chosen, tried, late, err>>
    BY <1>7 DEF Admit
  <2> QED
    BY <1>1, <2>1, <2>2, <2>3, GatewayAssumption DEF Goto, RequestTypes, WithProvider, InProgress
<1>8. CASE Refuse(r) \/ OutOfTime(r)
  <2>1. PICK why \in {"refused", "budget"} : GiveUp(r, why)
    BY <1>8 DEF Refuse, OutOfTime
  <2>2. UNCHANGED <<breaker, sound, ask, chosen, tried, late>>
    BY <1>8 DEF Refuse, OutOfTime, shared
  <2>3. RequestTypes'
    BY <1>1, <2>1, <2>2, GiveUpTypes DEF Errors
  <2>4. rpc[r] \in {"admit", "attempt"}
    BY <1>8 DEF Refuse, OutOfTime
  <2>5. WithProvider'
    BY <1>1, <2>1, <2>2, <2>4, LeavingKeepsPlaces DEF GiveUp, WithProvider
  <2> QED
    BY <1>2, <2>2, <2>3, <2>5
<1>9. CASE Call(r)
  <2>1. /\ rpc[r] = "attempt" /\ Goto(r, "flight")
        /\ UNCHANGED <<breaker, sound, ask, chosen, tried, attempt, late, err>>
    BY <1>9 DEF Call, shared
  <2> QED
    BY <1>1, <1>2, <2>1 DEF Goto, RequestTypes, WithProvider, InProgress
<1>10. CASE CallSucceeds(r) \/ StreamOpens(r)
  <2>1. PICK where \in {"served", "stream"} : Settle(r, where)
    BY <1>10 DEF CallSucceeds, StreamOpens
  <2>2. rpc[r] = "flight" /\ UNCHANGED <<sound, ask, chosen, tried>>
    BY <1>10 DEF CallSucceeds, StreamOpens, shared
  <2>3. breaker' \in [Providers -> Breaker] /\ BreakersConsistent'
    <3>1. UNCHANGED breaker \/ Tell(r, RecordSuccess)
      BY <1>10 DEF CallSucceeds, StreamOpens, shared
    <3> QED
      BY <1>2, <2>2, <3>1, ToldSuccess DEF WithProvider
  <2>4. where \in {"stream"} \cup Answered
    BY <2>1 DEF Answered
  <2>5. RequestTypes'
    BY <1>1, <2>1, <2>2, <2>4, SettleTypes
  <2>6. WithProvider'
    BY <1>1, <2>1, <2>2, <2>4, LeavingKeepsPlaces DEF Settle, WithProvider
  <2> QED
    BY <2>2, <2>3, <2>5, <2>6
<1>11. CASE FailsForGood(r)
  <2>1. rpc[r] = "flight" /\ UNCHANGED <<sound, ask, chosen, tried, late>>
    BY <1>11 DEF FailsForGood
  <2>2. PICK why \in Errors : GiveUp(r, why) /\ (Tell(r, RecordCancelled) \/ Tell(r, RecordFailure))
    BY <1>11 DEF FailsForGood, Errors
  <2>3. breaker' \in [Providers -> Breaker] /\ BreakersConsistent'
    BY <2>1, <2>2, ToldCancelled, ToldFailure DEF WithProvider
  <2>4. RequestTypes'
    BY <1>1, <2>1, <2>2, GiveUpTypes
  <2>5. WithProvider'
    BY <1>1, <2>1, <2>2, LeavingKeepsPlaces DEF GiveUp, WithProvider
  <2> QED
    BY <2>1, <2>3, <2>4, <2>5
<1>12. CASE FailsForLast(r) \/ OpeningTimesOut(r)
  <2>1. /\ rpc[r] = "flight" /\ Tell(r, RecordFailure)
        /\ UNCHANGED <<sound, ask, chosen, tried, late>>
    BY <1>12 DEF FailsForLast, OpeningTimesOut
  <2>2. PICK why \in Errors : GiveUp(r, why)
    BY <1>12 DEF FailsForLast, OpeningTimesOut, Errors
  <2>3. breaker' \in [Providers -> Breaker] /\ BreakersConsistent'
    BY <2>1, ToldFailure DEF WithProvider
  <2>4. RequestTypes'
    BY <1>1, <2>1, <2>2, GiveUpTypes
  <2>5. WithProvider'
    BY <1>1, <2>1, <2>2, LeavingKeepsPlaces DEF GiveUp, WithProvider
  <2> QED
    BY <2>1, <2>3, <2>4, <2>5
<1>13. CASE Retry(r)
  <2>1. /\ rpc[r] = "sleep" /\ Goto(r, "attempt") /\ attempt' = [attempt EXCEPT ![r] = @ + 1]
        /\ UNCHANGED <<breaker, sound, ask, chosen, tried, late, err>>
    BY <1>13 DEF Retry, shared
  <2>2. attempt[r] + 1 \in 0..MaxRetries
    BY <1>1, <2>1, GatewayAssumption DEF RequestTypes, WithProvider
  <2>3. attempt' \in [Requests -> 0..MaxRetries]
    BY <1>1, <2>1, <2>2 DEF RequestTypes
  <2>4. rpc' \in [Requests -> {"idle", "stream"} \cup InProgress \cup Answered]
    BY <1>1, <2>1, GotoTypes DEF InProgress
  <2>5. RequestTypes'
    BY <1>1, <2>1, <2>3, <2>4 DEF RequestTypes
  <2>6. WithProvider'
    BY <1>1, <2>1 DEF Goto, RequestTypes, WithProvider
  <2> QED
    BY <1>2, <2>1, <2>5, <2>6
<1>14. CASE StreamCompletes(r) \/ StreamBreaks(r) \/ StreamClosed(r) \/ StreamCancelled(r)
  <2>1. /\ rpc[r] = "stream"
        /\ Tell(r, RecordSuccess) \/ Tell(r, RecordFailure) \/ Tell(r, RecordCancelled)
    BY <1>14 DEF StreamCompletes, StreamBreaks, StreamClosed, StreamCancelled
  <2>2. breaker' \in [Providers -> Breaker] /\ BreakersConsistent'
    BY <2>1, ToldSuccess, ToldFailure, ToldCancelled DEF WithProvider
  <2>3. PICK where \in {"served", "broken", "cancelled"} : Goto(r, where)
    BY <1>14 DEF StreamCompletes, StreamBreaks, StreamClosed, StreamCancelled
  <2>4. UNCHANGED <<sound, ask, chosen, tried, attempt, late, err>>
    BY <1>14 DEF StreamCompletes, StreamBreaks, StreamClosed, StreamCancelled
  <2> QED
    BY <1>1, <2>2, <2>3, <2>4 DEF Goto, RequestTypes, WithProvider, Answered
<1>15. CASE FailsForNow(r)
  <2>1. /\ rpc[r] = "flight" /\ attempt[r] < MaxRetries /\ Goto(r, "sleep")
        /\ UNCHANGED <<breaker, sound, ask, chosen, tried, attempt, late, err>>
    BY <1>15 DEF FailsForNow, shared
  <2> QED
    BY <1>1, <1>2, <2>1 DEF Goto, RequestTypes, WithProvider, InProgress
<1> QED
  BY <1>3, <1>4, <1>5, <1>6, <1>7, <1>8, <1>9, <1>10, <1>11, <1>12, <1>13, <1>14, <1>15
  DEF Serve, Provider

LEMMA EnvironmentKeeps ==
  ASSUME IInv, NEW p \in Providers, Environment(p)
  PROVE  IInv'
<1> USE DEF IInv, Inv
<1>1. Consistent(breaker[p]) /\ breaker[p] \in Breaker /\ Inv
  BY DEF TypeOK, BreakersConsistent
<1>2. UNCHANGED <<ask, rpc, chosen, tried, attempt, late, err>>
  BY DEF Environment, HealthProbeFails, Cool, Age, Heal, control
<1>3. WithProvider'
  BY <1>2 DEF WithProvider
<1>4. RequestTypes' /\ ask' \in [Requests -> AllAsks]
  BY <1>2, TypeParts DEF RequestTypes
<1>5. CASE Heal(p)
  <2>1. sound' \in SUBSET Providers /\ UNCHANGED breaker
    BY <1>5 DEF Heal, TypeOK
  <2>2. breaker' \in [Providers -> Breaker] /\ BreakersConsistent'
    BY <2>1 DEF TypeOK, BreakersConsistent
  <2> QED
    BY <1>3, <1>4, <2>1, <2>2 DEF TypeOK, RequestTypes
<1>6. CASE HealthProbeFails(p) \/ Cool(p) \/ Age(p)
  <2>1. sound' \in SUBSET Providers
    BY <1>6 DEF HealthProbeFails, Cool, Age, TypeOK
  <2>2. PICK b \in Breaker : Consistent(b) /\ breaker' = [breaker EXCEPT ![p] = b]
    <3>1. CASE HealthProbeFails(p)
      BY <1>1, <3>1, FailedBreaker DEF HealthProbeFails
    <3>2. CASE Cool(p)
      <4>1. breaker' = [breaker EXCEPT ![p] = [breaker[p] EXCEPT !.cooled = TRUE]]
        BY <3>2 DEF Cool, TypeOK
      <4> QED
        BY <1>1, <3>2, <4>1, CooledBreaker DEF Cool
    <3>3. CASE Age(p)
      BY <1>1, <3>3, AgedBreaker DEF Age
    <3> QED
      BY <1>6, <3>1, <3>2, <3>3
  <2>3. breaker' \in [Providers -> Breaker] /\ BreakersConsistent'
    BY <1>1, <2>2, OneBreaker
  <2> QED
    BY <1>3, <1>4, <2>1, <2>3 DEF TypeOK, RequestTypes
<1> QED
  BY <1>5, <1>6 DEF Environment

LEMMA StepKeeps == IInv /\ [Next]_vars => IInv'
<1> SUFFICES ASSUME IInv, [Next]_vars PROVE IInv'
  OBVIOUS
<1>1. ASSUME NEW r \in Requests, Serve(r) PROVE IInv'
  <2>1. /\ breaker' \in [Providers -> Breaker] /\ BreakersConsistent'
        /\ UNCHANGED <<sound, ask>> /\ RequestTypes' /\ WithProvider'
    BY <1>1, ServeKeeps
  <2> QED
    BY <2>1 DEF IInv, Inv, TypeOK, RequestTypes
<1>2. ASSUME NEW r \in Requests, Expire(r) PROVE IInv'
  <2>1. /\ late' = [late EXCEPT ![r] = TRUE]
        /\ UNCHANGED <<breaker, sound, ask, rpc, chosen, tried, attempt, err>>
    BY <1>2 DEF Expire, shared
  <2> QED
    BY <2>1 DEF IInv, Inv, TypeOK, BreakersConsistent, WithProvider
<1>3. ASSUME NEW r \in Requests, Renew(r) PROVE IInv'
  <2>1. UNCHANGED <<breaker, sound, ask>> /\ RequestTypes
    BY <1>3, TypeParts DEF Renew, shared, IInv, Inv
  <2>2. /\ chosen' = [chosen EXCEPT ![r] = NoProvider]
        /\ tried' = [tried EXCEPT ![r] = {}]
        /\ rpc' = [rpc EXCEPT ![r] = "idle"]
        /\ UNCHANGED <<attempt, late, err>>
    BY <1>3 DEF Renew, Goto
  <2>3. RequestTypes'
    BY <2>1, <2>2 DEF RequestTypes
  <2>4. WithProvider'
    BY <2>1, <2>2 DEF WithProvider, RequestTypes, IInv
  <2> QED
    BY <2>1, <2>3, <2>4 DEF IInv, Inv, TypeOK, RequestTypes, BreakersConsistent
<1>4. ASSUME NEW p \in Providers, Environment(p) PROVE IInv'
  BY <1>4, EnvironmentKeeps
<1>5. CASE UNCHANGED vars
  BY <1>5 DEF vars, shared, control, IInv, Inv, TypeOK, BreakersConsistent, WithProvider
<1> QED
  BY <1>1, <1>2, <1>3, <1>4, <1>5 DEF Next

LEMMA Invariant == Spec => []IInv
<1>1. Init => IInv
  BY InitInv DEF Init, IInv, WithProvider
<1> QED
  BY <1>1, StepKeeps, PTL DEF Spec

\* Every reachable state of the gateway is well typed: no request goes beyond
\* its last retry.
THEOREM TypeCorrect == Spec => []TypeOK
  BY Invariant, PTL DEF IInv, Inv

\* Whatever requests, health probes and cancellations report, and in whatever
\* order, a closed breaker is below its threshold and a breaker is half open
\* exactly while its slot is taken.
THEOREM BreakersStayConsistent == Spec => []BreakersConsistent
  BY Invariant, PTL DEF IInv, Inv

-----------------------------------------------------------------------------
(* Refinement: every routed request is an instance of Failover.            *)

\* What a request that is not concerned by a step has.
SameRequest(r) == UNCHANGED <<ask[r], rpc[r], chosen[r], tried[r]>>

LEMMA SameStutters ==
  ASSUME NEW r \in Requests, SameRequest(r)
  PROVE  UNCHANGED Promise(r)!vars
  BY DEF SameRequest, Promise!vars, Promise!inputs, Phase

LEMMA SameRouter ==
  ASSUME NEW r, NEW cat, NEW request, NEW policy, NEW down, NEW pool
  PROVE  Promise(r)!SelectProvider(cat, request, policy, down, pool)
           = SelectProvider(cat, request, policy, down, pool)
  BY DEF SelectProvider, Preferred, Eligible, InTime, Priced, Affordable, Relaxed, Guarded, HighQuality, Balanced, TopReals, Reals, Cheapest, Est,
         Promise!SelectProvider, Promise!Preferred, Promise!Eligible, Promise!InTime, Promise!Priced, Promise!Affordable, Promise!Relaxed, Promise!Guarded, Promise!HighQuality, Promise!Balanced, Promise!TopReals, Promise!Reals, Promise!Cheapest, Promise!Est

LEMMA PromiseStarts ==
  ASSUME Init, NEW r \in Automatic
  PROVE  Promise(r)!Init
<1>1. r \in Requests /\ rpc[r] = "idle" /\ chosen[r] = NoProvider /\ tried[r] = {}
  BY GatewayAssumption DEF Init
<1>2. ask[r] \in AllAsks
  BY <1>1 DEF Init, AllAsks
<1> QED
  BY <1>1, <1>2 DEF Promise!Init, Phase

\* A step of a request that does not concern another one.
LEMMA OthersSame ==
  ASSUME TypeOK, NEW q \in Requests, NEW r \in Requests, r # q,
         Serve(q) \/ Expire(q) \/ Renew(q)
  PROVE  SameRequest(r)
<1>1. CASE Arrive(q)
  BY <1>1 DEF Arrive, Goto, TypeOK, SameRequest
<1>2. CASE Select(q)
  BY <1>2 DEF Select, Goto, TypeOK, SameRequest
<1>3. CASE NoRoute(q)
  BY <1>3, Zenon DEF NoRoute, Settle, Goto, TypeOK, SameRequest
<1>4. CASE HandleFailure(q)
  <2>1. UNCHANGED <<ask, chosen, tried>>
    BY <1>4 DEF HandleFailure
  <2>2. \E where : Goto(q, where)
    BY <1>4 DEF HandleFailure, Settle
  <2> QED
    BY <2>1, <2>2 DEF Goto, TypeOK, SameRequest
<1>5. CASE Admit(q) \/ Refuse(q) \/ OutOfTime(q) \/ Call(q) \/ Retry(q) \/ Expire(q)
  BY <1>5 DEF Admit, Refuse, OutOfTime, Call, Retry, Expire, GiveUp, Goto, TypeOK, SameRequest
<1>6. CASE Provider(q)
  BY <1>6 DEF Provider, CallSucceeds, FailsForGood, FailsForNow, FailsForLast, OpeningTimesOut,
              StreamOpens, StreamCompletes, StreamBreaks, StreamCancelled, StreamClosed,
              GiveUp, Settle, Goto, TypeOK, SameRequest
<1>7. CASE Renew(q)
  BY <1>7 DEF Renew, Goto, TypeOK, SameRequest
<1> QED
  BY <1>1, <1>2, <1>3, <1>4, <1>5, <1>6, <1>7 DEF Serve

\* The steps of a request itself.
LEMMA OwnSteps ==
  ASSUME TypeOK, NEW r \in Automatic, Serve(r) \/ Expire(r) \/ Renew(r)
  PROVE  [Promise(r)!Next]_(Promise(r)!vars)
<1>1. r \in Requests
  BY GatewayAssumption
<1>2. CASE Arrive(r)
  <2>1. rpc[r] = "idle" /\ rpc'[r] = "select" /\ UNCHANGED <<ask, chosen, tried>>
    BY <1>1, <1>2 DEF Arrive, Goto, TypeOK
  <2>2. Phase(r)' = Phase(r)
    BY <2>1 DEF Phase
  <2> QED
    BY <2>1, <2>2 DEF Promise!vars, Promise!inputs
<1>3. CASE Select(r)
  <2>1. PICK p \in Routed(r, Providers \ tried[r]) :
          /\ chosen' = [chosen EXCEPT ![r] = p]
          /\ tried' = [tried EXCEPT ![r] = @ \cup {p}]
    BY <1>3, Zenon DEF Select
  <2>2. /\ chosen'[r] = p /\ tried'[r] = tried[r] \cup {p}
        /\ rpc[r] = "select" /\ rpc'[r] = "admit" /\ UNCHANGED ask
    BY <1>1, <1>3, <2>1 DEF Select, Goto, TypeOK
  <2>3. Phase(r) = "routing" /\ Phase(r)' = "calling"
    BY <2>2 DEF Phase
  <2>4. Down \in SUBSET Providers
    BY DEF Down
  <2>5. p \in Promise(r)!SelectProvider(Catalog, ask[r].want, ask[r].policy, Down, Providers \ tried[r])
    BY <1>1, SameRouter, Zenon DEF Routed
  <2>6. Promise(r)!Select
    BY <2>2, <2>3, <2>4, <2>5 DEF Promise!Select, Promise!inputs
  <2> QED
    BY <2>6 DEF Promise!Next
<1>4. CASE NoRoute(r)
  <2>1. rpc[r] = "select" /\ UNCHANGED <<ask, chosen, tried>> /\ Routed(r, Providers \ tried[r]) = {}
    BY <1>4 DEF NoRoute
  <2>2. rpc'[r] \in {"no_route", "timed_out", "unavailable"}
    BY <1>1, <1>4 DEF NoRoute, Settle, Goto, TypeOK
  <2>3. Phase(r) = "routing" /\ Phase(r)' \in {"unavailable", "timed_out"}
    BY <2>1, <2>2 DEF Phase
  <2>4. Down \in SUBSET Providers
    BY DEF Down
  <2>5. Promise(r)!SelectProvider(Catalog, ask[r].want, ask[r].policy, Down, Providers \ tried[r]) = {}
    BY <1>1, <2>1, SameRouter, Zenon DEF Routed
  <2>6. Promise(r)!NoRoute
    BY <2>1, <2>3, <2>4, <2>5 DEF Promise!NoRoute, Promise!inputs
  <2> QED
    BY <2>6 DEF Promise!Next
<1>5. CASE HandleFailure(r)
  <2>1. rpc[r] = "failed" /\ UNCHANGED <<ask, chosen, tried>>
    BY <1>5 DEF HandleFailure
  <2>2. \/ rpc'[r] = "timed_out"
        \/ rpc'[r] = "select" /\ tried[r] # Providers
        \/ rpc'[r] = "unavailable" /\ tried[r] = Providers
    BY <1>1, <1>5 DEF HandleFailure, Settle, Goto, TypeOK
  <2>3. Phase(r) = "calling"
    BY <2>1 DEF Phase
  <2>4. \/ Phase(r)' = "timed_out"
        \/ Phase(r)' = IF tried[r] = Providers THEN "unavailable" ELSE "routing"
    BY <2>2 DEF Phase
  <2>5. Promise(r)!TimesOut \/ Promise(r)!CallFails
    BY <2>1, <2>3, <2>4 DEF Promise!TimesOut, Promise!CallFails, Promise!inputs
  <2> QED
    BY <2>5 DEF Promise!Next
<1>6. CASE Admit(r) \/ Refuse(r) \/ OutOfTime(r) \/ Call(r) \/ Retry(r) \/ Expire(r)
  <2>1. /\ UNCHANGED <<ask, chosen, tried>>
        /\ \/ rpc'[r] = rpc[r]
           \/ rpc[r] \in {"admit", "attempt", "flight", "sleep"}
              /\ rpc'[r] \in {"attempt", "flight", "failed"}
    BY <1>1, <1>6 DEF Admit, Refuse, OutOfTime, Call, Retry, Expire, GiveUp, Goto, TypeOK
  <2>2. Phase(r)' = Phase(r)
    BY <2>1 DEF Phase
  <2> QED
    BY <2>1, <2>2 DEF Promise!vars, Promise!inputs
<1>7. CASE CallSucceeds(r) \/ StreamOpens(r)
  <2>1. /\ UNCHANGED <<ask, chosen, tried>>
        /\ rpc[r] = "flight" /\ rpc'[r] \in {"served", "stream"}
    BY <1>1, <1>7 DEF CallSucceeds, StreamOpens, Settle, Goto, TypeOK
  <2>2. Phase(r) = "calling" /\ Phase(r)' = "served"
    BY <2>1 DEF Phase
  <2>3. Promise(r)!CallSucceeds
    BY <2>1, <2>2 DEF Promise!CallSucceeds, Promise!inputs
  <2> QED
    BY <2>3 DEF Promise!Next
<1>8. CASE FailsForGood(r) \/ FailsForNow(r) \/ FailsForLast(r) \/ OpeningTimesOut(r)
  <2>1. /\ UNCHANGED <<ask, chosen, tried>>
        /\ rpc[r] = "flight" /\ rpc'[r] \in {"sleep", "failed"}
    BY <1>1, <1>8 DEF FailsForGood, FailsForNow, FailsForLast, OpeningTimesOut, GiveUp, Goto, TypeOK
  <2>2. Phase(r)' = Phase(r)
    BY <2>1 DEF Phase
  <2> QED
    BY <2>1, <2>2 DEF Promise!vars, Promise!inputs
<1>9. CASE StreamCompletes(r) \/ StreamBreaks(r) \/ StreamCancelled(r) \/ StreamClosed(r)
  <2>1. /\ UNCHANGED <<ask, chosen, tried>>
        /\ rpc[r] = "stream" /\ rpc'[r] \in {"served", "broken", "cancelled"}
    BY <1>1, <1>9 DEF StreamCompletes, StreamBreaks, StreamCancelled, StreamClosed, Goto, TypeOK
  <2>2. Phase(r)' = Phase(r)
    BY <2>1 DEF Phase
  <2> QED
    BY <2>1, <2>2 DEF Promise!vars, Promise!inputs
<1>10. CASE Renew(r)
  <2>1. /\ UNCHANGED ask /\ rpc[r] \in Answered
        /\ rpc'[r] = "idle" /\ chosen'[r] = NoProvider /\ tried'[r] = {}
    BY <1>1, <1>10 DEF Renew, Goto, TypeOK
  <2>2. Phase(r) \in {"served", "unavailable", "timed_out"} /\ Phase(r)' = "routing"
    BY <2>1 DEF Phase, Answered
  <2>3. Promise(r)!Again
    BY <2>1, <2>2 DEF Promise!Again, Promise!inputs
  <2> QED
    BY <2>3 DEF Promise!Next
<1> QED
  BY <1>2, <1>3, <1>4, <1>5, <1>6, <1>7, <1>8, <1>9, <1>10 DEF Serve, Provider

LEMMA PromiseSteps ==
  ASSUME TypeOK, [Next]_vars, NEW r \in Automatic
  PROVE  [Promise(r)!Next]_(Promise(r)!vars)
<1>1. r \in Requests
  BY GatewayAssumption
<1>2. SameRequest(r) => [Promise(r)!Next]_(Promise(r)!vars)
  BY <1>1, SameStutters
<1>3. CASE \E q \in Requests : Serve(q) \/ Expire(q) \/ Renew(q)
  <2>1. PICK q \in Requests : Serve(q) \/ Expire(q) \/ Renew(q)
    BY <1>3
  <2>2. CASE q = r
    BY <2>1, <2>2, OwnSteps
  <2>3. CASE q # r
    BY <1>1, <1>2, <2>1, <2>3, OthersSame
  <2> QED
    BY <2>2, <2>3
<1>4. CASE \E p \in Providers : Environment(p)
  BY <1>2, <1>4 DEF Environment, HealthProbeFails, Cool, Age, Heal, control, SameRequest
<1>5. CASE UNCHANGED vars
  BY <1>2, <1>5 DEF vars, control, SameRequest
<1> QED
  BY <1>3, <1>4, <1>5 DEF Next

\* A request with model "auto" is treated as Failover says, whatever the other
\* requests and the breakers do between its steps.
THEOREM KeepsItsPromise == Spec => ImplementsFailover
<1>1. Init => \A r \in Automatic : Promise(r)!Init
  BY PromiseStarts
<1>2. TypeOK /\ [Next]_vars => [\A r \in Automatic : [Promise(r)!Next]_(Promise(r)!vars)]_vars
  BY PromiseSteps
<1> QED
  BY <1>1, <1>2, TypeCorrect, PTL DEF Spec, ImplementsFailover

-----------------------------------------------------------------------------
(* What the breakers are told.                                             *)

\* Every step of a request leaves the breakers alone or tells the one of its
\* provider: that a request was let through, or how it ended.  A failure is
\* told as the call or the stream is given up.
LEMMA OneReport ==
  ASSUME IInv, NEW r \in Requests, Serve(r)
  PROVE  \/ UNCHANGED breaker
         \/ /\ chosen[r] \in Providers
            /\ \/ Tell(r, Admitted)
               \/ Tell(r, RecordSuccess)
               \/ Tell(r, RecordCancelled)
               \/ Tell(r, RecordFailure) /\ (CallFailed(r) \/ StreamFailed(r))
<1>1. CASE Arrive(r) \/ Select(r) \/ NoRoute(r) \/ HandleFailure(r) \/ Refuse(r)
           \/ OutOfTime(r) \/ Call(r) \/ Retry(r) \/ FailsForNow(r) \/ StreamOpens(r)
  BY <1>1 DEF Arrive, Select, NoRoute, HandleFailure, Refuse, OutOfTime, Call, Retry,
              FailsForNow, StreamOpens, shared
<1>2. rpc[r] \in {"admit", "flight", "stream"} => chosen[r] \in Providers
  BY DEF IInv, WithProvider
<1>3. CASE Admit(r)
  BY <1>2, <1>3 DEF Admit
<1>4. CASE CallSucceeds(r) \/ StreamCompletes(r)
  BY <1>2, <1>4 DEF CallSucceeds, StreamCompletes
<1>5. rpc \in [Requests -> {"idle", "stream"} \cup InProgress \cup Answered] /\ err \in [Requests -> Errors]
  BY DEF IInv, Inv, TypeOK
<1>6. ASSUME NEW why \in Errors \ {"invalid"}, rpc[r] = "flight", GiveUp(r, why),
             chosen[r] \in sound => late[r]
      PROVE  CallFailed(r)
  BY <1>5, <1>6 DEF GiveUp, Goto, CallFailed
<1>7. CASE FailsForGood(r)
  <2>1. rpc[r] = "flight"
    BY <1>7 DEF FailsForGood
  <2>2. CASE Tell(r, RecordCancelled)
    BY <1>2, <2>1, <2>2
  <2>3. CASE Tell(r, RecordFailure) /\ chosen[r] \notin sound /\ GiveUp(r, "fatal")
    BY <1>2, <1>6, <2>1, <2>3 DEF Errors
  <2> QED
    BY <1>7, <2>2, <2>3 DEF FailsForGood
<1>8. CASE FailsForLast(r)
  <2>1. PICK why \in {"timeout", "error", "budget"} :
          GiveUp(r, why) /\ (chosen[r] \in sound => late[r])
    BY <1>8 DEF FailsForLast, CutOff
  <2>2. rpc[r] = "flight" /\ Tell(r, RecordFailure)
    BY <1>8 DEF FailsForLast
  <2> QED
    BY <1>2, <1>6, <2>1, <2>2 DEF Errors
<1>9. CASE OpeningTimesOut(r)
  <2>1. rpc[r] = "flight" /\ late[r] /\ Tell(r, RecordFailure) /\ GiveUp(r, "budget")
    BY <1>9 DEF OpeningTimesOut
  <2> QED
    BY <1>2, <1>6, <2>1 DEF Errors
<1>10. CASE StreamBreaks(r) \/ StreamClosed(r)
  <2>1. rpc[r] = "stream" /\ Tell(r, RecordFailure) /\ Goto(r, "broken")
    BY <1>10 DEF StreamBreaks, StreamClosed
  <2> QED
    BY <1>2, <1>5, <2>1 DEF Goto, StreamFailed
<1>11. CASE StreamCancelled(r)
  BY <1>2, <1>11 DEF StreamCancelled
<1> QED
  BY <1>1, <1>3, <1>4, <1>7, <1>8, <1>9, <1>10, <1>11 DEF Serve, Provider

\* What counts no failure and opens no closed breaker: everything but a failure.
LEMMA CountsNothing ==
  ASSUME NEW b \in Breaker, NEW c \in {Admitted(b), RecordSuccess(b), RecordCancelled(b)}
  PROVE  c.failures \in 0..b.failures /\ (b.state = "closed" => c.state = "closed")
<1>1. b.failures \in Nat
  BY ThresholdAssumption DEF Breaker
<1>2. CASE c = Admitted(b)
  BY <1>1, <1>2 DEF Breaker, Admitted
<1>3. CASE c = RecordSuccess(b)
  BY <1>1, <1>3 DEF RecordSuccess, Healthy
<1>4. CASE c = RecordCancelled(b)
  BY <1>1, <1>4 DEF Breaker, RecordCancelled, Opened
<1> QED
  BY <1>2, <1>3, <1>4

LEMMA BlamedStep ==
  ASSUME IInv, [Next]_vars, NEW p \in Providers, Blamed(p)
  PROVE  \/ ProbeFailed(p)
         \/ \E r \in Requests : chosen[r] = p /\ (CallFailed(r) \/ StreamFailed(r))
<1>1. breaker \in [Providers -> Breaker] /\ breaker[p] \in Breaker /\ breaker[p].failures \in Nat
  BY DEF IInv, Inv, TypeOK, Breaker
<1>2. breaker'[p] # breaker[p]
  BY <1>1 DEF Blamed
<1>3. ASSUME NEW r \in Requests, Serve(r)
      PROVE  chosen[r] = p /\ (CallFailed(r) \/ StreamFailed(r))
  <2>1. ASSUME NEW b, breaker' = [breaker EXCEPT ![chosen[r]] = b], chosen[r] \in Providers
        PROVE  chosen[r] = p /\ breaker'[p] = b
    BY <1>1, <1>2, <2>1
  <2>2. CASE Tell(r, Admitted) \/ Tell(r, RecordSuccess) \/ Tell(r, RecordCancelled)
    <3>1. SUFFICES ASSUME chosen[r] \in Providers PROVE FALSE
      BY <1>2, <1>3, <2>2, OneReport
    <3>2. breaker'[p] \in {Admitted(breaker[p]), RecordSuccess(breaker[p]), RecordCancelled(breaker[p])}
      BY <1>1, <1>2, <2>2, <3>1 DEF Tell
    <3>3. /\ breaker'[p].failures \in 0..breaker[p].failures
          /\ breaker[p].state = "closed" => breaker'[p].state = "closed"
      BY <1>1, <3>2, CountsNothing
    <3> QED
      BY <1>1, <3>3 DEF Blamed
  <2>3. CASE Tell(r, RecordFailure) /\ (CallFailed(r) \/ StreamFailed(r)) /\ chosen[r] \in Providers
    BY <2>1, <2>3 DEF Tell
  <2> QED
    BY <1>2, <1>3, <2>2, <2>3, OneReport
<1>4. ASSUME NEW r \in Requests, Expire(r) \/ Renew(r) PROVE FALSE
  BY <1>2, <1>4 DEF Expire, Renew, shared
<1>5. ASSUME NEW q \in Providers, Environment(q) PROVE ProbeFailed(p)
  <2>1. CASE HealthProbeFails(q)
    BY <1>1, <1>2, <2>1 DEF HealthProbeFails, ProbeFailed, control
  <2>2. CASE Cool(q)
    <3>1. breaker'[p].failures = breaker[p].failures /\ breaker'[p].state = breaker[p].state
      BY <1>1, <2>2 DEF Cool, Breaker
    <3> QED
      BY <1>1, <3>1 DEF Blamed
  <2>3. CASE Age(q)
    <3>1. p = q /\ breaker'[p] = Aged(breaker[p])
      BY <1>1, <1>2, <2>3 DEF Age
    <3>2. breaker'[p].failures = breaker[p].failures - 1 /\ breaker'[p].state = breaker[p].state
      BY <1>1, <3>1 DEF Aged, Breaker
    <3> QED
      BY <1>1, <3>2 DEF Blamed
  <2>4. CASE Heal(q)
    BY <1>2, <2>4 DEF Heal
  <2> QED
    BY <1>5, <2>1, <2>2, <2>3, <2>4 DEF Environment
<1>6. CASE UNCHANGED vars
  BY <1>2, <1>6 DEF vars, shared
<1> QED
  BY <1>3, <1>4, <1>5, <1>6 DEF Next

\* However many requests, retries and failovers there are, a failure is only
\* counted for a failed health probe, for a call that is given up or for a
\* stream that ends early, and for a provider that answers all that fits it only
\* when the deadline cut the call or the client closed the stream (retry.py,
\* main.py, record_cancelled).
THEOREM BlamedAlwaysForAReason == Spec => BlamedForAReason
<1>1. IInv /\ [Next]_vars =>
        [\A p \in Providers : Blamed(p) =>
           \/ ProbeFailed(p)
           \/ \E r \in Requests : chosen[r] = p /\ (CallFailed(r) \/ StreamFailed(r))]_vars
  BY BlamedStep
<1> QED
  BY <1>1, Invariant, PTL DEF Spec, BlamedForAReason

\* A half-open breaker is not probing any more once it is told of an end.
LEMMA EndsProbe ==
  ASSUME NEW b \in Breaker, Consistent(b), b.probing
  PROVE  ~RecordSuccess(b).probing /\ ~RecordFailure(b).probing /\ ~RecordCancelled(b).probing
  BY DEF Breaker, Consistent, RecordSuccess, RecordFailure, RecordCancelled, Opened, Healthy

\* A request that is with p and leaves it tells the breaker, unless its time
\* was up at the head of an attempt.
LEMMA LeavingReports ==
  ASSUME IInv, NEW r \in Requests, NEW p \in Providers, Serve(r) \/ Expire(r) \/ Renew(r),
         With(r, p), ~With(r, p)', breaker[p].probing
  PROVE  ~breaker'[p].probing \/ (rpc[r] = "attempt" /\ late[r])
<1>1. /\ chosen[r] = p /\ rpc[r] \in {"attempt", "flight", "sleep", "stream"}
      /\ breaker \in [Providers -> Breaker] /\ breaker[p] \in Breaker /\ Consistent(breaker[p])
      /\ rpc \in [Requests -> {"idle", "stream"} \cup InProgress \cup Answered]
  BY DEF With, IInv, Inv, TypeOK, BreakersConsistent
<1>2. Tell(r, RecordSuccess) \/ Tell(r, RecordFailure) \/ Tell(r, RecordCancelled)
        => ~breaker'[p].probing
  BY <1>1, EndsProbe DEF Tell
<1>3. CASE Arrive(r) \/ Select(r) \/ NoRoute(r) \/ HandleFailure(r) \/ Admit(r) \/ Refuse(r) \/ Renew(r)
  BY <1>1, <1>3 DEF Arrive, Select, NoRoute, HandleFailure, Admit, Refuse, Renew, Answered
<1>4. CASE OutOfTime(r)
  BY <1>4 DEF OutOfTime
<1>5. CASE Call(r) \/ Retry(r) \/ FailsForNow(r) \/ StreamOpens(r) \/ Expire(r)
  BY <1>1, <1>5 DEF Call, Retry, FailsForNow, StreamOpens, Expire, Settle, Goto, With
<1>6. CASE CallSucceeds(r) \/ FailsForGood(r) \/ FailsForLast(r) \/ OpeningTimesOut(r)
           \/ StreamCompletes(r) \/ StreamBreaks(r) \/ StreamCancelled(r) \/ StreamClosed(r)
  BY <1>2, <1>6 DEF CallSucceeds, FailsForGood, FailsForLast, OpeningTimesOut,
                    StreamCompletes, StreamBreaks, StreamCancelled, StreamClosed
<1> QED
  BY <1>3, <1>4, <1>5, <1>6 DEF Serve, Provider

LEMMA SlotStep ==
  ASSUME IInv, [Next]_vars, NEW p \in Providers
  PROVE  SlotIsReturned(p)
<1> SUFFICES ASSUME breaker[p].probing, Owned(p), ~Owned(p)'
             PROVE  \/ ~breaker'[p].probing
                    \/ \E r \in Requests : With(r, p) /\ rpc[r] = "attempt" /\ late[r]
  BY DEF SlotIsReturned
<1>1. PICK r \in Requests : With(r, p)
  BY DEF Owned
<1>2. ~With(r, p)'
  BY DEF Owned
<1>3. SameRequest(r) => FALSE
  BY <1>1, <1>2 DEF SameRequest, With
<1>4. CASE \E q \in Requests : Serve(q) \/ Expire(q) \/ Renew(q)
  <2>1. PICK q \in Requests : Serve(q) \/ Expire(q) \/ Renew(q)
    BY <1>4
  <2>2. q = r
    BY <1>3, <2>1, OthersSame DEF IInv, Inv
  <2> QED
    BY <1>1, <1>2, <2>1, <2>2, LeavingReports
<1>5. CASE \E q \in Providers : Environment(q)
  BY <1>3, <1>5 DEF Environment, HealthProbeFails, Cool, Age, Heal, control, SameRequest
<1>6. CASE UNCHANGED vars
  BY <1>3, <1>6 DEF vars, control, SameRequest
<1> QED
  BY <1>4, <1>5, <1>6 DEF Next

\* The slot of a half-open breaker is given back by whoever is the last to
\* leave its provider, on every way out of retry.py and of a stream but
\* one: the budget that is spent at the head of an attempt (retry.py:202).
THEOREM SlotsComeBack == Spec => SlotsAreReturned
<1>1. IInv /\ [Next]_vars => [\A p \in Providers : SlotIsReturned(p)]_vars
  BY SlotStep
<1> QED
  BY <1>1, Invariant, PTL DEF Spec, SlotsAreReturned

=============================================================================
