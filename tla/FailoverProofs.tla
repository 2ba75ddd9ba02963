--------------------------- MODULE FailoverProofs ---------------------------
(***************************************************************************)
(* For every provider list, request and policy: the guardrails hold at     *)
(* every selection and failover, a selection is one provider and does not  *)
(* depend on the ones it does not choose, a limit is exceeded only when it *)
(* must be, and a larger budget never costs a request its provider.        *)
(***************************************************************************)
EXTENDS Failover, FiniteSetTheorems, WellFoundedInduction, TLAPS

LEMMA InitTypes == Init => TypeOK
  BY RoutingAssumption DEF Init, TypeOK, Phases

LEMMA SelectedIsGuarded ==
  ASSUME NEW cat, NEW req, NEW pol, NEW down, NEW pool,
         NEW p \in SelectProvider(cat, req, pol, down, pool)
  PROVE  p \in Guarded(cat, req, down, pool)
<1>1. p \in Eligible(cat, req, pol, down, pool)
  BY DEF SelectProvider, Preferred, HighQuality, Balanced, Cheapest, TopReals, Reals
<1>2. p \in Priced(cat, req, pol, Guarded(cat, req, down, pool))
  BY <1>1 DEF Eligible, InTime, Relaxed
<1> QED
  BY <1>2 DEF Priced, Relaxed, Affordable

LEMMA StepTypes == TypeOK /\ [Next]_vars => TypeOK'
<1> SUFFICES ASSUME TypeOK, [Next]_vars PROVE TypeOK'
  OBVIOUS
<1>1. CASE Select
  <2>1. PICK down \in SUBSET Providers :
          \E p \in SelectProvider(catalog, request, policy, down, Providers \ tried) :
            chosen' = p /\ tried' = tried \cup {p}
    BY <1>1 DEF Select
  <2>2. PICK p \in SelectProvider(catalog, request, policy, down, Providers \ tried) :
          chosen' = p /\ tried' = tried \cup {p}
    BY <2>1
  <2>3. p \in Providers
    BY <2>2, SelectedIsGuarded DEF Guarded
  <2> QED
    BY <1>1, <2>2, <2>3 DEF Select, TypeOK, Phases, inputs
<1>2. CASE NoRoute
  BY <1>2 DEF NoRoute, TypeOK, Phases, inputs
<1>3. CASE CallSucceeds \/ CallFails \/ TimesOut
  BY <1>3 DEF CallSucceeds, CallFails, TimesOut, TypeOK, Phases, inputs
<1>4. CASE Again
  BY <1>4 DEF Again, TypeOK, Phases, inputs
<1>5. CASE UNCHANGED vars
  BY <1>5 DEF vars, TypeOK, inputs
<1> QED
  BY <1>1, <1>2, <1>3, <1>4, <1>5 DEF Next

\* Every reachable state of a routed request is well typed.
THEOREM TypeCorrect == Spec => []TypeOK
  BY InitTypes, StepTypes, PTL DEF Spec

\* Whatever the policy relaxes and however often the request fails over, no
\* provider it is given breaks its privacy or lacks a capability it needs.
THEOREM GuardrailsAlways == Spec => []Guardrails
<1>1. Init => Guardrails
  BY DEF Init, Guardrails
<1>2. Guardrails /\ [Next]_vars => Guardrails'
  <2> SUFFICES ASSUME Guardrails, [Next]_vars PROVE Guardrails'
    OBVIOUS
  <2>1. CASE Select
    <3>1. PICK down \in SUBSET Providers :
            \E p \in SelectProvider(catalog, request, policy, down, Providers \ tried) : chosen' = p
      BY <2>1 DEF Select
    <3>2. chosen' \in Guarded(catalog, request, down, Providers \ tried)
      BY <3>1, SelectedIsGuarded
    <3> QED
      BY <2>1, <3>2 DEF Select, Guarded, Guardrails, inputs
  <2>2. CASE NoRoute \/ CallSucceeds \/ CallFails \/ TimesOut
    BY <2>2 DEF NoRoute, CallSucceeds, CallFails, TimesOut, Guardrails, inputs
  <2>3. CASE Again
    BY <2>3 DEF Again, Guardrails
  <2>4. CASE UNCHANGED vars
    BY <2>4 DEF vars, inputs, Guardrails
  <2> QED
    BY <2>1, <2>2, <2>3, <2>4 DEF Next
<1> QED
  BY <1>1, <1>2, PTL DEF Spec

-----------------------------------------------------------------------------
(* Stability: S is a list of candidates, q a candidate that is not chosen. *)

Typed(cat, pol) ==
  /\ cat \in [Providers -> Entry]
  /\ pol \in Policy

LEMMA EstimateIsNat ==
  ASSUME NEW cat, NEW pol, Typed(cat, pol), NEW p \in Providers
  PROVE  Est(cat, pol, p) \in Nat
<1>1. cat[p].fixed \in Nat /\ cat[p].perOutput \in Nat /\ pol.assumedOutput \in Nat
  BY DEF Typed, Entry, Policy
<1> QED
  BY <1>1 DEF Est

LEMMA CheapestOfFewer ==
  ASSUME NEW cat, NEW pol, NEW S, NEW T \in SUBSET S,
         NEW p \in Cheapest(cat, pol, S), p \in T
  PROVE  p \in Cheapest(cat, pol, T)
  BY DEF Cheapest

LEMMA RelaxedOfFewer ==
  ASSUME NEW passing, NEW S, NEW mode, passing \subseteq S, NEW q,
         NEW p \in Relaxed(passing, S, mode), p # q
  PROVE  Relaxed(passing \ {q}, S \ {q}, mode) = Relaxed(passing, S, mode) \ {q}
<1>1. CASE passing # {}
  <2>1. p \in passing \ {q}
    BY <1>1 DEF Relaxed
  <2> QED
    BY <1>1, <2>1 DEF Relaxed
<1>2. CASE passing = {}
  BY <1>2 DEF Relaxed
<1> QED
  BY <1>1, <1>2

LEMMA BalancedOfFewer ==
  ASSUME NEW cat, NEW pol, Typed(cat, pol), NEW S \in SUBSET Providers, NEW q \in S,
         NEW p \in Balanced(cat, pol, S), p # q
  PROVE  p \in Balanced(cat, pol, S \ {q})
<1> DEFINE T == S \ {q}
           E(x) == Est(cat, pol, x)
           Within(r, U) == \A c \in U : 100 * E(r) <= E(c) * (100 + pol.tolerance)
           Prefers(U) == \E r \in Cheapest(cat, pol, Reals(cat, U)) : Within(r, U)
<1>1. \A U : Balanced(cat, pol, U) = IF Prefers(U) THEN Cheapest(cat, pol, Reals(cat, U))
                                     ELSE Cheapest(cat, pol, U)
  BY DEF Balanced
<1>2. \A x \in S : E(x) \in Nat
  BY EstimateIsNat
<1>3. \A x \in S : cat[x].at \in Int
  BY DEF Typed, Entry
<1>4. pol.tolerance \in Nat
  BY DEF Typed, Policy
<1>5. Reals(cat, T) \subseteq Reals(cat, S) /\ Reals(cat, S) \subseteq S
  BY DEF Reals
<1>6. CASE Prefers(S)
  <2>1. p \in Cheapest(cat, pol, Reals(cat, S))
    BY <1>1, <1>6
  <2>2. p \in Reals(cat, T)
    BY <2>1 DEF Cheapest, Reals
  <2>3. p \in Cheapest(cat, pol, Reals(cat, T))
    BY <1>5, <2>1, <2>2, CheapestOfFewer
  <2>4. PICK r \in Cheapest(cat, pol, Reals(cat, S)) : Within(r, S)
    BY <1>6
  <2>5. E(p) <= E(r) /\ E(r) <= E(p)
    BY <1>2, <1>5, <2>1, <2>4 DEF Cheapest
  <2>6. E(p) = E(r)
    BY <1>2, <1>5, <2>1, <2>4, <2>5 DEF Cheapest
  <2>7. Within(p, T)
    BY <2>4, <2>6
  <2> QED
    BY <1>1, <2>3, <2>7
<1>7. CASE ~Prefers(S)
  <2>1. p \in Cheapest(cat, pol, S)
    BY <1>1, <1>7
  <2>2. p \in T
    BY <2>1 DEF Cheapest
  <2>3. p \in Cheapest(cat, pol, T)
    BY <2>1, <2>2, CheapestOfFewer
  <2>4. SUFFICES ASSUME NEW r \in Cheapest(cat, pol, Reals(cat, T)), Within(r, T)
                 PROVE  p \in Cheapest(cat, pol, Reals(cat, T))
    BY <1>1, <2>3
  <2>5. r \in Reals(cat, S) /\ r \in S /\ p \in S
    BY <1>5, <2>2, <2>4 DEF Cheapest
  <2>6. \A c \in S : E(p) <= E(c)
    BY <1>2, <2>1, <2>5 DEF Cheapest
  <2>7. 100 * E(r) <= E(p) * (100 + pol.tolerance)
    BY <2>2, <2>4
  <2>8. ASSUME NEW c \in S PROVE 100 * E(r) <= E(c) * (100 + pol.tolerance)
    <3>1. E(p) \in Nat /\ E(c) \in Nat /\ E(r) \in Nat /\ E(p) <= E(c)
      BY <1>2, <2>5, <2>6
    <3>2. \A a, b \in Nat, m \in Nat : a <= b => a * m <= b * m
      OBVIOUS
    <3>3. E(p) * (100 + pol.tolerance) <= E(c) * (100 + pol.tolerance)
      BY <1>4, <3>1, <3>2
    <3>4. E(p) * (100 + pol.tolerance) \in Int /\ E(c) * (100 + pol.tolerance) \in Int
      BY <1>4, <3>1
    <3> HIDE DEF E
    <3> QED
      BY <2>7, <3>1, <3>3, <3>4
  <2>9. CASE r \in Cheapest(cat, pol, Reals(cat, S))
    BY <1>7, <2>8, <2>9
  <2>10. CASE r \notin Cheapest(cat, pol, Reals(cat, S))
    <3>1. q \in Reals(cat, S) /\ ~(\/ E(r) < E(q)
                                  \/ (E(r) = E(q) /\ cat[r].at <= cat[q].at))
      BY <2>4, <2>5, <2>10 DEF Cheapest, Reals
    <3>2. E(q) < E(r) \/ (E(q) = E(r) /\ cat[q].at <= cat[r].at)
      <4>1. E(q) \in Nat /\ E(r) \in Nat /\ cat[q].at \in Int /\ cat[r].at \in Int
        BY <1>2, <1>3, <2>5
      <4>2. ~(E(r) < E(q) \/ (E(r) = E(q) /\ cat[r].at <= cat[q].at))
        BY <3>1
      <4>3. \A a, b, x, y \in Int : ~(a < b \/ (a = b /\ x <= y)) => b < a \/ (b = a /\ y <= x)
        OBVIOUS
      <4> HIDE DEF E
      <4> QED
        BY <4>1, <4>2, <4>3
    <3>3. ASSUME NEW x \in Reals(cat, S)
          PROVE  E(q) < E(x) \/ (E(q) = E(x) /\ cat[q].at <= cat[x].at)
      <4>1. x \in S /\ (x = q \/ x \in Reals(cat, T))
        BY <1>5 DEF Reals
      <4>2. CASE x = q
        BY <1>2, <1>3, <4>1, <4>2
      <4>3. CASE x \in Reals(cat, T)
        <5>1. E(r) < E(x) \/ (E(r) = E(x) /\ cat[r].at <= cat[x].at)
          BY <2>4, <4>3 DEF Cheapest
        <5>2. /\ E(q) \in Nat /\ E(r) \in Nat /\ E(x) \in Nat
              /\ cat[q].at \in Int /\ cat[r].at \in Int /\ cat[x].at \in Int
          BY <1>2, <1>3, <2>5, <4>1
        <5> HIDE DEF E
        <5> QED
          BY <3>2, <5>1, <5>2
      <4> QED
        BY <4>1, <4>2, <4>3
    <3>4. q \in Cheapest(cat, pol, Reals(cat, S))
      BY <3>1, <3>3 DEF Cheapest
    <3>5. \A c \in S : 100 * E(q) <= E(c) * (100 + pol.tolerance)
      <4>1. 100 * E(q) <= 100 * E(r)
        BY <1>2, <2>5, <3>2
      <4>2. ASSUME NEW c \in S PROVE 100 * E(q) <= E(c) * (100 + pol.tolerance)
        <5>1. E(c) * (100 + pol.tolerance) \in Int /\ E(q) \in Nat /\ E(r) \in Nat
          BY <1>2, <1>4, <2>5
        <5>2. 100 * E(r) <= E(c) * (100 + pol.tolerance)
          BY <2>8
        <5> HIDE DEF E
        <5> QED
          BY <4>1, <5>1, <5>2
      <4> QED
        BY <4>2
    <3> QED
      BY <1>7, <3>4, <3>5
  <2> QED
    BY <2>9, <2>10
<1> QED
  BY <1>6, <1>7

LEMMA HighQualityOfFewer ==
  ASSUME NEW cat, NEW pol, Typed(cat, pol), NEW S \in SUBSET Providers, NEW q \in S,
         NEW p \in HighQuality(cat, pol, S), p # q
  PROVE  p \in HighQuality(cat, pol, S \ {q})
<1> DEFINE T == S \ {q}
<1>1. Reals(cat, T) = Reals(cat, S) \ {q}
  BY DEF Reals
<1>2. CASE pol.highQuality = "lowest_cost" \/ Reals(cat, S) = {}
  <2>1. p \in Cheapest(cat, pol, S)
    BY <1>2 DEF HighQuality
  <2>2. p \in Cheapest(cat, pol, T)
    BY <2>1, CheapestOfFewer DEF Cheapest
  <2> QED
    BY <1>1, <1>2, <2>2 DEF HighQuality
<1>3. CASE ~(pol.highQuality = "lowest_cost" \/ Reals(cat, S) = {})
  <2>1. ~(\E x \in Reals(cat, S) : cat[x].rank < 0) /\ p \in Cheapest(cat, pol, TopReals(cat, S))
    BY <1>3 DEF HighQuality
  <2>2. p \in TopReals(cat, S) /\ p \in Reals(cat, T)
    BY <1>1, <2>1 DEF Cheapest, TopReals
  <2>3. \A x \in S : cat[x].rank \in Int
    BY DEF Typed, Entry
  <2>4. TopReals(cat, T) \subseteq TopReals(cat, S)
    <3> SUFFICES ASSUME NEW x \in TopReals(cat, T) PROVE x \in TopReals(cat, S)
      OBVIOUS
    <3>1. x \in Reals(cat, S) /\ x \in S /\ p \in S
      BY <1>1, <2>2 DEF TopReals, Reals
    <3>2. cat[p].rank <= cat[x].rank
      BY <2>2 DEF TopReals
    <3>3. ASSUME NEW y \in Reals(cat, S) PROVE cat[y].rank <= cat[x].rank
      <4>1. y \in S /\ cat[y].rank <= cat[p].rank
        BY <2>2 DEF TopReals, Reals
      <4> QED
        BY <2>3, <3>1, <3>2, <4>1
    <3> QED
      BY <3>1, <3>3 DEF TopReals
  <2>5. p \in TopReals(cat, T)
    BY <1>1, <2>2 DEF TopReals
  <2>6. p \in Cheapest(cat, pol, TopReals(cat, T))
    BY <2>1, <2>4, <2>5, CheapestOfFewer
  <2> QED
    BY <1>1, <1>3, <2>1, <2>2, <2>6 DEF HighQuality
<1> QED
  BY <1>2, <1>3

LEMMA PreferredOfFewer ==
  ASSUME NEW cat, NEW req, NEW pol, Typed(cat, pol), NEW S \in SUBSET Providers, NEW q \in S,
         NEW p \in Preferred(cat, req, pol, S), p # q
  PROVE  p \in Preferred(cat, req, pol, S \ {q})
<1>1. CASE req.quality = "high"
  BY <1>1, HighQualityOfFewer DEF Preferred
<1>2. CASE req.quality = "balanced"
  BY <1>2, BalancedOfFewer DEF Preferred
<1>3. CASE req.quality \notin {"high", "balanced"}
  <2>1. p \in Cheapest(cat, pol, S)
    BY <1>3 DEF Preferred
  <2>2. p \in Cheapest(cat, pol, S \ {q})
    BY <2>1, CheapestOfFewer DEF Cheapest
  <2> QED
    BY <1>3, <2>2 DEF Preferred
<1> QED
  BY <1>1, <1>2, <1>3

LEMMA SelectionOfFewer ==
  ASSUME NEW cat, NEW req, NEW pol, Typed(cat, pol), NEW down, NEW S \in SUBSET Providers, NEW q,
         NEW p \in SelectProvider(cat, req, pol, down, S), p # q
  PROVE  p \in SelectProvider(cat, req, pol, down, S \ {q})
<1> DEFINE C == Eligible(cat, req, pol, down, S)
<1>1. p \in Preferred(cat, req, pol, C)
  BY DEF SelectProvider
<1>2. p \in C /\ C \subseteq S
  BY <1>1 DEF Preferred, HighQuality, Balanced, Cheapest, TopReals, Reals,
              Eligible, InTime, Priced, Affordable, Relaxed, Guarded
<1>3. Eligible(cat, req, pol, down, S \ {q}) = C \ {q}
  <2> DEFINE G == Guarded(cat, req, down, S)
             A == Affordable(cat, req, pol, G)
             P == Priced(cat, req, pol, G)
             F == {x \in P : cat[x].latency <= req.latency}
  <2>1. p \in Relaxed(F, P, pol.latencyMode)
    BY <1>2 DEF Eligible, InTime
  <2>2. p \in P
    BY <2>1 DEF Relaxed
  <2>3. Guarded(cat, req, down, S \ {q}) = G \ {q}
    BY DEF Guarded
  <2>4. Affordable(cat, req, pol, G \ {q}) = A \ {q}
    BY DEF Affordable
  <2>5. P = Relaxed(A, G, pol.budgetMode) /\ A \subseteq G
    BY DEF Priced, Affordable
  <2>6. Priced(cat, req, pol, G \ {q}) = Relaxed(A \ {q}, G \ {q}, pol.budgetMode)
    BY <2>4 DEF Priced
  <2>7. Relaxed(A \ {q}, G \ {q}, pol.budgetMode) = P \ {q}
    <3>1. p \in Relaxed(A, G, pol.budgetMode) /\ A \subseteq G
      BY <2>2, <2>5
    <3> HIDE DEF A, G, P
    <3>2. Relaxed(A \ {q}, G \ {q}, pol.budgetMode) = Relaxed(A, G, pol.budgetMode) \ {q}
      BY <3>1, RelaxedOfFewer
    <3> QED
      BY <2>5, <3>2
  <2>8. InTime(cat, req, pol, P \ {q}) = Relaxed(F \ {q}, P \ {q}, pol.latencyMode)
    <3>1. {x \in P \ {q} : cat[x].latency <= req.latency} = F \ {q}
      OBVIOUS
    <3> QED
      BY <3>1 DEF InTime
  <2>9. Relaxed(F \ {q}, P \ {q}, pol.latencyMode) = Relaxed(F, P, pol.latencyMode) \ {q}
    <3>1. F \subseteq P
      OBVIOUS
    <3> HIDE DEF F, P
    <3> QED
      BY <2>1, <3>1, RelaxedOfFewer
  <2>10. C = Relaxed(F, P, pol.latencyMode)
    BY DEF Eligible, InTime
  <2>11. Eligible(cat, req, pol, down, S \ {q}) = Relaxed(F, P, pol.latencyMode) \ {q}
    BY <2>3, <2>6, <2>7, <2>8, <2>9 DEF Eligible
  <2> HIDE DEF F, P, C
  <2> QED
    BY <2>10, <2>11
<1>4. CASE q \in C
  <2> HIDE DEF C
  <2> QED
    BY <1>1, <1>2, <1>3, <1>4, PreferredOfFewer DEF SelectProvider
<1>5. CASE q \notin C
  <2>1. C \ {q} = C
    BY <1>5
  <2> QED
    BY <1>1, <1>3, <2>1 DEF SelectProvider
<1> QED
  BY <1>4, <1>5

\* Taking a provider that was not chosen off the list, as failover does with
\* the ones already tried, never changes the choice: for every list of
\* providers, request and policy.
THEOREM FailoverStable == Spec => []FailoverIsStable
<1>1. TypeOK => FailoverIsStable
  <2> SUFFICES ASSUME TypeOK, NEW pool \in SUBSET Providers, NEW p \in Routed(pool),
                      NEW q \in pool \ {p}
               PROVE  p \in Routed(pool \ {q})
    BY DEF FailoverIsStable
  <2>1. Typed(catalog, policy)
    BY RoutingAssumption DEF TypeOK, Typed
  <2> QED
    BY <2>1, SelectionOfFewer DEF Routed
<1> QED
  BY <1>1, TypeCorrect, PTL

-----------------------------------------------------------------------------
(* What is relaxed, and when. *)

\* A provider over the budget or too slow is only ever given to a request
\* under a soft policy, and only when no listed provider that passes the
\* guardrails does better (router.py, the budget before the latency).
THEOREM RelaxesLast == Spec => []RelaxesOnlyWhenItMust
<1>1. TypeOK => RelaxesOnlyWhenItMust
  <2> SUFFICES ASSUME TypeOK, NEW pool \in SUBSET Providers, NEW p \in Routed(pool)
               PROVE  LET guarded == Guarded(catalog, request, {}, pool)
                          cheap   == Affordable(catalog, request, policy, guarded)
                      IN /\ p \notin cheap => policy.budgetMode = "soft" /\ cheap = {}
                         /\ catalog[p].latency > request.latency =>
                              /\ policy.latencyMode = "soft"
                              /\ \A q \in guarded : q \in cheap \/ cheap = {} =>
                                   catalog[q].latency > request.latency
    BY DEF RelaxesOnlyWhenItMust
  <2> DEFINE G == Guarded(catalog, request, {}, pool)
             A == Affordable(catalog, request, policy, G)
             P == Priced(catalog, request, policy, G)
             F == {x \in P : catalog[x].latency <= request.latency}
  <2>1. policy.budgetMode \in {"soft", "hard"} /\ policy.latencyMode \in {"soft", "hard"}
    BY RoutingAssumption DEF TypeOK, Policy
  <2>2. request.latency \in Nat /\ \A x \in Providers : catalog[x].latency \in Nat
    BY RoutingAssumption DEF TypeOK, Request, Entry
  <2>3. G \subseteq Providers
    BY DEF Guarded
  <2>4. p \in Eligible(catalog, request, policy, {}, pool)
    BY DEF Routed, SelectProvider, Preferred, HighQuality, Balanced, Cheapest, TopReals, Reals
  <2>5. p \in Relaxed(F, P, policy.latencyMode)
    BY <2>4 DEF Eligible, InTime
  <2>6. P = Relaxed(A, G, policy.budgetMode)
    BY DEF Priced
  <2>7. p \in P /\ (p \notin F => policy.latencyMode = "soft" /\ F = {})
    BY <2>1, <2>5 DEF Relaxed
  <2>8. p \notin A => policy.budgetMode = "soft" /\ A = {}
    BY <2>1, <2>6, <2>7 DEF Relaxed
  <2>9. p \in Providers /\ (catalog[p].latency > request.latency => p \notin F)
    BY <2>2, <2>3, <2>6, <2>7 DEF Relaxed, Affordable
  <2>10. ASSUME F = {}, NEW q \in G, q \in A \/ A = {}
         PROVE  catalog[q].latency > request.latency
    <3>1. q \in P
      <4>1. CASE A # {}
        BY <2>6, <2>10, <4>1 DEF Relaxed
      <4>2. CASE A = {}
        <5>1. policy.budgetMode # "hard"
          BY <2>6, <2>7, <4>2 DEF Relaxed
        <5> QED
          BY <2>6, <4>2, <5>1 DEF Relaxed
      <4> QED
        BY <4>1, <4>2
    <3>2. ~(catalog[q].latency <= request.latency)
      BY <2>10, <3>1
    <3> QED
      BY <2>2, <2>3, <3>2
  <2> QED
    BY <2>7, <2>8, <2>9, <2>10
<1> QED
  BY <1>1, TypeCorrect, PTL

-----------------------------------------------------------------------------
(* One is chosen: the list of providers is finite.                         *)

\* A function into the integers is greatest somewhere on a finite set.
LEMMA Greatest ==
  ASSUME NEW S, IsFiniteSet(S), S # {}, NEW f \in [S -> Int]
  PROVE  \E x \in S : \A y \in S : f[y] <= f[x]
<1> DEFINE Tops(U) == {x \in U : \A y \in U : f[y] <= f[x]}
           Bad     == {U \in SUBSET S : U # {} /\ Tops(U) = {}}
<1>1. SUFFICES ASSUME Bad # {} PROVE FALSE
  BY DEF Bad
<1>2. Bad \subseteq FiniteSubsetsOf(S)
  BY FS_FiniteSubsetsOfFinite
<1>3. \E U \in Bad : \A V \in Bad : <<V, U>> \notin StrictSubsetOrdering(S)
  <2> HIDE DEF Bad
  <2> QED
    BY <1>1, <1>2, FS_StrictSubsetOrderingWellFounded, WFMin
<1>4. PICK U \in Bad : \A V \in Bad : <<V, U>> \notin StrictSubsetOrdering(S)
  BY <1>3
<1>5. PICK x : x \in U
  BY <1>4 DEF Bad
<1>6. U \ {x} \notin Bad
  BY <1>4, <1>5 DEF StrictSubsetOrdering
<1>7. \A y \in U : f[y] \in Int
  BY DEF Bad
<1>8. CASE U \ {x} = {}
  <2>1. x \in Tops(U)
    BY <1>5, <1>7, <1>8
  <2> QED
    BY <1>4, <2>1 DEF Bad
<1>9. CASE U \ {x} # {}
  <2>1. PICK m : m \in Tops(U \ {x})
    BY <1>6, <1>9 DEF Bad
  <2>2. m \in U /\ \A y \in U \ {x} : f[y] <= f[m]
    BY <2>1
  <2>3. CASE f[x] <= f[m]
    <3>1. m \in Tops(U)
      BY <2>2, <2>3
    <3> QED
      BY <1>4, <3>1 DEF Bad
  <2>4. CASE f[m] <= f[x]
    <3>1. x \in Tops(U)
      BY <1>5, <1>7, <2>2, <2>4
    <3> QED
      BY <1>4, <3>1 DEF Bad
  <2> QED
    BY <1>5, <1>7, <2>2, <2>3, <2>4
<1> QED
  BY <1>8, <1>9

\* A finite list of candidates has a cheapest one: min() finds the first.
LEMMA CheapestExists ==
  ASSUME NEW cat, NEW pol, Typed(cat, pol), NEW S \in SUBSET Providers, S # {}
  PROVE  Cheapest(cat, pol, S) # {}
<1> DEFINE E(x) == Est(cat, pol, x)
           f    == [x \in S |-> 0 - E(x)]
           T    == {x \in S : \A y \in S : E(x) <= E(y)}
           g    == [x \in T |-> 0 - cat[x].at]
<1>1. IsFiniteSet(S) /\ IsFiniteSet(T)
  BY RoutingAssumption, FS_Subset
<1>2. \A x \in S : E(x) \in Nat /\ cat[x].at \in Int
  BY EstimateIsNat DEF Typed, Entry
<1>3. T # {}
  <2>1. f \in [S -> Int]
    BY <1>2
  <2>2. PICK x \in S : \A y \in S : f[y] <= f[x]
    BY <1>1, <2>1, Greatest
  <2>3. \A y \in S : E(x) <= E(y)
    <3>1. \A y \in S : 0 - E(y) <= 0 - E(x)
      BY <2>2
    <3> HIDE DEF E
    <3> QED
      BY <1>2, <3>1
  <2> QED
    BY <2>3
<1>4. g \in [T -> Int]
  BY <1>2
<1>5. PICK x \in T : \A y \in T : g[y] <= g[x]
  <2> HIDE DEF T, g
  <2> QED
    BY <1>1, <1>3, <1>4, Greatest
<1>6. \A y \in T : cat[x].at <= cat[y].at
  <2>1. \A y \in T : 0 - cat[y].at <= 0 - cat[x].at
    BY <1>5
  <2> QED
    BY <1>2, <2>1
<1>7. ASSUME NEW y \in S PROVE E(x) < E(y) \/ (E(x) = E(y) /\ cat[x].at <= cat[y].at)
  <2>1. CASE y \in T
    <3>1. E(x) <= E(y) /\ E(y) <= E(x)
      BY <2>1
    <3> HIDE DEF E
    <3> QED
      BY <1>2, <1>6, <2>1, <3>1
  <2>2. CASE y \notin T
    <3>1. PICK z \in S : ~(E(y) <= E(z))
      BY <2>2
    <3>2. E(x) <= E(z)
      BY <1>5
    <3> HIDE DEF E
    <3> QED
      BY <1>2, <1>5, <3>1, <3>2
  <2> QED
    BY <2>1, <2>2
<1>8. x \in Cheapest(cat, pol, S)
  BY <1>7 DEF Cheapest
<1> QED
  BY <1>8

\* Places in the list are distinct, so the first of the cheapest is the only one.
LEMMA CheapestIsOne ==
  ASSUME NEW cat \in Catalogs, NEW pol, Typed(cat, pol), NEW S \in SUBSET Providers,
         NEW p \in Cheapest(cat, pol, S), NEW q \in Cheapest(cat, pol, S)
  PROVE  p = q
<1>1. p \in Providers /\ q \in Providers
  BY DEF Cheapest
<1>2. /\ Est(cat, pol, p) \in Nat /\ Est(cat, pol, q) \in Nat
      /\ cat[p].at \in Int /\ cat[q].at \in Int
  BY <1>1, EstimateIsNat DEF Typed, Entry
<1>3. cat[p].at = cat[q].at
  BY <1>2 DEF Cheapest
<1> QED
  BY <1>1, <1>3, RoutingAssumption

\* Whatever the quality asked for, the router picks one of the candidates, as
\* long as none has an invalid quality_rank.
LEMMA PreferredExists ==
  ASSUME NEW cat, NEW req, NEW pol, Typed(cat, pol), NEW S \in SUBSET Providers, S # {},
         \A x \in Providers : cat[x].rank >= 0
  PROVE  Preferred(cat, req, pol, S) # {}
<1>1. Reals(cat, S) \in SUBSET S /\ TopReals(cat, S) \in SUBSET S
  BY DEF Reals, TopReals
<1>2. Reals(cat, S) # {} => TopReals(cat, S) # {}
  <2> SUFFICES ASSUME Reals(cat, S) # {} PROVE TopReals(cat, S) # {}
    OBVIOUS
  <2> DEFINE R == Reals(cat, S)
             f == [x \in R |-> cat[x].rank]
  <2>1. f \in [R -> Int]
    BY <1>1 DEF Typed, Entry
  <2>2. IsFiniteSet(R)
    BY <1>1, RoutingAssumption, FS_Subset
  <2>3. PICK x \in R : \A y \in R : f[y] <= f[x]
    <3> HIDE DEF R, f
    <3> QED
      BY <2>1, <2>2, Greatest DEF R
  <2> QED
    BY <2>3 DEF TopReals
<1>3. Cheapest(cat, pol, S) # {}
  BY CheapestExists
<1>4. Reals(cat, S) # {} =>
        Cheapest(cat, pol, Reals(cat, S)) # {} /\ Cheapest(cat, pol, TopReals(cat, S)) # {}
  BY <1>1, <1>2, CheapestExists
<1>5. HighQuality(cat, pol, S) # {}
  <2>1. \A x \in Reals(cat, S) : ~(cat[x].rank < 0)
    BY <1>1 DEF Typed, Entry
  <2> QED
    BY <1>3, <1>4, <2>1 DEF HighQuality
<1>6. Balanced(cat, pol, S) # {}
  BY <1>3 DEF Balanced
<1> QED
  BY <1>3, <1>5, <1>6 DEF Preferred

LEMMA PreferredIsOne ==
  ASSUME NEW cat \in Catalogs, NEW req, NEW pol, Typed(cat, pol), NEW S \in SUBSET Providers,
         NEW p \in Preferred(cat, req, pol, S), NEW q \in Preferred(cat, req, pol, S)
  PROVE  p = q
<1>1. Reals(cat, S) \in SUBSET Providers /\ TopReals(cat, S) \in SUBSET Providers
  BY DEF Reals, TopReals
<1>2. \/ p \in Cheapest(cat, pol, S) /\ q \in Cheapest(cat, pol, S)
      \/ p \in Cheapest(cat, pol, Reals(cat, S)) /\ q \in Cheapest(cat, pol, Reals(cat, S))
      \/ p \in Cheapest(cat, pol, TopReals(cat, S)) /\ q \in Cheapest(cat, pol, TopReals(cat, S))
  BY DEF Preferred, HighQuality, Balanced
<1> QED
  BY <1>1, <1>2, CheapestIsOne

LEMMA CatalogTyped == TypeOK => catalog \in Catalogs /\ Typed(catalog, policy)
  BY RoutingAssumption DEF TypeOK, Typed

LEMMA EligibleListed ==
  ASSUME NEW cat, NEW req, NEW pol, NEW down, NEW pool
  PROVE  Eligible(cat, req, pol, down, pool) \subseteq pool
  BY DEF Eligible, InTime, Priced, Affordable, Relaxed, Guarded

\* The router hands a request to exactly one provider and turns it away only
\* when the guardrails or a limit that is hard leave nobody: whatever the
\* list, the request and the policy (router.py, no quality_rank invalid).
THEOREM AlwaysDecides == Spec => []Decides
<1>1. TypeOK => Decides
  <2> SUFFICES ASSUME TypeOK, NEW pool \in SUBSET Providers
               PROVE  LET guarded == Guarded(catalog, request, {}, pool)
                          fits    == {p \in Affordable(catalog, request, policy, guarded) :
                                        catalog[p].latency <= request.latency}
                      IN /\ \A p, q \in Routed(pool) : p = q
                         /\ (\A p \in Providers : catalog[p].rank >= 0) =>
                              /\ fits # {} => Routed(pool) # {}
                              /\ guarded # {} /\ policy.budgetMode = "soft" /\ policy.latencyMode = "soft"
                                   => Routed(pool) # {}
    BY DEF Decides
  <2> DEFINE G == Guarded(catalog, request, {}, pool)
             A == Affordable(catalog, request, policy, G)
             P == Priced(catalog, request, policy, G)
             C == Eligible(catalog, request, policy, {}, pool)
  <2>1. C \in SUBSET Providers
    BY EligibleListed
  <2>2. \A p, q \in Routed(pool) : p = q
    BY <2>1, CatalogTyped, PreferredIsOne DEF Routed, SelectProvider
  <2>3. (\A p \in Providers : catalog[p].rank >= 0) /\ C # {} => Routed(pool) # {}
    BY <2>1, CatalogTyped, PreferredExists DEF Routed, SelectProvider
  <2>4. {p \in A : catalog[p].latency <= request.latency} # {} => C # {}
    BY DEF Eligible, InTime, Priced, Relaxed
  <2>5. G # {} /\ policy.budgetMode = "soft" /\ policy.latencyMode = "soft" => C # {}
    BY DEF Eligible, InTime, Priced, Relaxed
  <2> QED
    BY <2>2, <2>3, <2>4, <2>5
<1> QED
  BY <1>1, TypeCorrect, PTL

\* A larger budget, by whatever amount, never loses a request its provider.
LEMMA RicherIsServed ==
  ASSUME TypeOK, policy.budgetMode = "hard" \/ policy.latencyMode = "soft",
         \A p \in Providers : catalog[p].rank >= 0,
         NEW pool \in SUBSET Providers, NEW extra \in Nat, Routed(pool) # {}
  PROVE  SelectProvider(catalog, [request EXCEPT !.budget = @ + extra], policy, {}, pool) # {}
<1> DEFINE richer == [request EXCEPT !.budget = @ + extra]
           G      == Guarded(catalog, request, {}, pool)
<1>1. request \in Request
  BY RoutingAssumption DEF TypeOK
<1>2. /\ richer.privacy = request.privacy /\ richer.needs = request.needs
      /\ richer.latency = request.latency /\ richer.budget >= request.budget
      /\ richer.budget \in Nat /\ request.budget \in Nat
  BY <1>1 DEF Request
<1>3. G \subseteq Providers /\ Guarded(catalog, richer, {}, pool) = G
  BY <1>2 DEF Guarded
<1>4. \A p \in G : Est(catalog, policy, p) \in Nat
  BY <1>3, CatalogTyped, EstimateIsNat
<1>5. Affordable(catalog, request, policy, G) \subseteq Affordable(catalog, richer, policy, G)
  <2> HIDE DEF G, richer
  <2> QED
    BY <1>2, <1>4 DEF Affordable
<1>6. Eligible(catalog, request, policy, {}, pool) # {}
  BY DEF Routed, SelectProvider, Preferred, HighQuality, Balanced, Cheapest, TopReals, Reals
<1>7. Eligible(catalog, richer, policy, {}, pool) # {}
  <2> DEFINE P == Priced(catalog, request, policy, G)
             Q == Priced(catalog, richer, policy, G)
  <2>1. InTime(catalog, request, policy, P) # {}
    BY <1>6 DEF Eligible
  <2>2. Eligible(catalog, richer, policy, {}, pool) = InTime(catalog, richer, policy, Q)
    BY <1>3 DEF Eligible
  <2>3. P # {}
    BY <2>1 DEF InTime, Relaxed
  <2>4. CASE policy.budgetMode = "hard"
    <3>1. P \subseteq Q
      BY <1>5, <2>4 DEF Priced, Relaxed
    <3> HIDE DEF P, Q, G, richer
    <3> QED
      BY <1>2, <2>1, <2>2, <3>1 DEF InTime, Relaxed
  <2>5. CASE policy.latencyMode = "soft"
    <3>1. Q # {}
      BY <1>5, <2>3 DEF Priced, Relaxed, Affordable
    <3> HIDE DEF P, Q, G, richer
    <3> QED
      BY <2>2, <2>5, <3>1 DEF InTime, Relaxed
  <2> QED
    BY <2>4, <2>5
<1> QED
  BY <1>7, CatalogTyped, EligibleListed, PreferredExists DEF SelectProvider

\* Paying more never costs a request its provider, however many filters are
\* relaxed in between, unless budgets are given up and latencies are not
\* (router.py settles the budget before the latency).
THEOREM PayingMoreAlwaysHelps == Spec => []PayingMoreHelps
<1>1. TypeOK => PayingMoreHelps
  <2> SUFFICES ASSUME TypeOK, policy.budgetMode = "hard" \/ policy.latencyMode = "soft",
                      \A p \in Providers : catalog[p].rank >= 0,
                      NEW pool \in SUBSET Providers, NEW extra \in 0..2, Routed(pool) # {}
               PROVE  SelectProvider(catalog, [request EXCEPT !.budget = @ + extra], policy, {}, pool) # {}
    BY DEF PayingMoreHelps
  <2>1. extra \in Nat
    OBVIOUS
  <2> QED
    BY <2>1, RicherIsServed
<1> QED
  BY <1>1, TypeCorrect, PTL

=============================================================================
