------------------------------ MODULE Failover ------------------------------
(***************************************************************************)
(* What the routing of the gateway promises to one request with model      *)
(* "auto": it is given a provider that satisfies what it asked for, and    *)
(* when a call fails it is given another one, until it is served, none is  *)
(* left, or its time is up.  The health of the providers is whatever the   *)
(* breakers say at the moment of a selection, so any set of them may be    *)
(* down at any selection.  Gateway implements this module.                 *)
(***************************************************************************)
EXTENDS Router, FiniteSets

CONSTANTS
  Providers,
  Capabilities,
  Catalogs,      \* the provider lists a gateway may be configured with
  Requests,      \* what a request may ask for
  Policies,      \* the routing policies it may be served under
  NoProvider

Entry == [at : Int, privacy : {"internal", "external"}, capabilities : SUBSET Capabilities,
          kind : {"real", "mock"}, fixed : Nat, perOutput : Nat, latency : Nat, rank : Int]

Request == [privacy : {"normal", "high"}, needs : SUBSET Capabilities,
            quality : {"high", "balanced", "cheap"}, budget : Nat, latency : Nat]

Policy == [assumedOutput : Nat, tolerance : Nat, budgetMode : {"soft", "hard"},
           latencyMode : {"soft", "hard"}, highQuality : {"prefer_real", "lowest_cost"}]

\* Providers are listed one after the other; an unlisted kind counts as mock.
ASSUME RoutingAssumption ==
  /\ IsFiniteSet(Providers)
  /\ NoProvider \notin Providers
  /\ Catalogs \subseteq {cat \in [Providers -> Entry] :
                           \A p, q \in Providers : cat[p].at = cat[q].at => p = q}
  /\ Requests \subseteq Request
  /\ Policies \subseteq Policy

VARIABLES
  catalog, request, policy,   \* fixed for the whole request
  phase,                      \* where the request is
  chosen,                     \* the provider it was last given
  tried                       \* the ones it was given so far: tried_names

inputs == <<catalog, request, policy>>
vars   == <<inputs, phase, chosen, tried>>

Phases == {"routing", "calling", "served", "unavailable", "timed_out"}

TypeOK ==
  /\ catalog \in Catalogs
  /\ request \in Requests
  /\ policy \in Policies
  /\ phase \in Phases
  /\ chosen \in Providers \cup {NoProvider}
  /\ tried \subseteq Providers

\* Whom the router gives to this request out of some list of providers.
Routed(pool) == SelectProvider(catalog, request, policy, {}, pool)

Init ==
  /\ catalog \in Catalogs
  /\ request \in Requests
  /\ policy \in Policies
  /\ phase = "routing"
  /\ chosen = NoProvider
  /\ tried = {}

\* A selection that notes the provider it replaces.
SelectNotesLast ==
  /\ phase = "routing"
  /\ \E down \in SUBSET Providers :
       \E p \in SelectProvider(catalog, request, policy, down, Providers \ tried) :
         /\ chosen' = p
         /\ tried' = tried \cup {chosen}
  /\ phase' = "calling"
  /\ UNCHANGED inputs

\* _select over the providers not tried yet, with the health map of the moment.
Select ==
  /\ phase = "routing"
  /\ \E down \in SUBSET Providers :
       \E p \in SelectProvider(catalog, request, policy, down, Providers \ tried) :
         /\ chosen' = p
         /\ tried' = tried \cup {p}
  /\ phase' = "calling"
  /\ UNCHANGED inputs

\* _select raised.
NoRoute ==
  /\ phase = "routing"
  /\ \E down \in SUBSET Providers :
       SelectProvider(catalog, request, policy, down, Providers \ tried) = {}
  /\ phase' \in {"unavailable", "timed_out"}
  /\ UNCHANGED <<inputs, chosen, tried>>

CallSucceeds ==
  /\ phase = "calling"
  /\ phase' = "served"
  /\ UNCHANGED <<inputs, chosen, tried>>

\* The call failed with time left: on to the next provider, if one is left.
CallFails ==
  /\ phase = "calling"
  /\ phase' = IF tried = Providers THEN "unavailable" ELSE "routing"
  /\ UNCHANGED <<inputs, chosen, tried>>

\* The call failed and the budget of the request is spent, or its last
\* provider failed with a timeout.
TimesOut ==
  /\ phase = "calling"
  /\ phase' = "timed_out"
  /\ UNCHANGED <<inputs, chosen, tried>>

\* The client sends the same request again: nothing is remembered of it.
Again ==
  /\ phase \in {"served", "unavailable", "timed_out"}
  /\ phase' = "routing"
  /\ chosen' = NoProvider
  /\ tried' = {}
  /\ UNCHANGED inputs

Next == Select \/ NoRoute \/ CallSucceeds \/ CallFails \/ TimesOut \/ Again

Spec == Init /\ [][Next]_vars

-----------------------------------------------------------------------------
(* Properties *)

\* privacy=high never leaves the house and a required capability is never
\* missing, at the first selection and at every failover, whatever the policy
\* relaxes (router.py: "guardrail, never affected by policy").
Guardrails ==
  chosen # NoProvider =>
    /\ request.privacy = "high" => catalog[chosen].privacy = "internal"
    /\ request.needs \subseteq catalog[chosen].capabilities

\* A provider over the budget, or too slow, is taken only under a soft policy
\* and only when nothing better could be had: over the budget when no provider
\* that passes the guardrails is affordable, too slow when no provider within
\* the budget answers in time (the budget is settled before the latency).
RelaxesOnlyWhenItMust ==
  \A pool \in SUBSET Providers :
    LET guarded == Guarded(catalog, request, {}, pool)
        cheap   == Affordable(catalog, request, policy, guarded)
    IN \A p \in Routed(pool) :
         /\ p \notin cheap => policy.budgetMode = "soft" /\ cheap = {}
         /\ catalog[p].latency > request.latency =>
              /\ policy.latencyMode = "soft"
              /\ \A q \in guarded : q \in cheap \/ cheap = {} => catalog[q].latency > request.latency

\* The router gives one provider, never two, and only gives up when a hard
\* limit or the guardrails leave nobody (or a quality_rank is invalid).
Decides ==
  \A pool \in SUBSET Providers :
    LET guarded == Guarded(catalog, request, {}, pool)
        fits    == {p \in Affordable(catalog, request, policy, guarded) :
                      catalog[p].latency <= request.latency}
    IN /\ \A p, q \in Routed(pool) : p = q
       /\ (\A p \in Providers : catalog[p].rank >= 0) =>
            /\ fits # {} => Routed(pool) # {}
            /\ guarded # {} /\ policy.budgetMode = "soft" /\ policy.latencyMode = "soft"
                 => Routed(pool) # {}

\* Taking a provider that was not chosen off the list does not change the
\* choice.  Failover relies on it: what a request is given after a failure
\* is what it would have been given had the failed provider never been listed.
FailoverIsStable ==
  \A pool \in SUBSET Providers : \A p \in Routed(pool) : \A q \in pool \ {p} :
    p \in Routed(pool \ {q})

\* A request that is willing to pay more is never turned away for it, unless
\* the policy gives up budgets but not latencies: then a provider that became
\* affordable can be one that is too slow.
PayingMoreHelps ==
  /\ policy.budgetMode = "hard" \/ policy.latencyMode = "soft"
  /\ \A p \in Providers : catalog[p].rank >= 0
  =>
    \A pool \in SUBSET Providers : \A extra \in 0..2 :
      Routed(pool) # {} =>
        SelectProvider(catalog, [request EXCEPT !.budget = @ + extra], policy, {}, pool) # {}

=============================================================================
