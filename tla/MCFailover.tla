----------------------------- MODULE MCFailover -----------------------------
(* Small provider lists, requests and policies for checking Failover.      *)
EXTENDS Failover, TLC

CONSTANTS p1, p2, p3

MCProviders == {p1, p2, p3}

\* Two prices and a price per output token that overtakes them, two latencies
\* around the target, two ranks.
RealEntries(at, ranks) ==
  {[at |-> at, privacy |-> "external", capabilities |-> {"tools"}, kind |-> "real",
    fixed |-> price[1], perOutput |-> price[2], latency |-> l, rank |-> k] :
      price \in {<<1, 0>>, <<3, 0>>, <<0, 1>>}, l \in {1, 2}, k \in ranks}

MockEntries(at, prices, latencies) ==
  {[at |-> at, privacy |-> "internal", capabilities |-> {}, kind |-> "mock",
    fixed |-> f, perOutput |-> 0, latency |-> l, rank |-> 0] : f \in prices, l \in latencies}

\* An internal real provider without a valid rank: not in the shipped list.
OddEntry(at) ==
  [at |-> at, privacy |-> "internal", capabilities |-> {"tools"}, kind |-> "real",
   fixed |-> 2, perOutput |-> 0, latency |-> 1, rank |-> -1]

MCCatalogs ==
  {(p1 :> a) @@ (p2 :> b) @@ (p3 :> c) :
      a \in RealEntries(1, {1, 2}),
      b \in RealEntries(2, {1}) \cup MockEntries(2, {1, 2}, {1}) \cup {OddEntry(2)},
      c \in MockEntries(3, {2}, {1, 2})}

MCRequests ==
  {[privacy |-> "normal", needs |-> {}, quality |-> q, budget |-> b, latency |-> 1] :
      q \in {"high", "balanced", "cheap"}, b \in {1, 2}}
  \cup {[privacy |-> "high", needs |-> {}, quality |-> "high", budget |-> 1, latency |-> 1],
        [privacy |-> "normal", needs |-> {"tools"}, quality |-> "balanced", budget |-> 2, latency |-> 1]}

MCPolicies ==
  {[assumedOutput |-> 1, tolerance |-> 50, budgetMode |-> b, latencyMode |-> l,
    highQuality |-> "prefer_real"] : b \in {"soft", "hard"}, l \in {"soft", "hard"}}
  \cup {[assumedOutput |-> 3, tolerance |-> 100, budgetMode |-> "soft", latencyMode |-> "soft",
         highQuality |-> "lowest_cost"]}

=============================================================================
