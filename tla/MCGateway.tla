------------------------------ MODULE MCGateway ------------------------------
(* Small instances of Gateway.                                               *)
EXTENDS Gateway, TLC

CONSTANTS outside, house, r1, r2

\* Two providers: an external one, cheaper and probed by the health checker,
\* and an internal one that is taken for what must not leave the house.
MCCatalog ==
  (outside :> [at |-> 1, privacy |-> "external", capabilities |-> {"tools"}, kind |-> "mock",
               fixed |-> 1, perOutput |-> 0, latency |-> 1, rank |-> 0]) @@
  (house :> [at |-> 2, privacy |-> "internal", capabilities |-> {}, kind |-> "real",
             fixed |-> 2, perOutput |-> 0, latency |-> 1, rank |-> 1])

MCPolicy == [assumedOutput |-> 1, tolerance |-> 50, budgetMode |-> "soft", latencyMode |-> "soft",
             highQuality |-> "prefer_real"]

Plain   == [privacy |-> "normal", needs |-> {}, quality |-> "cheap", budget |-> 2, latency |-> 1]
Private == [Plain EXCEPT !.privacy = "high"]

Ask(want, unfit) ==
  [want |-> want, policy |-> MCPolicy, forced |-> outside, unfit |-> unfit]

\* One anybody can serve, one that must stay inside, and one of these that the
\* house cannot serve.
AnyAsk == {Ask(Plain, {}), Ask(Private, {house}), Ask(Private, {})}

Mixed  == (r1 :> AnyAsk) @@ (r2 :> {Ask(Plain, {}), Ask(Private, {})})
Simple == [r \in Requests |-> {Ask(Plain, {})}]

=============================================================================
