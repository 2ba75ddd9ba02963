---------------------------- MODULE MCFairQueue -----------------------------
(* Small instances of FairQueue.                                             *)
EXTENDS FairQueue

Kind(class, score) == [class |-> class, score |-> score]

\* The baseline of contracts/policy-examples.json: urgency plus scenario.
MarketingHigh    == Kind("high", 60)
EscalationNormal == Kind("normal", 55)
IncidentLow      == Kind("low", 50)

CloseKinds == {MarketingHigh, EscalationNormal, IncidentLow}

\* DEFAULT_QUEUE_POLICY, and one that forces routine jobs late and has no bonus.
Baseline == [interval |-> 5, points |-> 1, cap |-> 30, threshold |-> 3, wait |-> 20]
Patient  == [Baseline EXCEPT !.points = 0, !.threshold = 2, !.wait = 150]

Tuned == {[Baseline EXCEPT !.threshold = 1], Patient}

=============================================================================
