------------------------------- MODULE Router -------------------------------
(***************************************************************************)
(* gateway/app/router.py, select_provider: which provider a request goes   *)
(* to.  A catalog gives every provider its entry of providers.yaml:        *)
(*                                                                         *)
(*   at            its place in the list (min() keeps the first of equals) *)
(*   privacy       "internal" or "external"                                *)
(*   capabilities  the ones declared true                                  *)
(*   kind          "real" or "mock"                                        *)
(*   fixed         price of the input tokens of the request                *)
(*   perOutput     price of an output token                                *)
(*   latency       its typical latency                                     *)
(*   rank          its quality_rank, negative when it is not a valid one   *)
(*                                                                         *)
(* A selection returns at most one provider, so it is modelled as a set:   *)
(* the empty set stands for the RuntimeError that becomes a 503.           *)
(***************************************************************************)
EXTENDS Integers

\* estimate_cost, with the output size the policy assumes.
Est(cat, policy, p) == cat[p].fixed + policy.assumedOutput * cat[p].perOutput

\* Health and capabilities only.
GuardedExceptPrivacy(cat, req, down, pool) ==
  {p \in pool : req.needs \subseteq cat[p].capabilities /\ p \notin down}

\* The filters no policy can relax: privacy, capabilities, health.
Guarded(cat, req, down, pool) ==
  {p \in pool : /\ req.privacy = "high" => cat[p].privacy = "internal"
                /\ req.needs \subseteq cat[p].capabilities
                /\ p \notin down}

\* A soft filter that gives nothing up.
RelaxedNever(passing, pool, mode) == passing

\* A soft filter that wants a choice of two.
RelaxedForChoice(passing, pool, mode) ==
  IF (\E p, q \in passing : p # q) \/ mode = "hard" THEN passing ELSE pool

\* A filter that must hold in hard mode and is given up in soft mode when
\* nothing passes it.
Relaxed(passing, pool, mode) ==
  IF passing # {} \/ mode = "hard" THEN passing ELSE pool

\* A budget that must be met exactly.
AffordableExactly(cat, req, policy, pool) == {p \in pool : Est(cat, policy, p) = req.budget}

Affordable(cat, req, policy, pool) == {p \in pool : Est(cat, policy, p) <= req.budget}

Priced(cat, req, policy, pool) ==
  Relaxed(Affordable(cat, req, policy, pool), pool, policy.budgetMode)

\* A soft latency that is given up although some provider is in time.
InTimeWhenAllAre(cat, req, policy, pool) ==
  IF (\A p \in pool : cat[p].latency <= req.latency) \/ policy.latencyMode = "soft" THEN pool
  ELSE {p \in pool : cat[p].latency <= req.latency}

InTime(cat, req, policy, pool) ==
  Relaxed({p \in pool : cat[p].latency <= req.latency}, pool, policy.latencyMode)

Eligible(cat, req, policy, down, pool) ==
  InTime(cat, req, policy, Priced(cat, req, policy, Guarded(cat, req, down, pool)))

\* min(pool, key=est): the first of the cheapest.
Cheapest(cat, policy, pool) ==
  {p \in pool : \A q \in pool :
     \/ Est(cat, policy, p) < Est(cat, policy, q)
     \/ Est(cat, policy, p) = Est(cat, policy, q) /\ cat[p].at <= cat[q].at}

Reals(cat, pool) == {p \in pool : cat[p].kind = "real"}

TopReals(cat, pool) ==
  {p \in Reals(cat, pool) : \A q \in Reals(cat, pool) : cat[q].rank <= cat[p].rank}

\* quality = high.  An invalid rank of any real candidate is an error.
HighQuality(cat, policy, pool) ==
  IF policy.highQuality = "lowest_cost" \/ Reals(cat, pool) = {}
  THEN Cheapest(cat, policy, pool)
  ELSE IF \E p \in Reals(cat, pool) : cat[p].rank < 0 THEN {}
       ELSE Cheapest(cat, policy, TopReals(cat, pool))

\* quality = balanced: the cheapest real provider, when its price is within the
\* tolerance (in percent) of the cheapest one, that is of every candidate's.
Balanced(cat, policy, pool) ==
  LET cheapestReal == Cheapest(cat, policy, Reals(cat, pool))
      WithinTolerance(r) == \A c \in pool :
        100 * Est(cat, policy, r) <= Est(cat, policy, c) * (100 + policy.tolerance)
  IN IF \E r \in cheapestReal : WithinTolerance(r)
     THEN cheapestReal
     ELSE Cheapest(cat, policy, pool)

Preferred(cat, req, policy, pool) ==
  CASE req.quality = "high"     -> HighQuality(cat, policy, pool)
    [] req.quality = "balanced" -> Balanced(cat, policy, pool)
    [] OTHER                    -> Cheapest(cat, policy, pool)

SelectProvider(cat, req, policy, down, pool) ==
  Preferred(cat, req, policy, Eligible(cat, req, policy, down, pool))

=============================================================================
