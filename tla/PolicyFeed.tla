----------------------------- MODULE PolicyFeed -----------------------------
(***************************************************************************)
(* What the policy service looks like to those who poll it: a list of      *)
(* policies that only grows, version n being the n-th entry, and API       *)
(* processes each of which serves some version.  It may be an old one: a   *)
(* publish takes effect in the store first and in its process afterwards,  *)
(* two publishes may overtake each other between the two, and another      *)
(* process does not hear of it.  PolicyStore implements this module, and   *)
(* PolicyDistribution builds on it.                                        *)
(***************************************************************************)
EXTENDS Naturals, Sequences

CONSTANTS
  Managers,   \* API processes
  Policies,   \* contents of a policy
  Baseline    \* the policy of the first version

ASSUME FeedAssumption == Baseline \in Policies

VARIABLES
  published,  \* the policies committed so far
  up,         \* whether the process serves
  active      \* what it serves

feedVars == <<published, up, active>>

Versions == 1..Len(published)

Version(n) == [version |-> n, policy |-> published[n]]

Latest == Version(Len(published))

FeedInit ==
  /\ published = <<Baseline>>
  /\ up = [m \in Managers |-> TRUE]
  /\ active = [m \in Managers |-> Latest]

Commit(p) ==
  /\ published' = Append(published, p)
  /\ UNCHANGED <<up, active>>

Activate(m) ==
  /\ up[m]
  /\ \E n \in Versions : active' = [active EXCEPT ![m] = Version(n)]
  /\ UNCHANGED <<published, up>>

Crash(m) ==
  /\ up[m]
  /\ up' = [up EXCEPT ![m] = FALSE]
  /\ UNCHANGED <<published, active>>

\* A process that starts serves what the store has.
Start(m) ==
  /\ ~up[m]
  /\ up' = [up EXCEPT ![m] = TRUE]
  /\ active' = [active EXCEPT ![m] = Latest]
  /\ UNCHANGED published

FeedNext ==
  \/ \E p \in Policies : Commit(p)
  \/ \E m \in Managers : Activate(m) \/ Crash(m) \/ Start(m)

FeedSpec == FeedInit /\ [][FeedNext]_feedVars

=============================================================================
