------------------------------ MODULE FairQueue ------------------------------
(***************************************************************************)
(* Who runs next: the choice claim_next_job of automation/app/redis_store.py *)
(* makes among the pending jobs, with its scores, its bonus for waiting    *)
(* and its streak counter.  JobQueue has the commands of a claim and leaves *)
(* the choice open; here a claim is one step, which is what it amounts to   *)
(* while one worker process claims: meanwhile jobs are only added.         *)
(*                                                                         *)
(* A job is a place in the queue, taken again by another job once the one  *)
(* in it has ended.                                                        *)
(***************************************************************************)
EXTENDS Integers

CONSTANTS
  Jobs,
  Kinds,         \* what _compile_preview gives a job: its class and score
  Policies,      \* the queue parameters administrators publish
  Quantum,       \* seconds that pass at once
  Horizon,       \* longer waits, in seconds, make no difference any more
  MaxStreak      \* nor do longer streaks

Classes    == {"critical", "high", "normal", "low"}
Urgent(k)  == k.class \in {"critical", "high"}

QueuePolicy ==
  [interval : Nat \ {0}, points : Nat, cap : Nat, threshold : Nat \ {0}, wait : Nat \ {0}]

\* waiting_bonus
WaitingBonus(waited, p) ==
  LET points == p.points * (waited \div p.interval)
  IN  IF points < p.cap THEN points ELSE p.cap

ASSUME FairQueueAssumption ==
  /\ Kinds \subseteq [class : Classes, score : Nat]
  /\ Kinds # {}
  /\ Policies \subseteq QueuePolicy
  /\ Quantum \in Nat \ {0}
  /\ Horizon \in Nat
  /\ MaxStreak \in Nat
  /\ \A p \in Policies :
       /\ p.threshold <= MaxStreak
       /\ p.wait <= Horizon
       /\ p.points = 0 \/ WaitingBonus(Horizon, p) = p.cap

VARIABLES
  status,    \* of each job: "none", "queued" or "running"
  kind,      \* its class and score
  waited,    \* the seconds since its created_at, whatever happened to it since
  before,    \* the pairs of unfinished jobs of which the first is the older
  streak,    \* automation:queue:streak
  policy     \* what the policy runtime of the worker hands out

vars == <<status, kind, waited, before, streak, policy>>

TypeOK ==
  /\ status \in [Jobs -> {"none", "queued", "running"}]
  /\ kind \in [Jobs -> Kinds]
  /\ waited \in [Jobs -> 0..Horizon]
  /\ before \in SUBSET (Jobs \X Jobs)
  /\ streak \in 0..MaxStreak
  /\ policy \in Policies

\* Stands in a place nobody is in.
NoMatter == CHOOSE k \in Kinds : TRUE

Init ==
  /\ status = [j \in Jobs |-> "none"]
  /\ kind = [j \in Jobs |-> NoMatter]
  /\ waited = [j \in Jobs |-> 0]
  /\ before = {}
  /\ streak = 0
  /\ policy \in Policies

Unfinished == {j \in Jobs : status[j] # "none"}
Pending    == {j \in Jobs : status[j] = "queued"}

-----------------------------------------------------------------------------
(* The choice *)

Effective(j) == kind[j].score + WaitingBonus(waited[j], policy)

\* Relief for the lowest class only.
StarvedLow == {j \in Pending : kind[j].class = "low" /\ waited[j] >= policy.wait}

\* The routine jobs that have waited long enough to be forced.
Starved == {j \in Pending : ~Urgent(kind[j]) /\ waited[j] >= policy.wait}

\* The one that waits longest.
Oldest(S) == {j \in S : \A i \in S : <<i, j>> \notin before}

\* Without the tie break: any of the highest.
BestOfAny(S) == {j \in S : \A i \in S : Effective(i) <= Effective(j)}

\* The highest effective priority, first come first served among equals.
Best(S) ==
  LET highest == {j \in S : \A i \in S : Effective(i) <= Effective(j)}
  IN  Oldest(highest)

Chosen ==
  IF streak >= policy.threshold /\ Starved # {}
  THEN Oldest(Starved)
  ELSE Best(Pending)

-----------------------------------------------------------------------------
(* Steps *)

\* A job leaves the records for good.
Gone(j) ==
  /\ status' = [status EXCEPT ![j] = "none"]
  /\ kind' = [kind EXCEPT ![j] = NoMatter]
  /\ waited' = [waited EXCEPT ![j] = 0]
  /\ before' = {q \in before : q[1] # j /\ q[2] # j}

\* enqueue, of a job whose preview was given this class and score
Enqueue(j, k) ==
  /\ status[j] = "none"
  /\ status' = [status EXCEPT ![j] = "queued"]
  /\ kind' = [kind EXCEPT ![j] = k]
  /\ before' = before \cup (Unfinished \X {j})
  /\ UNCHANGED <<waited, streak, policy>>

\* A streak that is set and not incremented.
ClaimUncounted(j) ==
  /\ j \in Chosen
  /\ status' = [status EXCEPT ![j] = "running"]
  /\ streak' = IF Urgent(kind[j]) THEN 1 ELSE 0
  /\ UNCHANGED <<kind, waited, before, policy>>

\* claim_next_job, whenever the worker has a free thread
Claim(j) ==
  /\ j \in Chosen
  /\ status' = [status EXCEPT ![j] = "running"]
  /\ streak' = IF Urgent(kind[j])
               THEN IF streak < MaxStreak THEN streak + 1 ELSE MaxStreak
               ELSE 0
  /\ UNCHANGED <<kind, waited, before, policy>>

\* The worker dies after the SREM, before it has counted the claim: nobody
\* finds the job again.
ClaimLost(j) ==
  /\ j \in Chosen
  /\ Gone(j)
  /\ UNCHANGED <<streak, policy>>

\* complete_job or fail_job
Finish(j) ==
  /\ status[j] = "running"
  /\ Gone(j)
  /\ UNCHANGED <<streak, policy>>

\* requeue_job: the record keeps its created_at
Requeue(j) ==
  /\ status[j] = "running"
  /\ status' = [status EXCEPT ![j] = "queued"]
  /\ UNCHANGED <<kind, waited, before, streak, policy>>

\* Time passes.
Tick ==
  /\ waited' = [j \in Jobs |->
       IF status[j] = "none" THEN waited[j]
       ELSE IF waited[j] + Quantum < Horizon THEN waited[j] + Quantum ELSE Horizon]
  /\ UNCHANGED <<status, kind, before, streak, policy>>

\* The policy runtime has installed another policy.
Reload(p) ==
  /\ policy' = p
  /\ UNCHANGED <<status, kind, waited, before, streak>>

Next ==
  \/ \E j \in Jobs :
       \/ \E k \in Kinds : Enqueue(j, k)
       \/ Claim(j) \/ ClaimLost(j) \/ Finish(j) \/ Requeue(j)
  \/ \E p \in Policies : Reload(p)
  \/ Tick

Spec == Init /\ [][Next]_vars

\* The main loop polls for ever, clocks run, a thread that executes a job ends
\* and is free again, and a job is requeued only so often: MAX_RETRIES times
\* by a worker that lives.  Nothing makes users submit, workers die or
\* policies change.
FairSpec ==
  /\ Spec
  /\ WF_vars(\E j \in Jobs : Claim(j))
  /\ WF_vars(Tick)
  /\ \A j \in Jobs : SF_vars(Finish(j))

-----------------------------------------------------------------------------
(* Properties *)

\* Of two waiting jobs of one class and score, the older is claimed first,
\* across requeues, reloads of the policy and claims that are forced.
FirstComeFirstServed ==
  [][\A i, j \in Jobs :
       /\ {i, j} \subseteq Pending
       /\ kind[i] = kind[j]
       /\ <<i, j>> \in before
       => status'[j] = "queued"]_vars

\* Urgent jobs do not keep the others out: while routine jobs starve again and
\* again, routine jobs are claimed again and again, whichever they are.
RoutineClaimed == \E j \in Jobs :
  ~Urgent(kind[j]) /\ status[j] = "queued" /\ status'[j] # "queued"

UrgencyYields == []<>(Starved # {}) => []<><<RoutineClaimed>>_vars

\* Among the routine jobs, the ones with the highest score are all claimed.
TopScored(j) ==
  ~Urgent(kind[j]) /\ \A k \in Kinds : Urgent(k) \/ k.score <= kind[j].score

TopRoutineServed == \A j \in Jobs :
  (j \in Pending /\ TopScored(j)) ~> j \notin Pending

=============================================================================
