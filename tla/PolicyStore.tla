---------------------------- MODULE PolicyStore ----------------------------
(***************************************************************************)
(* Publishing and rolling back the organisation's policy: PolicyManager    *)
(* (automation/app/policy_manager.py) over the ConfigMap repository        *)
(* (automation/app/kubernetes_policy_repository.py), as the API's policy   *)
(* router drives it (automation/app/main.py).                              *)
(*                                                                         *)
(* The handlers are plain functions that FastAPI runs on its threadpool,   *)
(* and PolicyManager has no lock: requests interleave at every call that   *)
(* leaves the process (GET, PUT, Redis SET).  Two API processes exist side *)
(* by side while a Deployment of one replica is rolled.  A PUT whose       *)
(* answer is lost may have been carried out, may be carried out later, or  *)
(* never.                                                                  *)
(*                                                                         *)
(* A policy is a model value.  The audit fields of a record (time, actor,  *)
(* note) are abstracted to the request that made it, which distinguishes   *)
(* records as created_at does.  Every request is made once.                *)
(***************************************************************************)
EXTENDS Integers, Sequences, FiniteSets

CONSTANTS
  Requests,     \* POST .../publish and .../rollback requests
  Managers,     \* API processes, each with its PolicyManager
  Policies,     \* contents of a policy
  Baseline,     \* the policy the ConfigMap is created with
  NoRequest,    \* the author of the baseline
  NoManager,    \* "not routed yet"
  MaxVersions,  \* MAX_VERSIONS
  Concurrency,  \* how many requests are handled at a time (bounds the model)
  FaultKinds,   \* the kinds of fault injected
  MaxFaults     \* how many of them (bounds the model)

AllFaults == {"get", "put", "cache", "crash"}

ASSUME StoreAssumption ==
  /\ Baseline \in Policies
  /\ NoRequest \notin Requests
  /\ NoManager \notin Managers
  /\ MaxVersions \in Nat \ {0}
  /\ Concurrency \in Nat
  /\ FaultKinds \subseteq AllFaults
  /\ MaxFaults \in Nat

VARIABLES
  \* the ConfigMap
  doc,      \* the PolicyStoreDocument: active_version and versions by number
  rev,      \* resourceVersion
  late,     \* requests whose PUT is still on its way although they gave up on it
  log,      \* every entry ever committed, by version (history variable)
  \* the API processes
  up,       \* whether the process serves
  active,   \* _active
  ready,    \* _ready
  cache,    \* polygate:policy:active in Redis
  \* the requests
  rpc,      \* the next call of the request's thread
  home,     \* the process that handles it
  req,      \* what it asks for
  draft,    \* the policy to publish
  plan,     \* what it read, the revision it expects, the document it writes
  target,   \* the record to activate and the answer to give then
  answer,   \* the answer it was given
  faults

storeVars == <<doc, rev, late, log>>
processVars == <<up, active, ready, cache>>
requestVars == <<rpc, home, req, draft, plan, target, answer>>
vars == <<doc, rev, late, log, up, active, ready, cache,
          rpc, home, req, draft, plan, target, answer, faults>>

-----------------------------------------------------------------------------
(* Documents *)

\* base 0: the request has not been made; from 0: it is a publish.
NoAsk == [base |-> 0, policy |-> Baseline, from |-> 0]

Record(policy, from, by) ==
  [status |-> "active", policy |-> policy, from |-> from, by |-> by]

\* The document the ConfigMap is installed with.  The shipped one has an
\* archived version as well and starts higher; versions are numbered from the
\* active one here, and the archived one adds nothing to what a first publish
\* archives.
FirstDocument ==
  [active |-> 1, versions |-> [v \in {1} |-> Record(Baseline, 0, NoRequest)]]

Highest(S) == CHOOSE n \in S : \A k \in S : k <= n

\* Serves the record in place of its policy.
ActiveRecord(d) == [version |-> d.active, policy |-> d.versions[d.active]]

\* What is served of a document: version number (and so ETag) and policy.
ActiveOf(d) == [version |-> d.active, policy |-> d.versions[d.active].policy]

\* Keeps one version too many.
DroppedLate(versions) ==
  LET archived == {v \in DOMAIN versions : versions[v].status = "archived"}
      excess == Cardinality(DOMAIN versions) - MaxVersions
  IN  {v \in archived : Cardinality({u \in archived : u < v}) < excess - 1}

\* Drops the newest archived versions.
DroppedNewest(versions) ==
  LET archived == {v \in DOMAIN versions : versions[v].status = "archived"}
      excess == Cardinality(DOMAIN versions) - MaxVersions
  IN  {v \in archived : Cardinality({u \in archived : u > v}) < excess}

\* The oldest archived versions, as many as the document is too long.
Dropped(versions) ==
  LET archived == {v \in DOMAIN versions : versions[v].status = "archived"}
      excess == Cardinality(DOMAIN versions) - MaxVersions
  IN  {v \in archived : Cardinality({u \in archived : u < v}) < excess}

\* The document _commit writes: the active record archived, the new one added.
NewDocument(d, record) ==
  LET n == Highest(DOMAIN d.versions) + 1
      all == [v \in DOMAIN d.versions \cup {n} |->
                IF v = n THEN record ELSE [d.versions[v] EXCEPT !.status = "archived"]]
  IN  [active |-> n,
       versions |-> [v \in DOMAIN all \ Dropped(all) |-> all[v]]]

Entry(r) == [policy |-> draft[r], from |-> req[r].from, by |-> r]
Authors == {log[n].by : n \in 1..Len(log)}

NoPlan == [old |-> FirstDocument, expect |-> 0, new |-> FirstDocument]
NoTarget == [record |-> ActiveOf(FirstDocument), verdict |-> "none"]

InFlight == {r \in Requests : rpc[r] \notin {"new", "done"}}

-----------------------------------------------------------------------------
Init ==
  /\ doc = FirstDocument
  /\ rev = 1
  /\ late = {}
  /\ log = << [policy |-> Baseline, from |-> 0, by |-> NoRequest] >>
  /\ up = [m \in Managers |-> TRUE]
  /\ active = [m \in Managers |-> ActiveOf(FirstDocument)]
  /\ ready = [m \in Managers |-> TRUE]
  /\ cache = ActiveOf(FirstDocument)
  /\ rpc = [r \in Requests |-> "new"]
  /\ home = [r \in Requests |-> NoManager]
  /\ req = [r \in Requests |-> NoAsk]
  /\ draft = [r \in Requests |-> Baseline]
  /\ plan = [r \in Requests |-> NoPlan]
  /\ target = [r \in Requests |-> NoTarget]
  /\ answer = [r \in Requests |-> "none"]
  /\ faults = 0

\* One fault of kind k, while there are any left.
Fault(k) ==
  /\ k \in FaultKinds
  /\ faults < MaxFaults
  /\ faults' = faults + 1

Go(r, label) == rpc' = [rpc EXCEPT ![r] = label]

Answered(r, a) ==
  /\ Go(r, "done")
  /\ answer' = [answer EXCEPT ![r] = a]

\* A PUT without the expected resourceVersion.
BlindWrite(r) ==
  /\ doc' = plan[r].new
  /\ rev' = rev + 1
  /\ log' = Append(log, Entry(r))

\* A compare-and-swap by resourceVersion reaches the API server.
Write(r) ==
  IF plan[r].expect = rev
  THEN /\ doc' = plan[r].new
       /\ rev' = rev + 1
       /\ log' = Append(log, Entry(r))
  ELSE UNCHANGED <<doc, rev, log>>

-----------------------------------------------------------------------------
(* The handlers of POST /v1/admin/policies/publish and .../{version}/rollback *)

\* A client names a version it has seen as the base of its change.
Submit(r, m, base) ==
  /\ rpc[r] = "new"
  /\ up[m]
  /\ Cardinality(InFlight) < Concurrency
  /\ base \in 1..doc.active
  /\ home' = [home EXCEPT ![r] = m]
  /\ UNCHANGED <<storeVars, processVars, plan, target, answer, faults>>

SubmitPublish(r, m, base, policy) ==
  /\ Submit(r, m, base)
  /\ req' = [req EXCEPT ![r] = [base |-> base, policy |-> policy, from |-> 0]]
  /\ draft' = [draft EXCEPT ![r] = policy]
  /\ Go(r, "load")

SubmitRollback(r, m, base, from) ==
  /\ Submit(r, m, base)
  /\ from \in 1..doc.active
  /\ req' = [req EXCEPT ![r] = [base |-> base, policy |-> Baseline, from |-> from]]
  /\ Go(r, "find")
  /\ UNCHANGED draft

\* rollback: the first load looks the target version up.
FindTarget(r) ==
  /\ rpc[r] = "find"
  /\ req[r].from \in DOMAIN doc.versions
  /\ draft' = [draft EXCEPT ![r] = doc.versions[req[r].from].policy]
  /\ Go(r, "load")
  /\ UNCHANGED <<storeVars, processVars, home, req, plan, target, answer, faults>>

TargetMissing(r) ==
  /\ rpc[r] = "find"
  /\ req[r].from \notin DOMAIN doc.versions
  /\ Answered(r, "not_found")
  /\ UNCHANGED <<storeVars, processVars, home, req, draft, plan, target, faults>>

\* _commit: load, check the base, build the new document.
LoadCurrent(r) ==
  /\ rpc[r] = "load"
  /\ req[r].base = doc.active
  /\ plan' = [plan EXCEPT ![r] =
       [old |-> doc, expect |-> rev,
        new |-> NewDocument(doc, Record(draft[r], req[r].from, r))]]
  /\ Go(r, "put")
  /\ UNCHANGED <<storeVars, processVars, home, req, draft, target, answer, faults>>

LoadStale(r) ==
  /\ rpc[r] = "load"
  /\ req[r].base # doc.active
  /\ Answered(r, "conflict")
  /\ UNCHANGED <<storeVars, processVars, home, req, draft, plan, target, faults>>

\* RepositoryUnavailable from a load that precedes the write.
LoadFails(r) ==
  /\ rpc[r] \in {"find", "load"}
  /\ Fault("get")
  /\ Answered(r, "unavailable")
  /\ UNCHANGED <<storeVars, processVars, home, req, draft, plan, target>>

\* The 409 of the repository is not looked at.
PutUnchecked(r) ==
  /\ rpc[r] = "put"
  /\ Write(r)
  /\ target' = [target EXCEPT ![r] =
                  [record |-> ActiveOf(plan[r].new), verdict |-> "published"]]
  /\ Go(r, "switch")
  /\ UNCHANGED <<late, processVars, home, req, draft, plan, answer, faults>>

\* compare_and_swap, answered: carried out, or refused with a 409.
PutAnswered(r) ==
  /\ rpc[r] = "put"
  /\ Write(r)
  /\ IF plan[r].expect = rev
     THEN /\ target' = [target EXCEPT ![r] =
                         [record |-> ActiveOf(plan[r].new), verdict |-> "published"]]
          /\ Go(r, "switch")
          /\ UNCHANGED answer
     ELSE /\ Answered(r, "conflict")
          /\ UNCHANGED target
  /\ UNCHANGED <<late, processVars, home, req, draft, plan, faults>>

\* Any failure of the write counts as a write that was not made.
PutFails(r) ==
  /\ rpc[r] = "put"
  /\ Fault("put")
  /\ late' = late \cup {r}
  /\ Answered(r, "unavailable")
  /\ UNCHANGED <<doc, rev, log, processVars, home, req, draft, plan, target>>

\* compare_and_swap raises RepositoryUnavailable: time-out, transport error,
\* 5xx, unreadable answer.
PutUnknown(r) ==
  /\ rpc[r] = "put"
  /\ Fault("put")
  /\ late' = late \cup {r}
  /\ Go(r, "reconcile")
  /\ UNCHANGED <<doc, rev, log, processVars, home, req, draft, plan, target, answer>>

\* The API server gets to the PUT nobody waits for any more, or never will.
LateArrives(r) ==
  /\ r \in late
  /\ late' = late \ {r}
  /\ Write(r)
  /\ UNCHANGED <<processVars, requestVars, faults>>

LateVanishes(r) ==
  /\ r \in late
  /\ late' = late \ {r}
  /\ UNCHANGED <<doc, rev, log, processVars, requestVars, faults>>

-----------------------------------------------------------------------------
(* Reconciliation after an unknown write: load again, at once, and compare. *)
(* The write may still be on its way.                                       *)

\* Stays ready with an outcome it does not know.
ReconcileFailsReady(r) ==
  /\ rpc[r] = "reconcile"
  /\ Fault("get")
  /\ Answered(r, "unknown")
  /\ UNCHANGED <<storeVars, processVars, home, req, draft, plan, target>>

ReconcileFails(r) ==
  /\ rpc[r] = "reconcile"
  /\ Fault("get")
  /\ ready' = [ready EXCEPT ![home[r]] = FALSE]
  /\ Answered(r, "unknown")
  /\ UNCHANGED <<storeVars, up, active, cache, home, req, draft, plan, target>>

\* Takes the failed call for a failed write, without comparing.
ReconcileUncompared(r) ==
  /\ rpc[r] = "reconcile"
  /\ ready' = [ready EXCEPT ![home[r]] = TRUE]
  /\ Answered(r, "not_committed")
  /\ UNCHANGED <<storeVars, up, active, cache, home, req, draft, plan, target, faults>>

ReconcileNotCommitted(r) ==
  /\ rpc[r] = "reconcile"
  /\ rev = plan[r].expect
  /\ doc = plan[r].old
  /\ ready' = [ready EXCEPT ![home[r]] = TRUE]
  /\ Answered(r, "not_committed")
  /\ UNCHANGED <<storeVars, up, active, cache, home, req, draft, plan, target, faults>>

\* The document is this request's, or someone else's: activate it either way.
ReconcileActivates(r) ==
  /\ rpc[r] = "reconcile"
  /\ ~ (rev = plan[r].expect /\ doc = plan[r].old)
  /\ target' = [target EXCEPT ![r] =
       [record |-> ActiveOf(doc),
        verdict |-> IF doc = plan[r].new THEN "published" ELSE "superseded"]]
  /\ ready' = [ready EXCEPT ![home[r]] = TRUE]
  /\ Go(r, "switch")
  /\ UNCHANGED <<storeVars, up, active, cache, home, req, draft, plan, answer, faults>>

-----------------------------------------------------------------------------
(* _activate_and_cache *)

Switch(r) ==
  /\ rpc[r] = "switch"
  /\ active' = [active EXCEPT ![home[r]] = target[r].record]
  /\ ready' = [ready EXCEPT ![home[r]] = @ \/ target[r].verdict = "published"]
  /\ Go(r, "cache")
  /\ UNCHANGED <<storeVars, up, cache, home, req, draft, plan, target, answer, faults>>

CachePut(r) ==
  /\ rpc[r] = "cache"
  /\ cache' = target[r].record
  /\ Answered(r, target[r].verdict)
  /\ UNCHANGED <<storeVars, up, active, ready, home, req, draft, plan, target, faults>>

\* "policy cache degraded": the answer is the same but for a warning.
CacheFails(r) ==
  /\ rpc[r] = "cache"
  /\ Fault("cache")
  /\ Answered(r, target[r].verdict)
  /\ UNCHANGED <<storeVars, processVars, home, req, draft, plan, target>>

-----------------------------------------------------------------------------
(* Processes *)

\* The process dies with its requests; a PUT it had sent may still arrive.
Crash(m) ==
  /\ up[m]
  /\ Fault("crash")
  /\ up' = [up EXCEPT ![m] = FALSE]
  /\ LET mine == {r \in InFlight : home[r] = m}
     IN  /\ \E sent \in SUBSET {r \in mine : rpc[r] = "put"} : late' = late \cup sent
         /\ rpc' = [r \in Requests |-> IF r \in mine THEN "done" ELSE rpc[r]]
         /\ answer' = [r \in Requests |-> IF r \in mine THEN "lost" ELSE answer[r]]
  /\ UNCHANGED <<doc, rev, log, active, ready, cache, home, req, draft, plan, target>>

\* Starts with what Redis remembers.
StartFromCache(m) ==
  /\ ~up[m]
  /\ up' = [up EXCEPT ![m] = TRUE]
  /\ active' = [active EXCEPT ![m] = cache]
  /\ ready' = [ready EXCEPT ![m] = TRUE]
  /\ UNCHANGED <<storeVars, cache, requestVars, faults>>

\* PolicyManager.__init__ loads; a load that fails ends the process, which
\* Kubernetes starts again.
Start(m) ==
  /\ ~up[m]
  /\ up' = [up EXCEPT ![m] = TRUE]
  /\ active' = [active EXCEPT ![m] = ActiveOf(doc)]
  /\ ready' = [ready EXCEPT ![m] = TRUE]
  /\ UNCHANGED <<storeVars, cache, requestVars, faults>>

-----------------------------------------------------------------------------
Handle(r) ==
  \/ FindTarget(r) \/ TargetMissing(r) \/ LoadCurrent(r) \/ LoadStale(r) \/ LoadFails(r)
  \/ PutAnswered(r) \/ PutUnknown(r) \/ LateArrives(r) \/ LateVanishes(r)
  \/ ReconcileFails(r) \/ ReconcileNotCommitted(r) \/ ReconcileActivates(r)
  \/ Switch(r) \/ CachePut(r) \/ CacheFails(r)

Next ==
  \/ \E r \in Requests, m \in Managers, base \in 1..Len(log) :
       \/ \E p \in Policies : SubmitPublish(r, m, base, p)
       \/ \E from \in 1..Len(log) : SubmitRollback(r, m, base, from)
  \/ \E r \in Requests : Handle(r)
  \/ \E m \in Managers : Crash(m) \/ Start(m)

Spec == Init /\ [][Next]_vars

-----------------------------------------------------------------------------
(* Types *)

Records == [status : {"active", "archived"}, policy : Policies, from : Nat,
            by : Requests \cup {NoRequest}]
Documents == [active : Nat, versions : UNION {[V -> Records] : V \in SUBSET Nat}]
Served == [version : Nat, policy : Policies]
Labels == {"new", "find", "load", "put", "reconcile", "switch", "cache", "done"}
Verdicts == {"none", "published", "superseded"}
Answers == Verdicts \cup
  {"not_found", "conflict", "unavailable", "not_committed", "unknown", "lost"}

\* TLC cannot enumerate Documents, so membership is spelt out.
IsDocument(d) ==
  /\ DOMAIN d = {"active", "versions"}
  /\ d.active \in Nat
  /\ \A v \in DOMAIN d.versions : v \in Nat /\ d.versions[v] \in Records

\* The kinds of value every variable holds in automation/app/policy_manager.py.
TypeOK ==
  /\ IsDocument(doc)
  /\ rev \in Nat
  /\ late \subseteq Requests
  /\ \A n \in 1..Len(log) :
       log[n] \in [policy : Policies, from : Nat, by : Requests \cup {NoRequest}]
  /\ up \in [Managers -> BOOLEAN]
  /\ active \in [Managers -> Served]
  /\ ready \in [Managers -> BOOLEAN]
  /\ cache \in Served
  /\ rpc \in [Requests -> Labels]
  /\ home \in [Requests -> Managers \cup {NoManager}]
  /\ req \in [Requests -> [base : Nat, policy : Policies, from : Nat]]
  /\ draft \in [Requests -> Policies]
  /\ \A r \in Requests :
       /\ plan[r].expect \in Nat
       /\ IsDocument(plan[r].old)
       /\ IsDocument(plan[r].new)
       /\ target[r] \in [record : Served, verdict : Verdicts]
  /\ answer \in [Requests -> Answers]
  /\ faults \in 0..MaxFaults

-----------------------------------------------------------------------------
(* Safety *)

\* PolicyStoreDocument._integrity and max_length (policy_models.py:144, 153-168).
Valid(d) ==
  /\ d.active \in DOMAIN d.versions
  /\ {v \in DOMAIN d.versions : d.versions[v].status = "active"} = {d.active}
  /\ \A v \in DOMAIN d.versions : v <= d.active
  /\ Cardinality(DOMAIN d.versions) <= MaxVersions

\* No sequence of publishes, rollbacks, lost writes and restarts leads to a
\* document that the validator would refuse: neither the stored one (every
\* load of it would fail from then on) nor one a request is about to write
\* (_commit, policy_manager.py:280-301).
DocumentIntegrity ==
  /\ Valid(doc)
  /\ \A r \in Requests : rpc[r] = "put" \/ r \in late => Valid(plan[r].new)

\* "Version numbers increase and are never reused; at most 20 are kept, the
\* oldest are dropped" (policy_manager.py:11-12): the stored document holds
\* exactly the latest MaxVersions of all versions ever committed, each as it
\* was committed.
HistoryIsLatest ==
  /\ DOMAIN doc.versions = {v \in 1..Len(log) : v > Len(log) - MaxVersions}
  /\ \A v \in DOMAIN doc.versions :
       /\ doc.versions[v].policy = log[v].policy
       /\ doc.versions[v].from = log[v].from
       /\ doc.versions[v].by = log[v].by

\* A version number, and so the ETag of GET /v1/policies/active (main.py:131)
\* and the policy_version in every cache key of the gateway, identifies one
\* policy, whichever process answers and whatever crashed: what a process or
\* Redis serves is a committed version with the policy committed under it.
ServedWasCommitted ==
  \A s \in {cache} \cup {active[m] : m \in Managers} :
    s.version \in 1..Len(log) /\ log[s.version].policy = s.policy

\* The requests that are refused for good, as the manager tells them
\* (policy_manager.py:237, 262, 311 and the loads that precede the write).
Refused(r) == answer[r] \in {"not_found", "conflict", "unavailable"}

\* A request answered 404, or 409 because its base or revision was stale, has
\* not taken effect and never will, although writes may arrive late.
RefusedIsUnpublished ==
  \A r \in Requests : Refused(r) => r \notin Authors /\ r \notin late

\* Publishes and rollbacks, concurrent, retried over and crashed, implement
\* the versioned register: each takes effect at most once and only on the very
\* version it was based on, a rollback restores exactly its target's policy,
\* nothing is overwritten, and success is answered only for what is committed.
Register == INSTANCE PolicyRegister WITH
  history <- log,
  asked <- req,
  acked <- {r \in Requests : answer[r] = "published"}

ImplementsRegister == Register!Spec

\* To those who poll it, the service is a PolicyFeed: a process only ever moves
\* to a committed version, one that starts to the latest, whatever happens
\* between a write and the switch that follows it (policy_manager.py:341-364).
Feed == INSTANCE PolicyFeed WITH published <- [n \in 1..Len(log) |-> log[n].policy]

ImplementsFeed == Feed!FeedSpec

\* "policy repository write was not committed" and "a different policy state was
\* committed concurrently" (policy_manager.py:329, 334), however many requests
\* race and whatever arrives late.  Who is told the first is no author then,
\* and becomes one only if its own PUT was still on its way.  Who is told the
\* second has written nothing and never will, or others have published after it.
DenialIsTrue(r) ==
  /\ answer'[r] = "not_committed" /\ r \in Authors' =>
       answer[r] = "not_committed" /\ (r \in Authors \/ r \in late)
  /\ answer'[r] = "superseded" /\ r \in Authors' =>
       r \in Authors /\ log'[Len(log')].by # r

DenialsAreTrue == [][\A r \in Requests : DenialIsTrue(r)]_vars

-----------------------------------------------------------------------------
(* What requests handled one at a time may rely on *)

\* "Write the persistent state first, then switch _active, or the two become
\* inconsistent" (policy_manager.py:8-9): between requests, a process that
\* calls itself ready serves the stored version.
ActiveInSync ==
  InFlight = {} => \A m \in Managers : up[m] /\ ready[m] => active[m] = ActiveOf(doc)

\* Who wrote the stored version cannot have been told that it is published:
\* its PUT came after its process had looked, or its outcome was reported as
\* unknown.  In the latter case the process is not ready, unless a third
\* failure (a write that is found not to be committed, or a restart before the
\* PUT came) has made it so again.
Unconfirmed(r, m) ==
  \/ answer[r] \in {"not_committed", "lost"}
  \/ answer[r] = "unknown" /\ (ready[m] => faults >= 3)

\* Between requests a process lags behind the store only while the stored
\* version is unconfirmed (policy_manager.py:312-341): what an administrator is
\* told is published is served, whatever failed and whatever arrives late.
LagsOnlyUnconfirmed ==
  InFlight = {} =>
    \A m \in Managers : up[m] /\ active[m] # ActiveOf(doc) =>
      \E r \in Requests : r = log[Len(log)].by /\ Unconfirmed(r, m)

=============================================================================
