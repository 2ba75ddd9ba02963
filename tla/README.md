# Polygate in TLA+

Polygate is a gateway in front of several LLM providers, with a job queue for
automation requests and a policy service that steers both. This directory holds
TLA+ models of its stateful parts, TLC configurations that check them on small
instances, and theorems that TLAPS checks for every instance. Line numbers refer
to the sources of this repository.

## 1. The system

| part | state it keeps | operations | talks to |
|---|---|---|---|
| job queue store, `automation/app/redis_store.py` | Redis: idempotency keys, job records, execution payloads, pending set, lease set, streak counter, job index | `enqueue`, `claim_next_job`, `complete_job`, `fail_job`, `requeue_job`, `reap_expired_leases`, reads | called by the API's threads and by the worker's threads |
| worker, `automation/app/worker.py` | `_retry_counts`, in-flight futures, shutdown flag | `worker_loop`, `execute_job`, signal handler | job queue, gateway, policy runtime |
| automation API, `automation/app/main.py` | none of its own | preview, submit, list, get, policy router | store, policy manager |
| policy manager and repositories, `policy_manager.py`, `policy_repository.py`, `kubernetes_policy_repository.py` | `_active`, `_ready`; the document and its revision; the cache key | `publish`, `rollback`, `_commit`, `load`, `compare_and_swap` | repository, Redis cache |
| policy runtimes, `policy_runtime.py`, `gateway/app/policy.py` | last known good snapshot, ETag | start-up load, `refresh_once` | mounted file, policy API |
| circuit breaker, `gateway/app/circuit_breaker.py`, `health_checker.py` | per provider: state, failure times, opening time, probe slot | `allow_request`, `record_success`, `record_failure`, `record_cancelled`, health probes | every provider call, the router |
| retries and failover, `gateway/app/retry.py`, `main.py` | attempt counters and a deadline per request | resilient call, resilient stream, failover loop | breaker, adapters |
| router, `gateway/app/router.py` | none | `select_provider` | registry, breaker snapshot, policy |
| response cache and decisions, `cache.py`, `decisions.py` | one shared client, time of the last attempt | `get`, `set`, lazy reconnect | Redis |
| policy editor, `automation/admin/policy-admin.js` | draft and its revision numbers, ETag | edit, validate, preview, publish, roll back | policy API |
| web conversation, `web/src/store`, `web/src/storage` | conversations, requests in flight, local storage | send, retry, regenerate, cancel, delete, persist | gateway |
| monitoring API, mock provider, scripts, manifests | none | | |

What is hard to get right, and to test:

* **Interleaving.** Only single Redis commands and one MULTI/EXEC pipeline are
  atomic, while several API threads, the worker's main thread and its pool
  threads run the operations. FastAPI runs synchronous handlers in a thread pool,
  so policy publishes and breaker updates overlap too.
* **Crashes and restarts.** The worker may be killed between two commands. Its
  lease is the only thing that brings the job back, and its retry counters are
  in memory only.
* **Lost answers.** A policy write may have been carried out although the caller
  saw an error; `_commit` reconciles by reading again.
* **Time.** Leases expire, breakers cool down, retry budgets run out while a
  result is on its way.
* **Stale reads.** Candidates, active policies, ETags, clients and draft
  revisions are read first and acted on later.

What would make each part correct, in a sentence (the sections below say where the code falls short of it): an accepted job is executed by one
thread at a time and ends, whatever crashes; a policy version, once published, is
never changed, and what a process serves is one of them; a snapshot in use is one that
was published; a breaker admits at most one probe and never locks itself; a
failover tries each candidate once and reports every outcome; an editor publishes
only what it validated and previewed; a message shows the result of its latest
request only.

`PROJECT.json` lists the components with their status, and every hazard with the
line where it bites and the properties that cover it.

## 2. Modules

| component | specification | checked through | proofs | section |
|---|---|---|---|---|
| queue store, worker, submit | `JobQueue`: command by command, with faults | `MCJobQueue` | `JobQueueProofs`, `JobQueueOwnership` | 3 |
| policy manager and store | `PolicyStore`; abstract: `PolicyRegister`, `PolicyFeed` | `MCPolicyStore` | `PolicyStoreProofs`, `PolicyFeedProofs` | 4 |
| the choice of a claim | `FairQueue` | `MCFairQueue` | `FairQueueProofs` | 5 |
| policy runtimes, response cache | `PolicyDistribution` on top of `PolicyFeed` | itself | `PolicyDistributionProofs` | 6 |
| router, failover of one request | `Router` (operators only), `Failover` | `MCFailover` | `FailoverProofs` | 7 |
| breakers, retries, chat endpoint | `CircuitBreaker` (operators only), `Gateway` | `MCGateway` | `GatewayProofs` | 8 |

How they fit together: `PolicyStore` implements two abstract specifications. For
administrators it is `PolicyRegister`, for those who poll it `PolicyFeed`, and
`PolicyDistribution` starts from the latter, so that what is shown of the runtimes
rests on what is shown of the store. `Gateway` uses `Router` and `CircuitBreaker` as they
stand and implements `Failover` for every request that leaves the choice to the
router. `JobQueue` leaves open which pending job a claim takes; `FairQueue` is that
choice. The worker calls the gateway as one of its clients; `JobQueue` sees a call
that succeeds or fails.

`PROJECT.json` says for every definition which lines it stands for. Definitions next
to one of the model and in no next-state relation (`ClaimUncounted`, `AdmitsNoProbe`,
`RelaxedForChoice`, ...) are plausible mistakes in that code: with one of them put in
place, the property of the run it belongs to fails.

Modules that are proved about declare no RECURSIVE operator, take their
parameters as CONSTANTS with a named assumption, and have one action per command
or operation.

## 3. JobQueue

`JobQueue.tla` is `redis_store.py` as the submit handlers and the worker drive it.

### State and code

| variable | code |
|---|---|
| `idem[k]` | `automation:idempotency:{key}` |
| `status[j]` | the status in `automation:job:{id}`, `"absent"` while there is no record |
| `payload` | ids with an `automation:job-payload:{id}` key |
| `pending`, `lease[j]` | the pending set; the lease set, `"expired"` once the score is in the past |
| `hpc`, `hkey`, `hjob` | each submit request: its next command, its key, its job id |
| `pc`, `cur` | each worker thread: its next command and the job it is about |
| `todo`, `cands` | the ids a main thread still has to visit, and the candidates a claim has read |
| `retries` | `_retry_counts` of each worker process |
| `origin`, `faults` | history: the key an id was generated for; the number of injected faults |

A process is a submit request, the main thread of a worker or a pool thread, and
every action is one Redis command together with the local code up to the next
one. Submits run `Reserve`, then either `Commit`, or `LookUp`, `ReadExisting` and
possibly `Repoint` and `Commit`. The main thread runs `SkipReap` or `ReapBegin`,
`ReapNext`, `Unlease`, `RequeueAdd` and `ReapEnd`; then `Sleep`, or `ClaimBegin`,
`ClaimRead`, `ClaimDrop`, `ClaimNone`, `ClaimTake`, `ClaimMark`, `ClaimLease` and
`Launch`. A pool thread runs `Load`, `Call` and then the commands of
`complete_job`, `fail_job` or `requeue_job` (`SaveResult`, `RequeueSave`,
`Unlease`, `ClearPayload`, `RequeueAdd`).

The environment adds `LeaseExpires` and the faults: `RequestDies`, `Crash` (kill
and restart with empty `_retry_counts`), `Shutdown` and `Restart` (SIGTERM; the
executor's exit waits for the pool), and a failing Redis command, which ends the
main loop, counts as a failed call inside `execute_job`'s try block, and frees
the thread inside its except clause.

Abstractions: a record is its status (a GET and SET of one record whose read
decides nothing is one step); time is the state of a lease, and `LeaseCoversJob`
says whether a lease may expire while its job executes; which candidate a claim
prefers is left open; the 24 hour and 7 day lifetimes are longer than any
behaviour of interest.

### Runs

All runs are of module `MCJobQueue`; `Jobs`, `MaxFaults` and the sizes of the other
sets bound the model. Two jobs are enough for one thread to disturb another's
job, the third in `replicas` lets a key be resubmitted twice; two keys make a claim
choose; two retries add nothing to one. Job ids are interchangeable, so are
requests, and pool threads of a single worker; the liveness run uses no symmetry.

| run | instance | shows |
|---|---|---|
| `faults` | 1 worker, 2 pool threads, 2 keys, 2 jobs, ≤ 2 faults of any kind | `TypeOK`; `OneLiveExecution`; `WaitingJobsAreUnowned`: a pending job is queued, unleased and in no thread's hands; `StrandedOnlyInWindow`: nothing but a fault between SREM and ZADD of a claim, or between ZREM and SADD of a requeue, strands a job |
| `replicas` | 2 workers with a pool thread each, 3 jobs, ≤ 1 lost request or SIGTERM | `OneLiveExecution`: the checked SREM suffices while nobody is killed; `FinalIsFinal`; `OneJobPerKey`: requests that come one after the other converge on one job |
| `live` | as `faults`, ≤ 2 kills or SIGTERMs | `UnfinishedJobsHavePayload`; `EveryJobFinishes` (liveness): unless stranded, a job ends; retries run out although restarts forget them |

One run is expected to fail; it refutes a sentence of the code base.

| run | property | refuted sentence |
|---|---|---|
| `dup_key` | `OneJobPerKey` with two concurrent requests | `redis_store.py:90`, NX lets one of several concurrent requests enqueue. The loser reads the winner's job before the pipeline has written it, takes the fallback for crashes and enqueues again |

Four more sentences hold only with a reservation, which the model shows as well:

* `worker.py:12-14`, the reaper puts a killed worker's leased jobs back: not when the
  kill falls between the ZREM and the SADD of `requeue_job`, or between the SREM and
  the ZADD of a claim. `StrandedOnlyInWindow` says that these are the only places.
* `redis_store.py:298`, only unfinished jobs are requeued: the reaper looks at the
  lease alone, so a worker killed between the SET of a completed record and the
  ZREM of its lease has the record set back to queued. `FinalIsFinal` is
  therefore checked without kills.
* `redis_store.py:258`, `renew_lease` is called during long jobs: nothing calls it. With
  `LeaseCoversJob = FALSE`, `OneLiveExecution` fails.
* `redis_store.py:207`, a pending id whose record is not queued is dirty data to be
  dropped: with a second worker, which requeues the job between that read and the
  SREM, it is a waiting job, and the instance of `replicas` violates
  `StrandedOnlyInWindow` there. One replica is deployed, and `faults` has one worker.

### Fairness

`FairSpec` assumes that every thread that can take its next step does so (threads
are scheduled; every HTTP phase has a timeout, so a call ends), that the clock
passes the end of a lease nobody executes under, and strongly that the reap
interval elapses again and again: `ReapBegin` competes with `SkipReap` at the same
point of the loop, and the code takes the former every `REAP_INTERVAL_SECONDS`. New
submits and faults are never forced. That each of the finitely many jobs of the
instance is claimed in the end follows from their number; what can be said when
jobs keep coming is the subject of `FairQueue`.

### Proofs

`JobQueueProofs` proves `TypeCorrect`, `Spec => []TypeOK`, from `QueueAssumption`
alone. The inductive invariant `TypeInv` adds to `TypeOK` which program counters
go with a current job: without that, `status[cur[w]]` could be a record of no job.

`JobQueueOwnership` proves `ExecutedByOne` and `WaitingUnowned` for the deployed
configuration: one worker process (`SoleWorker`; `deploy/automation.yaml` has one
replica and the Recreate strategy), any number of pool threads, and leases that
outlive executions (`LeaseCoversJob`). Faults of every kind stay allowed, as many as
one likes. `OneLiveExecution` alone is not inductive: that a claim hands a job to one
thread depends on the pending set holding only jobs in nobody's hands
(`WaitingFree`), which depends on the reaper's list holding only expired leases
of jobs nobody executes (`ExpiredFree`), on a claim's candidates still waiting when
it takes one (`ScanFresh`, which is where one worker matters), on the lease and status a
job has between two commands of a claim or requeue (`HandedOver`), and on a submit
using a fresh id (`NewJobsAreUnused`). `Ownership` is their conjunction, kept by every
step (`OwnershipStep`, one case per action); the two theorems follow. Dropping
`LeaseCoversJob` makes the statement false, and so does dropping `SoleWorker`: two
workers that list the same expired lease both requeue its job, the second one
after a claim has handed it out.

Two more theorems are about the same configuration. `StrandedInWindow` (`Spec =>
StrandedOnlyInWindow`, every kind of fault) adds `Covered` to `Ownership`: a job between its
claim and the end of its execution is leased or already finished, and one whose
result is saved stays finished while the rest of `complete_job` and `fail_job` is
carried out. `RequestsKeepTrack`, `MainKeepsTrack` and `ExecKeepsTrack` show that an
ordinary step keeps every job tracked, `FaultsLetGo` that a fault loses only the job
of a thread inside the two windows. `PayloadKept` (`Spec => []UnfinishedJobsHavePayload`)
assumes that no Redis command fails, because a DEL that fails after it was carried
out leaves a job that is requeued without a payload; kills, restarts and expiring
leases are allowed. Its invariant `Spent` says that a job without payload is finished,
unleased, not waiting and in nobody's hands.

`SharedByWorkers` (`Spec => []OneLiveExecution`) and `FinalStaysFinal` (`Spec => FinalIsFinal`)
are about any number of workers, under `Undisturbed`: leases outlive executions, no
worker is killed and no Redis command fails; lost requests and SIGTERMs stay
allowed. There the candidates of a claim can be stale, since another worker may
have taken and finished any of them, so `Shared` cannot speak of what a scan saw. It
says instead that a job is held by at most one thread (`HeldByOne`), that pending jobs
are held by none (`WaitingUnheld`), that a lease always has a holder (`LeasedHeld`, so the
reaper finds nothing), and which status goes with which step of the holder
(`RecordFollowsHolder`). A claim that proceeds has removed the job from the pending
set, which is all that decides.

`JobQueueProofs` also proves `OneJobForEachKey`, `Spec /\ []SubmittedOneByOne =>
[]OneJobPerKey`, for any workers and any faults, lost requests among them. The
hypothesis is about behaviours and not about constants: no two requests that are
being served at one moment carry the same key. Requests with different keys may
run at the same time, and a key may be submitted again and again. It is the weakest
that could do: `dup_key` shows two jobs from two such requests. The invariant is
`KeysNameTheirJobs` (every job written is the one its key names; a request past its
first command works on what its key names), with `NewJobsUntouched`, that no worker
knows an id that has not been written.

Left to TLC: the liveness property. That `FinalIsFinal` fails once a worker is killed, and
`UnfinishedJobsHavePayload` once a DEL fails, is not a gap of the proofs: their
hypotheses exclude what makes the statements false.

## 4. PolicyStore

`PolicyStore.tla` is `PolicyManager` over the ConfigMap repository, as the publish
and rollback handlers of the API drive it. `PolicyRegister.tla` is what it
promises to administrators: a history of policies in which version n is the n-th entry for ever,
and requests that take effect at most once, right after the version they name
as their base. `PolicyFeed.tla` is what it promises to those who poll it: a list of
policies that only grows, and processes each of which serves some entry of it,
possibly an old one.

### State and code

| variable | code |
|---|---|
| `doc`, `rev` | the `PolicyStoreDocument` in the ConfigMap, its `resourceVersion` |
| `late` | PUTs still on their way although their client gave up |
| `log` | history: every version ever committed |
| `up`, `active`, `ready` | each API process: whether it serves, `_active` as it is served, `_ready` |
| `cache` | `polygate:policy:active` in Redis |
| `rpc`, `home`, `req`, `draft` | each request: its next call, its process, what it asks for, the policy to publish |
| `plan` | what `_commit` has loaded and the document it is about to write |
| `target`, `answer` | the record to activate and the answer to give then; the answer given |
| `faults` | the number of injected faults |

Every action is one call that leaves the process, with the local code up to the
next one; `Switch` is the in-memory half of `_activate_and_cache`. A rollback
starts with `FindTarget` or `TargetMissing`; both kinds of request go through
`LoadCurrent` (base check and construction of the document) or `LoadStale`, then
`PutAnswered` (the compare-and-swap, carried out or answered 409) or `PutUnknown`
(`RepositoryUnavailable`), after which the reconciling load leads to
`ReconcileFails`, `ReconcileNotCommitted` or `ReconcileActivates`. `Switch` and
`CachePut` or `CacheFails` end a commit. `LateArrives` and `LateVanishes` are the two
fates of a PUT nobody waits for. `Crash` ends a process and its requests at any
point, `Start` loads again.

Abstractions: a policy is a model value; the audit fields of a record are the
request that made it; a request is made once, since a repeated one is another
request; versions are numbered from the active one of the installed document.
`InMemoryPolicyRepository` has the same
compare-and-swap and never fails; its restart from a file is not modelled.

### Runs

All runs are of module `MCPolicyStore`. Three requests are two that race and one
that comes after; two kept versions (`MaxVersions`; 20 in the code) are the fewest
for which a rollback can find its target and can also lose it to truncation.
`CHECK_DEADLOCK FALSE`: the requests are finitely many, so every behaviour may end.
There is no fairness: all properties are safety properties.

| run | instance | shows |
|---|---|---|
| `policy_concurrent` | 3 requests at a time, 2 processes, 1 fault of any kind, PUTs may come late at any time | `TypeOK`; `ImplementsRegister` and `ImplementsFeed`: the two refinements; `DocumentIntegrity`: no document the validator refuses is stored or about to be; `HistoryIsLatest`: exactly the latest versions are kept, unchanged; `ServedWasCommitted`: version number and ETag identify one policy everywhere; `RefusedIsUnpublished`: a refused request never takes effect; `DenialsAreTrue`: who is told "not committed" or "another was committed" is told the truth |
| `policy_sequential` | 3 requests, one at a time, 1 process, ≤ 3 faults, PUTs may come late at any time | `LagsOnlyUnconfirmed`: between requests the process serves the stored version, or its author was never told that it is published |

The code reloads at once after a PUT that timed out (`policy_manager.py:312-330`), and
nothing keeps that PUT from arriving after the reload. So "not committed" means "not
committed yet", and `DenialsAreTrue` says exactly how much of it can be relied on:
the request has taken no effect when it is told so, and takes effect afterwards only
through its own PUT. The other denial, 409 "a different policy state was committed
concurrently", is final. For the same reason a process can lag behind the store
without noticing, in calm periods too, and `LagsOnlyUnconfirmed` says when: only while
the stored version is one that an administrator was told is not committed, or whose
outcome is unknown. In the latter case `_ready` is down, unless a third fault has
raised it again. `policy_sequential` has one process and one request at a time
because the threadpool breaks the property for confirmed versions as well: that is
`policy_regress`.

| run | property | refuted sentence |
|---|---|---|
| `policy_regress` | `ActiveInSync` with two requests at a time | `policy_manager.py:8-9`, write first and then switch `_active`, lest they become inconsistent. Threads switch in another order than they committed, and the older version stays active |

Four consequences of the code the properties leave room for. A request whose write
was made, unanswered and then followed by another publish is answered 409
(`verdict = "superseded"`) although it took effect (`DenialsAreTrue` demands that it
is no longer the stored version then). A process made unready stays so
until another publish through it, or a restart. After an outcome that could not be
reconciled, a later write that was not made sets the process ready
(`policy_manager.py:321`) without activating what the first one stored; this takes
three faults. And with a second process, the editor's advice to reload the latest
version (`policy-admin.js:429`) does not help at the one that missed the last
publish: it serves its own version after a reload and refuses it as a base.

### Proofs

`PolicyStoreProofs` proves, from `StoreAssumption` alone and so for any number of
requests, processes, kept versions and faults: `TypeCorrect`, `IntegrityAlways`,
`HistoryAlways`, `ServedAlways`, `RefusedAlways` and `Refinement`.

The inductive invariant `IInv` rests on one idea: the stored document is a function
of the log, `doc = DocAt(log, rev)`, and the revision counts the log's entries. A
request that still expects revision `rev` has therefore planned exactly the
document that comes next; one that does not can only fail. `StoreInv` states this
for the store, `RequestInv` for what each request has read and planned,
`AuthorInv` that a request with a write to make is not yet in the log, `ServedInv`
that what is served, cached or about to be activated is in the log. The lemmas
`WindowIsInterval`, `DroppedFromWindow` and `NewDocumentIsNext` say that
`_commit`'s archiving and truncation take `DocAt` of one version to `DocAt` of the
next; they need the cardinality theorems for "drop the oldest excess ones".
`Refinement` maps submits to `Ask`, a compare-and-swap that succeeds (answered or
late) to `Commit`, the end of a successful request to `Acknowledge` and every other
step to a stutter.

`PolicyFeedProofs` proves `FeedImplemented`, the refinement of `PolicyFeed`, from `IInv` and
`HomesUp` (a request in progress has a running process): what a `Switch`
activates is an entry of the log (`ServedInv`), the document a starting process
reads has the last entry of the log as its active record, and a compare-and-swap
that succeeds appends exactly one entry.

Two further theorems are about what a request is told and what is served.

* `DenialsAlwaysTrue` (`Spec => DenialsAreTrue`) needs no assumption beyond
  `StoreAssumption`. It takes one more invariant, `EntryInv`: the `n`-th version is the
  entry of a request whose base is version `n - 1`. Hence a request that reads back
  the very revision it expected is not in the log, which is what "not committed"
  claims; and one that finds a document other than its own (`FoundAnother`) is either
  not in the log, and then the log has already passed its base, so no PUT of its own
  can be accepted any more, or others follow it (`SupersededInv`).
* `LagsOnlyUnconfirmedAlways` (`Spec => []LagsOnlyUnconfirmed`) assumes one process
  (`OneProcess`) and `OneAtATime`, `Concurrency <= 1`; the faults and the moment a PUT
  arrives are unrestricted. `LagInv` follows the PUTs on their way: none is on a later
  version than the request in flight writes on (`OrderOk`), so when that request
  switches, what it activates is stored and no PUT on its way can replace it; one that
  could still be accepted at any other time (`LateExcused`) is of a request that
  reconciles, died or was told "not committed" or "unknown". `FaultsSeen` counts the failed
  calls that make a process unready (two) and that make it ready again behind the back
  of an unknown outcome (three): a later write that is found not to be committed
  (`policy_manager.py:321`), or a restart.

## 5. FairQueue

`FairQueue.tla` is the choice `claim_next_job` makes among the pending jobs: the score
the preview gave a job, a bonus for waiting, and a streak of urgent claims after
which a routine job that has waited long enough is forced.

### State and code

| variable | code |
|---|---|
| `status[j]` | whether the job is in the pending set, being executed, or gone |
| `kind[j]` | the class and score in its record |
| `waited[j]` | seconds since `created_at`, which a requeue does not reset |
| `before` | which of two unfinished jobs is the older; the tie break by `created_at` |
| `streak` | `automation:queue:streak` |
| `policy` | the queue parameters the worker's policy runtime hands out |

`Claim` is one step: one worker process claims (section 3), and while it reads
candidates the others only add jobs. `ClaimLost` is the kill between SREM and the
counter, `Requeue` a retry or the reaper, `Reload` a policy that arrives between two
claims. `Jobs` are places in the queue which another job takes once the one in it
has ended, so behaviours with arrivals for ever are covered. `Quantum` seconds pass
at once. `Horizon` and `MaxStreak` bound the counters; `FairQueueAssumption` asks that
beyond them nothing changes (the bonus is at its cap, the streak past its
threshold). Whether the worker has a free thread is left open: a claim may come at
any moment.

### Run

`fair_order` has three places, the smallest number with a job to claim, one to be
passed over and one to keep arriving; three kinds of job whose scores are closer
than the bonus (so that waiting reorders them), and two policies that replace each
other: the default with an early threshold, and one without a bonus that forces
late. `Quantum` and `Horizon` give every job three ages, before, at and past the
limits. It shows `FirstComeFirstServed` (two waiting jobs of one kind are claimed in
order of creation, across requeues, reloads and forced claims), `UrgencyYields` (as long
as routine jobs starve, routine jobs are claimed again and again) and
`TopRoutineServed` (the routine jobs with the highest score are all claimed).

Fairness: `WF` of a claim (the main loop polls for ever), of `Tick`, and `SF` of
`Finish` for each job, because an execution ends and `MAX_RETRIES` bounds the requeues,
so that a job does not alternate between queued and running for ever. Arrivals,
kills and reloads are not forced.

`src/README.md:49-50` says that waiting work ages, so that lower-priority jobs cannot
starve. That is true against urgent jobs, and `UrgencyYields` and
`TopRoutineServed` are what is left of it in general. A low job can wait for ever behind
normal ones: the bonus is capped at 30 points while the scores of the shipped
policy range further (10 for low marketing, 70 for a normal incident), and the
streak counts urgent claims only and is reset by every other.

### Proofs

`FairQueueProofs` proves, for any number of jobs, any scores and any policies,
`TypeCorrect` and `FirstComeAlways` (`Spec => FirstComeFirstServed`). The invariant is
`Order`: the older of two unfinished jobs has waited at least as long
(`AgesAgree`), and a place nobody is in has no age yet (`VacantIsNew`). With it, `BonusMonotone` (a longer wait never earns less) shows that the
older of two equals has an effective priority at least as high, so that a claim of
the younger one contradicts the tie break.

`ChoiceIsOne`, for any finite number of jobs, says that while a job waits exactly one
may be claimed: the choice is determined, whatever the order in which Redis lists
the pending set, and never empty, which is also what makes `WF` of a claim mean
something. Its invariant `Line` says that `before` is a strict total order of the
unfinished jobs, through jobs that leave the middle of the line and places that are
taken again; that a finite set has a first element in such an order is
`SomeoneIsFirst`, by the well-foundedness of strict inclusion among finite sets
(an induction the provers cannot do as such). The two liveness properties are left
to TLC.

## 6. PolicyDistribution

`PolicyDistribution.tla` is how a published policy reaches those who act on it: the
gateway's runtime (`gateway/app/policy.py`), the worker's (`policy_runtime.py`), and the
requests of the gateway with the response cache they share.

### State and code

| variable | code |
|---|---|
| `published`, `up`, `active` | from `PolicyFeed`: the policies committed, the API processes and what they serve |
| `snap`, `etag` | the snapshot of each runtime, and `_etag` of a gateway |
| `reply` | the answer a refresher has received and not looked at yet |
| `polling` | the runtimes whose refresher (`_loop`, `_policy_refresh_loop`) is still alive |
| `restarts` | bound: restarts of runtimes so far |
| `cached` | Redis: the stored answers by cache key and policy version |
| `at`, `step`, `asks`, `using`, `tries`, `answer` | each request: its gateway, how far it is, its question, its policy snapshot, how many providers it tried, what it was answered and under which policies that was routed |

`Poll` is the API's half of a poll, `Install` the runtime's, with the 200 and 304 of the
ETag; a body may be one the runtime rejects. `Choke` is an answer at which `refresh_once`
raises: the body is no object (a `TypeError`), or cannot be decoded (httpx's
`DecodingError` is no `TransportError`), and `policy.py:138` and `157` catch neither. The
worker's loop logs the exception and goes on (`policy_runtime.py:229`); the gateway's has no
`try` (`main.py:119`), so the task ends, and the gateway stays on its policy until it is
restarted. The docstrings say otherwise: "this loop never raises" (`main.py:115`), "any
failure ... is logged, never raised" (`policy.py:130`). `LoseReply` loses the answer; a poll
that fails otherwise changes nothing. `Restart` starts again from the mounted file,
which may hold any version up to now, from the built-in policy, or (a worker
without a file) from the API. `Arrive`, `Hit`, `Miss`, `Route`, `CallFails` and
`CallSucceeds` are the path of `chat_completions`; a failover routes again, under the
snapshot of the request. A Redis that is down or forgets is a `Miss`. A question has a
key (what the cache key covers) and may have more than that, which makes the code
bypass the cache.

The built-in policy of a gateway without a file calls itself version 1. The store
that is shipped starts above it, so the number is taken by no published version,
and 0 stands for it here. With the in-memory repository, which is for
local development, a restarted API uses numbers again; ETags and cache keys then
lie, and the model leaves that repository out.

### Run

`policy_distribution` has one API process, one gateway with one request, one worker,
one key, two providers, two versions and one restart. One of each suffices: the
processes share only the feed and the cache, the cache keeps what one request
stored for the next one, and the feed lets the API process move back to an older
version, as a lagging second process would make it look. Two versions are an old
and a new one, two providers a first choice and a failover.

| property | says |
|---|---|
| `SnapshotsAreGenuine` | what a runtime holds under a version number is what was published under it |
| `RoutedUnderItsVersion` | all of an answer was routed under the policy of the version the request is labelled with, answers from the cache included |
| `AnswersTheQuestion` | an answer, cached or not, is to the question that was asked |
| `NotModifiedIsCurrent` | a 304 is true: the runtime holds what the API process serves |
| `Converges` | once the API processes settle on a version, every worker comes to it and stays, and so does every gateway whose refresher is alive; it says nothing of the time before they settle |

Fairness: an answer is looked at (`WF` of `Install`); a poll that is answered usefully
happens again and again (`SF` of `GoodPoll`), and so does looking at a valid
answer before it is lost. This is asked of a refresher that is alive: the worker's loop
catches every exception, the gateway's may die at any poll (`Choke`), and then a poll is
not enabled any more. Without that exception in `Converges` TLC finds a gateway that
stays behind for ever. Polls may fail as often as they like, only not all of them from some
time on.

### Proofs

`PolicyDistributionProofs` proves `TypeCorrect`, `GenuineAlways`, `RoutedAlways`,
`AnswersAlways` and `NotModifiedAlways`, from `FeedAssumption` and `DistributionAssumption`,
for any number of processes, requests, keys and versions. The inductive invariant is
`IInv = TypeOK /\ RuntimesGenuine /\ CacheOk /\ RequestsOk`: what is held or on its
way to a runtime is genuine, an entry of the cache answers its key and was routed
under the version in its key, a request in progress uses a genuine snapshot and
has been routed under nothing else. For `NotModifiedAlways`, `Tagged` adds that an
ETag is that of the snapshot held. `Converges` is left to TLC.

## 7. Router and Failover

`Router.tla` is `select_provider` as operators: the guardrails (privacy, capabilities,
health), the budget and latency filters with their soft relaxations, and the three
quality policies with their tie breaks. A selection is the set of at most one
provider, the empty set for a 503. Prices are integers, the price for the
request's input and the price per output token, so the code's rounding to 8
digits changes nothing.

`Failover.tla` is what routing promises to one request with model `auto`: its state is
the request, the provider list and the policy it began with, `phase`, the provider
`chosen` and those `tried`. Any set of providers may be down at any selection.
`Select`, `NoRoute`, `CallSucceeds`, `CallFails`, `TimesOut` and `Again` are the
loop around `_select` in `main.py`. `Gateway` implements it.

The run `routing_choices` takes three providers, every combination of the entries,
requests and policies of `MCFailover`: prices around the budget, some with a price
per token that overtakes the others when the policy assumes a longer output;
latencies around the target; ranks, one of them invalid; hard and soft modes. Two
providers are a choice, the third shows what a change of the list does to the
choice among the others.

| property | says |
|---|---|
| `Guardrails` | privacy and capabilities hold at the first choice and at every failover |
| `RelaxesOnlyWhenItMust` | a limit is exceeded only under a soft policy, and only when nothing within it could be had |
| `Decides` | a choice is unique, and made whenever a candidate fits or the policy is soft |
| `FailoverIsStable` | leaving out a provider that was not chosen does not change the choice |
| `PayingMoreHelps` | a larger budget never turns a choice into a 503 |

`PayingMoreHelps` has an exception, which its text names: with a soft budget and a hard
latency, a provider that becomes affordable may be too slow, and then nobody is
left, although before, with nobody affordable, all were taken and one was in time.

`FailoverProofs` proves the five properties and `TypeCorrect` for any finite list of
providers, any prices and any policy. `TypeOK` and `Guardrails` are inductive as they
stand, since what is selected has passed the guardrails (`SelectedIsGuarded`). For
`FailoverStable`, each stage of the selection is shown to lose exactly the removed
provider and nothing else (`RelaxedOfFewer`, `CheapestOfFewer`, `BalancedOfFewer`,
`HighQualityOfFewer`); relaxation is where this could fail and does not, because a
stage whose result still contains the chosen provider is relaxed on the smaller
list exactly when it was on the larger one. `RelaxesLast` follows the two relaxations
in the order of the code. `AlwaysDecides` needs that a finite list has a cheapest, fastest
or best provider (`Greatest`; `providers.yaml` is a list, so `RoutingAssumption` says
`IsFiniteSet(Providers)`) and that the tie breaks end with the place in the list (`CheapestIsOne`,
`PreferredIsOne`). `PayingMoreAlwaysHelps` follows from `RicherIsServed`, which has any
natural number where the property, which TLC evaluates, has `0..2`.

## 8. CircuitBreaker and Gateway

`CircuitBreaker.tla` is one breaker as functions, a method each; every method holds
the lock from beginning to end, so each use is one step. `Gateway.tla` is the chat
endpoint with concurrent requests, the retries of `retry.py`, streams, health probes
and the breakers all of them share.

### State and code

| variable | code |
|---|---|
| `breaker[p]` | `_ProviderBreaker`: state, failures in the window, whether the cooldown has passed, the probe slot |
| `sound` | the providers that answer whatever fits them, given the time (environment) |
| `ask[r]` | what a request wants, under which policy, which provider it insists on, and who cannot serve it |
| `rpc[r]` | how far it is: selecting, asking the breaker, before an attempt, in a call, in a retry delay, streaming, answered |
| `chosen`, `tried`, `attempt` | the provider, `tried_names`, the attempt |
| `late`, `err` | whether its deadline has passed, why the last provider failed it |

Time is what the code asks of its clocks, and each may become true at any moment:
a deadline (`Expire`), a cooldown (`Cool`), a failure that leaves the window (`Age`).
A retry delay that would not fit into the budget is a choice at each transient
failure. A call is cut off at what is left of the deadline (`retry.py:152` and `250`), and
so is that of a sound provider: `FailsForLast` and `OpeningTimesOut` are enabled for it once
the deadline has passed. `attempt`, `late` and `err` are locals of calls and are
forgotten with them (`GiveUp`, `Settle`). Failures are counted up to the threshold, as far as they are compared. The
health map a selection uses is read in one step; a breaker exists from the
beginning, closed, instead of from its first use. Clients repeat their requests
for ever (`Renew`), so a finite set of requests is a service that keeps running.

### Runs

A client that leaves in the middle of a stream is noticed in one of two ways, and the
code answers them differently. While `downstream()` waits for the next event it asks
`is_disconnected`, or its task is cancelled, and reports a cancellation
(`StreamCancelled`, `main.py:774` and `785`). While it is suspended at its `yield`
(`main.py:779`) it is closed: the `GeneratorExit` passes both `except` clauses, the outcome is
still `partial_error`, and the `finally` reports a failure of the provider
(`StreamClosed`). `circuit_breaker.py:113` ("a downstream cancellation says nothing about
provider health") and `gateway/README.md`, which keeps client cancellations apart from errors,
do not say so. A response that the server drops before `downstream()` has taken its
first step reports nothing at all; this depends on the server and is not modelled.

Two providers, one external and probed, one internal, are the fewest with a failover
and a privacy filter that matters; two requests are the fewest for one to report
while the other is the probe. `MaxRetries = 1` and `FailureThreshold = 2` have a
retry, and a failure that does not open the breaker.

`gateway_traffic` has a routed client that streams and a client that insists on the
unreliable provider. It shows `BreakersConsistent` (a half-open breaker always has its
slot taken, a closed one is below the threshold), `SlotsAreReturned`,
`ImplementsFailover`, `AllAnswered` (retries and failovers end), and two more.

`BlamedForAReason` says when a failure is counted: for a failed health probe, and by a
request only as it leaves the provider, with its call given up or its stream ended
early. However many retries it took it counts once, and never for a deadline that passes
between two attempts, a request the provider cannot serve, or a client whose departure was
noticed. Of a provider that answers all that fits it two reasons are left, and the
code makes both of them: a deadline that cuts the call, which can be short for the
second provider of a failover, and a client that leaves while the stream is at its
`yield`. So a healthy provider's breaker can be opened by impatient clients alone.

`Recovers` says that a provider that was repaired and that some client insists on is closed
again, once deadlines and disconnects stop cutting its answers off.

`SlotsAreReturned` names one exception the code makes: a request admitted as the probe
of a half-open breaker whose time is up at the head of an attempt (the first, or one after
a retry delay) leaves at `retry.py:202` without a word to the breaker, whereas every other
way out, also the one for a delay that does not fit, reports (`retry.py:184` says so). Its
slot stays taken, and the breaker refuses everybody until the process restarts.
`Recovers` allows for this state: neither property catches the lost slot, they confine it
to this exit.

`gateway_auto_stuck` is expected to fail: `OpenIsTriedAgain`, from `circuit_breaker.py:7`
(after the cooldown one request is let through to see whether the provider has
recovered) and `health_checker.py:41` (business traffic brings it back). The router takes
an open breaker for down whether or not it has cooled, and the breaker is asked
only after the router has chosen, so routed requests never bring a provider back;
one that forces it does.

Fairness: `WF` of serving each request (threads and tasks are scheduled, sleeps are
bounded by the budget, httpx times out), of repeating it, and of the cooldown.
Deadlines, failures, repairs and the ageing of failures are never forced.

### Proofs

`GatewayProofs` proves, for any number of requests, providers and retries and any
threshold: `TypeCorrect`; `BreakersStayConsistent`, by one lemma per method of the breaker
and one case per action, together with `WithProvider` (a request that
was given a provider has one, and one that waits has an attempt left); and `KeepsItsPromise`, the refinement of `Failover` by every routed
request. Steps of other requests and of the environment are stutters of the
promise (`OthersSame`), and so are admissions, attempts, retries and the end of a
stream (`OwnSteps` has a case for each); the health map of the moment is the witness
for the set of providers that are down.

`BlamedAlwaysForAReason` (`Spec => BlamedForAReason`) goes by what a step may report to a
breaker: a request reports a failure only in the step in which its call is given up
or its stream ends early, and of a sound provider only when late or closed (`OneReport`);
the other reports neither add a failure nor open a closed breaker (`CountsNothing`); and of the
environment only a health probe does (`BlamedStep`).
`SlotsComeBack` (`Spec => SlotsAreReturned`) goes by the request that leaves the provider: each
report ends a probe (`EndsProbe`), and every step after which a request is no longer with
its provider reports (`LeavingReports`), but for the one the property names. Both
use `WithProvider`, and neither needs a bound on requests, retries or failovers.

Left to TLC: the liveness properties.

## 9. Not modelled

* Of the queue: preview records, `list_jobs` and its index, key lifetimes. Of the
  worker: the health server. The in-memory store is a dictionary for tests.
* Of the policy service: authentication, validation and simulation of drafts, the
  read-only endpoints, and the in-memory repository's restart.
* Of the gateway: the conversion of payloads and events by the adapters
  (formatting), decision records (written once, read by people), the routing
  simulation and listing endpoints (they only read), authentication and metrics. The
  lazy reconnect of the cache's Redis client, with its race between threads
  (`cache.py:143`), changes nothing but whether a lookup misses, and every lookup may miss
  in `PolicyDistribution`.
* The policy editor and the web client: the state of one browser tab each, in
  JavaScript, sharing nothing with the services but requests, which are the requests
  of `PolicyStore` and `Gateway`. Their own races (`policy-admin.js:531`,
  `ConversationProvider.tsx:219`) are listed as hazards without a property.
* Monitoring, dashboards, manifests, scripts and the mock provider hold no
  state of their own worth a model; they fix parameters.

Liveness, and whatever depends on ENABLED, is checked by TLC only: it is out of
reach of the prover. Symmetry is used in safety runs only.
