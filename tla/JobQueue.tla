------------------------------ MODULE JobQueue ------------------------------
(***************************************************************************)
(* The automation job queue: automation/app/redis_store.py as it is driven *)
(* by the API's submit handlers (automation/app/main.py) and by the worker *)
(* process (automation/app/worker.py).                                     *)
(*                                                                         *)
(* Redis executes one command at a time, and nothing spans two commands    *)
(* except the MULTI/EXEC pipeline of enqueue.  So the unit of interleaving *)
(* is the Redis command: a handler, the worker's main thread and its pool  *)
(* threads are processes whose program counter names the next command.     *)
(*                                                                         *)
(* A job record is abstracted to its status.  A GET followed by a SET of   *)
(* the same record writes a status that does not depend on what was read,  *)
(* so where the read decides nothing else the two commands are one step.   *)
(* Time is abstracted: an expired lease is a state of the lease, and       *)
(* LeaseCoversJob says whether it may be reached while the job executes.   *)
(* Which candidate a claim prefers (scores, waiting bonus, streak) is left *)
(* open here: any candidate may be chosen.                                 *)
(***************************************************************************)
EXTENDS Naturals, FiniteSets

CONSTANTS
  Keys,            \* idempotency keys a client submits under
  Jobs,            \* job ids the handlers can generate (bounds the model)
  Handlers,        \* concurrent POST /v1/jobs requests (FastAPI threadpool)
  Workers,         \* worker processes (their main threads)
  Executors,       \* pool threads, WORKER_CONCURRENCY of them per worker
  Owner,           \* Owner[e] is the worker process that pool thread e belongs to
  MaxRetries,      \* WORKER_MAX_RETRIES
  LeaseCoversJob,  \* TRUE: a lease outlives every execution it was taken for
  FaultKinds,      \* the kinds of fault injected
  MaxFaults,       \* how many of them (bounds the model)
  NoJob, NoKey     \* "no value"

AllFaults == {"request", "crash", "sigterm", "redis"}

ASSUME QueueAssumption ==
  /\ Owner \in [Executors -> Workers]
  /\ Workers \cap Executors = {}
  /\ NoJob \notin Jobs
  /\ NoKey \notin Keys
  /\ MaxRetries \in Nat
  /\ MaxFaults \in Nat
  /\ LeaseCoversJob \in BOOLEAN
  /\ FaultKinds \subseteq AllFaults

VARIABLES
  \* Redis
  idem,      \* automation:idempotency:{key} -> job id
  status,    \* automation:job:{id} -> status of the record, "absent" if no key
  payload,   \* ids with an automation:job-payload:{id} key
  pending,   \* automation:queue:pending
  lease,     \* automation:queue:leases, "expired" once its score is in the past
  \* submit handlers
  hpc, hkey, hjob,
  \* worker main threads and pool threads
  pc,        \* the next command of each thread
  cur,       \* the job the thread is working on
  todo,      \* ids a main thread still has to visit: SMEMBERS or ZRANGEBYSCORE
  cands,     \* ids a claim has read as queued
  retries,   \* worker._retry_counts, in the memory of the process
  \* history and bound
  origin,    \* the key a job id was generated for
  faults     \* faults injected so far

redis   == <<idem, status, payload, pending, lease>>
request == <<hpc, hkey, hjob>>
threads == <<pc, cur, todo, cands, retries>>
vars    == <<idem, status, payload, pending, lease, hpc, hkey, hjob,
             pc, cur, todo, cands, retries, origin, faults>>

Threads == Workers \cup Executors

Statuses   == {"absent", "queued", "running", "completed", "failed"}
Unfinished == {"queued", "running"}
Terminal   == {"completed", "failed"}

HandlerPC == {"idle", "lookup", "read", "repoint", "commit"}
RequeuePC == {"rq_save", "rq_unlease", "rq_add"}
MainPC    == {"loop", "reap", "rq_unlease", "rq_add", "admit", "scan", "drop",
              "mark", "lease", "launch", "draining"}
CompletePC == {"ok_save", "ok_unlease", "ok_clear"}
FailPC     == {"ko_save", "ko_unlease", "ko_clear"}
ExecPC     == {"free", "load", "call"} \cup CompletePC \cup FailPC \cup RequeuePC

TypeOK ==
  /\ idem \in [Keys -> Jobs \cup {NoJob}]
  /\ status \in [Jobs -> Statuses]
  /\ payload \subseteq Jobs
  /\ pending \subseteq Jobs
  /\ lease \in [Jobs -> {"none", "held", "expired"}]
  /\ hpc \in [Handlers -> HandlerPC]
  /\ hkey \in [Handlers -> Keys \cup {NoKey}]
  /\ hjob \in [Handlers -> Jobs \cup {NoJob}]
  /\ pc \in [Threads -> MainPC \cup ExecPC]
  /\ \A w \in Workers : pc[w] \in MainPC
  /\ \A e \in Executors : pc[e] \in ExecPC
  /\ cur \in [Threads -> Jobs \cup {NoJob}]
  /\ todo \in [Workers -> SUBSET Jobs]
  /\ cands \in [Workers -> SUBSET Jobs]
  /\ retries \in [Workers -> [Jobs -> 0..MaxRetries]]
  /\ origin \in [Jobs -> Keys \cup {NoKey}]
  /\ faults \in 0..MaxFaults

Init ==
  /\ idem = [k \in Keys |-> NoJob]
  /\ status = [j \in Jobs |-> "absent"]
  /\ payload = {}
  /\ pending = {}
  /\ lease = [j \in Jobs |-> "none"]
  /\ hpc = [h \in Handlers |-> "idle"]
  /\ hkey = [h \in Handlers |-> NoKey]
  /\ hjob = [h \in Handlers |-> NoJob]
  /\ pc = [t \in Threads |-> IF t \in Workers THEN "loop" ELSE "free"]
  /\ cur = [t \in Threads |-> NoJob]
  /\ todo = [w \in Workers |-> {}]
  /\ cands = [w \in Workers |-> {}]
  /\ retries = [w \in Workers |-> [j \in Jobs |-> 0]]
  /\ origin = [j \in Jobs |-> NoKey]
  /\ faults = 0

-----------------------------------------------------------------------------
(* Vocabulary *)

Answer(h) == /\ hpc' = [hpc EXCEPT ![h] = "idle"]
             /\ hkey' = [hkey EXCEPT ![h] = NoKey]
             /\ hjob' = [hjob EXCEPT ![h] = NoJob]

Fresh      == {j \in Jobs : origin[j] = NoKey}
PoolOf(w)  == {e \in Executors : Owner[e] = w}
Idle(w)    == {e \in PoolOf(w) : pc[e] = "free"}
Expired    == {j \in Jobs : lease[j] = "expired"}

\* Thread t has taken job j out of the queue, or off its lease, and not yet
\* handed it back or finished it.
Holds(t, j) ==
  /\ cur[t] = j
  /\ pc[t] # "drop"

Goto(t, next)        == pc' = [pc EXCEPT ![t] = next]
GotoWith(t, next, j) == /\ pc' = [pc EXCEPT ![t] = next]
                        /\ cur' = [cur EXCEPT ![t] = j]

-----------------------------------------------------------------------------
(* Submit handlers: RedisAutomationStore.enqueue *)

\* SET idempotency:{key} {new id} NX.  The handler whose SET creates the key
\* goes on to write its job; any other one looks up the id that is there.
Reserve(h, k) ==
  /\ hpc[h] = "idle"
  /\ hkey' = [hkey EXCEPT ![h] = k]
  /\ \/ /\ idem[k] = NoJob
        /\ \E j \in Fresh :
             /\ idem' = [idem EXCEPT ![k] = j]
             /\ origin' = [origin EXCEPT ![j] = k]
             /\ hjob' = [hjob EXCEPT ![h] = j]
        /\ hpc' = [hpc EXCEPT ![h] = "commit"]
     \/ /\ idem[k] # NoJob
        /\ hpc' = [hpc EXCEPT ![h] = "lookup"]
        /\ UNCHANGED <<idem, origin, hjob>>
  /\ UNCHANGED <<status, payload, pending, lease, threads, faults>>

\* GET idempotency:{key}.
LookUp(h) ==
  /\ hpc[h] = "lookup"
  /\ hjob' = [hjob EXCEPT ![h] = idem[hkey[h]]]
  /\ hpc' = [hpc EXCEPT ![h] = "read"]
  /\ UNCHANGED <<redis, hkey, threads, origin, faults>>

\* GET job:{existing id}: answer with that record, or fall through when the
\* id was reserved but its job is not there.
ReadExisting(h) ==
  /\ hpc[h] = "read"
  /\ \/ /\ status[hjob[h]] # "absent"
        /\ Answer(h)
     \/ /\ status[hjob[h]] = "absent"
        /\ hpc' = [hpc EXCEPT ![h] = "repoint"]
        /\ UNCHANGED <<hkey, hjob>>
  /\ UNCHANGED <<redis, threads, origin, faults>>

\* A fallback that creates the new job but leaves the key on the lost id.
RepointForgetsKey(h) ==
  /\ hpc[h] = "repoint"
  /\ \E j \in Fresh :
       /\ origin' = [origin EXCEPT ![j] = hkey[h]]
       /\ hjob' = [hjob EXCEPT ![h] = j]
  /\ hpc' = [hpc EXCEPT ![h] = "commit"]
  /\ UNCHANGED <<redis, hkey, threads, faults>>

\* SET idempotency:{key} {another new id}, without NX.
Repoint(h) ==
  /\ hpc[h] = "repoint"
  /\ \E j \in Fresh :
       /\ idem' = [idem EXCEPT ![hkey[h]] = j]
       /\ origin' = [origin EXCEPT ![j] = hkey[h]]
       /\ hjob' = [hjob EXCEPT ![h] = j]
  /\ hpc' = [hpc EXCEPT ![h] = "commit"]
  /\ UNCHANGED <<status, payload, pending, lease, hkey, threads, faults>>

\* The MULTI/EXEC pipeline: record, execution payload and pending entry at
\* once; the answer is the record just written.
Commit(h) ==
  /\ hpc[h] = "commit"
  /\ status' = [status EXCEPT ![hjob[h]] = "queued"]
  /\ payload' = payload \cup {hjob[h]}
  /\ pending' = pending \cup {hjob[h]}
  /\ Answer(h)
  /\ UNCHANGED <<idem, lease, threads, origin, faults>>

-----------------------------------------------------------------------------
(* The worker's main thread: worker_loop *)

\* The reap interval has not elapsed.
SkipReap(w) ==
  /\ pc[w] = "loop"
  /\ Goto(w, "admit")
  /\ UNCHANGED <<redis, request, cur, todo, cands, retries, origin, faults>>

\* A reaper that takes every lease for an expired one.
ReapAnyLease(w) ==
  /\ pc[w] = "loop"
  /\ todo' = [todo EXCEPT ![w] = {j \in Jobs : lease[j] # "none"}]
  /\ Goto(w, "reap")
  /\ UNCHANGED <<redis, request, cur, cands, retries, origin, faults>>

\* reap_expired_leases: ZRANGEBYSCORE leases 0 now.
ReapBegin(w) ==
  /\ pc[w] = "loop"
  /\ todo' = [todo EXCEPT ![w] = Expired]
  /\ Goto(w, "reap")
  /\ UNCHANGED <<redis, request, cur, cands, retries, origin, faults>>

\* requeue_job on the next expired id: SET the record back to queued.
ReapNext(w) ==
  /\ pc[w] = "reap"
  /\ \E j \in todo[w] :
       /\ status' = [status EXCEPT ![j] = "queued"]
       /\ todo' = [todo EXCEPT ![w] = @ \ {j}]
       /\ GotoWith(w, "rq_unlease", j)
  /\ UNCHANGED <<idem, payload, pending, lease, request, cands, retries, origin, faults>>

ReapEnd(w) ==
  /\ pc[w] = "reap" /\ todo[w] = {}
  /\ Goto(w, "admit")
  /\ UNCHANGED <<redis, request, cur, todo, cands, retries, origin, faults>>

\* len(in_flight) >= CONCURRENCY, or SMEMBERS pending is empty: sleep.
Sleep(w) ==
  /\ pc[w] = "admit"
  /\ Idle(w) = {} \/ pending = {}
  /\ Goto(w, "loop")
  /\ UNCHANGED <<redis, request, cur, todo, cands, retries, origin, faults>>

\* claim_next_job: SMEMBERS pending.
ClaimBegin(w) ==
  /\ pc[w] = "admit"
  /\ Idle(w) # {} /\ pending # {}
  /\ todo' = [todo EXCEPT ![w] = pending]
  /\ cands' = [cands EXCEPT ![w] = {}]
  /\ Goto(w, "scan")
  /\ UNCHANGED <<redis, request, cur, retries, origin, faults>>

\* GET the record of one pending id: a candidate if queued, stale otherwise.
ClaimRead(w) ==
  /\ pc[w] = "scan"
  /\ \E j \in todo[w] :
       /\ todo' = [todo EXCEPT ![w] = @ \ {j}]
       /\ \/ /\ status[j] = "queued"
             /\ cands' = [cands EXCEPT ![w] = @ \cup {j}]
             /\ UNCHANGED <<pc, cur>>
          \/ /\ status[j] # "queued"
             /\ GotoWith(w, "drop", j)
             /\ UNCHANGED cands
  /\ UNCHANGED <<redis, request, retries, origin, faults>>

\* SREM of an id found not queued.
ClaimDrop(w) ==
  /\ pc[w] = "drop"
  /\ pending' = pending \ {cur[w]}
  /\ GotoWith(w, "scan", NoJob)
  /\ UNCHANGED <<idem, status, payload, lease, request, todo, cands, retries, origin, faults>>

ClaimNone(w) ==
  /\ pc[w] = "scan" /\ todo[w] = {} /\ cands[w] = {}
  /\ Goto(w, "loop")
  /\ UNCHANGED <<redis, request, cur, todo, cands, retries, origin, faults>>

\* A claim that ignores what SREM returned.
TakeUnchecked(w) ==
  /\ pc[w] = "scan" /\ todo[w] = {}
  /\ \E j \in cands[w] :
       /\ pending' = pending \ {j}
       /\ GotoWith(w, "mark", j)
  /\ cands' = [cands EXCEPT ![w] = {}]
  /\ UNCHANGED <<idem, status, payload, lease, request, todo, retries, origin, faults>>

\* SREM of the chosen candidate; whoever removes it owns it, and a claim that
\* removed nothing gives up.
ClaimTake(w) ==
  /\ pc[w] = "scan" /\ todo[w] = {}
  /\ \E j \in cands[w] :
       \/ /\ j \in pending
          /\ pending' = pending \ {j}
          /\ GotoWith(w, "mark", j)
       \/ /\ j \notin pending
          /\ Goto(w, "loop")
          /\ UNCHANGED <<pending, cur>>
  /\ cands' = [cands EXCEPT ![w] = {}]
  /\ UNCHANGED <<idem, status, payload, lease, request, todo, retries, origin, faults>>

\* SET the record read earlier, now running.
ClaimMark(w) ==
  /\ pc[w] = "mark"
  /\ status' = [status EXCEPT ![cur[w]] = "running"]
  /\ Goto(w, "lease")
  /\ UNCHANGED <<idem, payload, pending, lease, request, cur, todo, cands, retries, origin, faults>>

\* A claim that never registers its lease.
ClaimUnleased(w) ==
  /\ pc[w] = "lease"
  /\ Goto(w, "launch")
  /\ UNCHANGED <<redis, request, cur, todo, cands, retries, origin, faults>>

\* ZADD leases now + LEASE_SECONDS.
ClaimLease(w) ==
  /\ pc[w] = "lease"
  /\ lease' = [lease EXCEPT ![cur[w]] = "held"]
  /\ Goto(w, "launch")
  /\ UNCHANGED <<idem, status, payload, pending, request, cur, todo, cands, retries, origin, faults>>

\* pool.submit(execute_job): a free pool thread starts on the job.
Launch(w) ==
  /\ pc[w] = "launch"
  /\ \E e \in Idle(w) :
       /\ pc' = [pc EXCEPT ![w] = "loop", ![e] = "load"]
       /\ cur' = [cur EXCEPT ![w] = NoJob, ![e] = cur[w]]
  /\ UNCHANGED <<redis, request, todo, cands, retries, origin, faults>>

\* Leaving worker_loop waits for the pool threads (the executor's __exit__);
\* the container then restarts the process with an empty _retry_counts.
Restart(w) ==
  /\ pc[w] = "draining"
  /\ Idle(w) = PoolOf(w)
  /\ Goto(w, "loop")
  /\ retries' = [retries EXCEPT ![w] = [j \in Jobs |-> 0]]
  /\ UNCHANGED <<redis, request, cur, todo, cands, origin, faults>>

-----------------------------------------------------------------------------
(* Pool threads: execute_job *)

\* A retry that is not counted.
RetryUncounted(e) ==
  /\ Goto(e, "rq_save")
  /\ UNCHANGED retries

\* One retry too many.
RetryOneMore(e) ==
  LET j == cur[e]  used == retries[Owner[e]][j] IN
  IF used <= MaxRetries
  THEN /\ retries' = [retries EXCEPT ![Owner[e]][j] = used + 1]
       /\ Goto(e, "rq_save")
  ELSE /\ Goto(e, "ko_save")
       /\ UNCHANGED retries

\* The except clause for a retryable error: requeue while retries remain.
RetryOrFail(e) ==
  LET j == cur[e]  used == retries[Owner[e]][j] IN
  IF used < MaxRetries
  THEN /\ retries' = [retries EXCEPT ![Owner[e]][j] = used + 1]
       /\ Goto(e, "rq_save")
  ELSE /\ Goto(e, "ko_save")
       /\ UNCHANGED retries

\* GET job-payload; a missing payload raises RuntimeError, which is retryable.
Load(e) ==
  /\ pc[e] = "load"
  /\ \/ /\ cur[e] \in payload
        /\ Goto(e, "call")
        /\ UNCHANGED retries
     \/ /\ cur[e] \notin payload
        /\ RetryOrFail(e)
  /\ UNCHANGED <<redis, request, cur, todo, cands, origin, faults>>

\* POST /v1/chat/completions answered: a result, an error worth a retry
\* (408, 429, 5xx, timeout, transport) or any other 4xx.
Call(e) ==
  /\ pc[e] = "call"
  /\ \/ Goto(e, "ok_save") /\ UNCHANGED retries
     \/ RetryOrFail(e)
     \/ Goto(e, "ko_save") /\ UNCHANGED retries
  /\ UNCHANGED <<redis, request, cur, todo, cands, origin, faults>>

\* complete_job and fail_job: SET the record with its final status.
SaveResult(e) ==
  /\ \/ /\ pc[e] = "ok_save"
        /\ status' = [status EXCEPT ![cur[e]] = "completed"]
        /\ Goto(e, "ok_unlease")
     \/ /\ pc[e] = "ko_save"
        /\ status' = [status EXCEPT ![cur[e]] = "failed"]
        /\ Goto(e, "ko_unlease")
  /\ UNCHANGED <<idem, payload, pending, lease, request, cur, todo, cands, retries, origin, faults>>

\* A requeue that keeps the lease of the execution it ends.
UnleaseNothing(t) ==
  /\ \/ pc[t] = "ok_unlease" /\ Goto(t, "ok_clear")
     \/ pc[t] = "ko_unlease" /\ Goto(t, "ko_clear")
     \/ pc[t] = "rq_unlease" /\ Goto(t, "rq_add")
  /\ UNCHANGED <<redis, request, cur, todo, cands, retries, origin, faults>>

\* ZREM leases, the second command of complete_job, fail_job and requeue_job.
Unlease(t) ==
  /\ \/ pc[t] = "ok_unlease" /\ Goto(t, "ok_clear")
     \/ pc[t] = "ko_unlease" /\ Goto(t, "ko_clear")
     \/ pc[t] = "rq_unlease" /\ Goto(t, "rq_add")
  /\ lease' = [lease EXCEPT ![cur[t]] = "none"]
  /\ UNCHANGED <<idem, status, payload, pending, request, cur, todo, cands, retries, origin, faults>>

\* DEL job-payload, the last command of complete_job and fail_job.
ClearPayload(e) ==
  /\ pc[e] \in {"ok_clear", "ko_clear"}
  /\ payload' = payload \ {cur[e]}
  /\ GotoWith(e, "free", NoJob)
  /\ UNCHANGED <<idem, status, pending, lease, request, todo, cands, retries, origin, faults>>

\* A requeue that cleans up like fail_job does.
RequeueClearsPayload(e) ==
  /\ pc[e] = "rq_save"
  /\ status' = [status EXCEPT ![cur[e]] = "queued"]
  /\ payload' = payload \ {cur[e]}
  /\ Goto(e, "rq_unlease")
  /\ UNCHANGED <<idem, pending, lease, request, cur, todo, cands, retries, origin, faults>>

\* requeue_job on the retry path: SET the record back to queued.
RequeueSave(e) ==
  /\ pc[e] = "rq_save"
  /\ status' = [status EXCEPT ![cur[e]] = "queued"]
  /\ Goto(e, "rq_unlease")
  /\ UNCHANGED <<idem, payload, pending, lease, request, cur, todo, cands, retries, origin, faults>>

\* SADD pending, the last command of requeue_job.
RequeueAdd(t) ==
  /\ pc[t] = "rq_add"
  /\ pending' = pending \cup {cur[t]}
  /\ GotoWith(t, IF t \in Workers THEN "reap" ELSE "free", NoJob)
  /\ UNCHANGED <<idem, status, payload, lease, request, todo, cands, retries, origin, faults>>

-----------------------------------------------------------------------------
(* Time and faults *)

\* The score of a lease falls into the past.  With LeaseCoversJob it does so
\* only when no live thread is still executing under that lease.
LeaseExpires(j) ==
  /\ lease[j] = "held"
  /\ LeaseCoversJob => \A t \in Threads : ~Holds(t, j)
  /\ lease' = [lease EXCEPT ![j] = "expired"]
  /\ UNCHANGED <<idem, status, payload, pending, request, threads, origin, faults>>

Fault(kind) == /\ kind \in FaultKinds
               /\ faults < MaxFaults
               /\ faults' = faults + 1

\* A submit request ends between two commands: the API process restarts, or
\* Redis fails the next command.
RequestDies(h) ==
  /\ Fault("request")
  /\ hpc[h] # "idle"
  /\ Answer(h)
  /\ UNCHANGED <<redis, threads, origin>>

\* The worker process is killed between any two commands and restarted.
Crash(w) ==
  LET gone == {w} \cup PoolOf(w) IN
  /\ Fault("crash")
  /\ pc' = [t \in Threads |-> IF t = w THEN "loop" ELSE IF t \in gone THEN "free" ELSE pc[t]]
  /\ cur' = [t \in Threads |-> IF t \in gone THEN NoJob ELSE cur[t]]
  /\ todo' = [todo EXCEPT ![w] = {}]
  /\ cands' = [cands EXCEPT ![w] = {}]
  /\ retries' = [retries EXCEPT ![w] = [j \in Jobs |-> 0]]
  /\ UNCHANGED <<redis, request, origin>>

\* SIGTERM: the loop condition fails at the start of the next iteration.
Shutdown(w) ==
  /\ Fault("sigterm")
  /\ pc[w] = "loop"
  /\ Goto(w, "draining")
  /\ UNCHANGED <<redis, request, cur, todo, cands, retries, origin>>

\* A Redis command of the main thread raises; nothing catches it before the
\* pool's __exit__.
MainRedisError(w) ==
  /\ Fault("redis")
  /\ pc[w] # "draining"
  /\ GotoWith(w, "draining", NoJob)
  /\ todo' = [todo EXCEPT ![w] = {}]
  /\ cands' = [cands EXCEPT ![w] = {}]
  /\ UNCHANGED <<redis, request, retries, origin>>

\* A Redis command in execute_job's try block raises.  It is handled like a
\* failed call, also when complete_job had already saved the result.  The
\* failed DEL may have been carried out and only its reply lost.
ExecRedisError(e) ==
  /\ Fault("redis")
  /\ pc[e] \in {"load"} \cup CompletePC
  /\ RetryOrFail(e)
  /\ \/ UNCHANGED payload
     \/ pc[e] = "ok_clear" /\ payload' = payload \ {cur[e]}
  /\ UNCHANGED <<idem, status, pending, lease, request, cur, todo, cands, origin>>

\* A Redis command of the except clause raises: the future keeps the
\* exception and the thread is free.
ExceptRedisError(e) ==
  /\ Fault("redis")
  /\ pc[e] \in FailPC \cup RequeuePC
  /\ GotoWith(e, "free", NoJob)
  /\ UNCHANGED <<redis, request, todo, cands, retries, origin>>

-----------------------------------------------------------------------------
HandlerStep(h) == LookUp(h) \/ ReadExisting(h) \/ Repoint(h) \/ Commit(h)

ReapStep(w)  == ReapNext(w) \/ ReapEnd(w)
ClaimStep(w) == \/ Sleep(w) \/ ClaimBegin(w) \/ ClaimRead(w) \/ ClaimDrop(w)
                \/ ClaimNone(w) \/ ClaimTake(w) \/ ClaimMark(w) \/ ClaimLease(w)
                \/ Launch(w)

MainStep(w) == \/ SkipReap(w) \/ ReapBegin(w) \/ ReapStep(w) \/ ClaimStep(w)
               \/ Unlease(w) \/ RequeueAdd(w) \/ Restart(w)

ExecStep(e) == \/ Load(e) \/ Call(e) \/ SaveResult(e) \/ ClearPayload(e)
               \/ RequeueSave(e) \/ Unlease(e) \/ RequeueAdd(e)

FaultStep == \/ \E h \in Handlers : RequestDies(h)
             \/ \E w \in Workers : Crash(w) \/ Shutdown(w) \/ MainRedisError(w)
             \/ \E e \in Executors : ExecRedisError(e) \/ ExceptRedisError(e)

Next == \/ \E h \in Handlers : HandlerStep(h) \/ \E k \in Keys : Reserve(h, k)
        \/ \E w \in Workers : MainStep(w)
        \/ \E e \in Executors : ExecStep(e)
        \/ \E j \in Jobs : LeaseExpires(j)
        \/ FaultStep

\* Threads are scheduled, the HTTP client's timeouts end every call, the clock
\* advances past every lease, and the reap interval elapses again and again.
Fairness ==
  /\ \A h \in Handlers : WF_vars(HandlerStep(h))
  /\ \A w \in Workers : WF_vars(MainStep(w)) /\ SF_vars(ReapBegin(w))
  /\ \A e \in Executors : WF_vars(ExecStep(e))
  /\ \A j \in Jobs : WF_vars(LeaseExpires(j))

Spec == Init /\ [][Next]_vars
FairSpec == Spec /\ Fairness

-----------------------------------------------------------------------------
(* Properties *)

\* Two threads never execute the same job: what the checked SREM of
\* claim_next_job and the lease are for.
OneLiveExecution ==
  \A e1, e2 \in Executors : cur[e1] # NoJob /\ cur[e1] = cur[e2] => e1 = e2

\* A job waiting in the pending set belongs to nobody: its record says queued,
\* it has no lease, and no thread is executing or claiming it.  So a claim
\* never finds a stale entry, and the reaper never touches a waiting job.
WaitingJobsAreUnowned ==
  \A j \in pending :
    /\ status[j] = "queued"
    /\ lease[j] = "none"
    /\ \A t \in Threads : ~Holds(t, j)

\* A job that may still be executed has its execution payload: complete_job
\* and fail_job delete it last, requeue_job keeps it.
UnfinishedJobsHavePayload ==
  \A j \in Jobs : status[j] \in Unfinished => j \in payload

\* Somebody still answers for j: it is finished, waiting, leased, or a live
\* thread is between two of its commands.
Tracked(j) ==
  \/ status[j] \notin Unfinished
  \/ j \in pending
  \/ lease[j] # "none"
  \/ \E t \in Threads : Holds(t, j)

\* Without a fault no job is ever stranded: every unfinished job will be found
\* by a claim or by the reaper, or a live thread is working on it.  And a fault
\* strands only a job whose thread it stops between the SREM and the ZADD of a
\* claim, or in a requeue whose lease is already gone (by its own ZREM, or by
\* that of a complete_job whose last command failed); one that strikes at any
\* other command leaves the job to the reaper.
StrandedOnlyInWindow ==
  [][\A j \in Jobs : Tracked(j) /\ ~Tracked(j)' =>
       /\ faults' # faults
       /\ \E t \in Threads : /\ cur[t] = j /\ cur'[t] # j
                             /\ pc[t] \in {"mark", "lease", "rq_unlease", "rq_add"}]_vars

\* A job record that says completed or failed keeps saying so: no requeue,
\* claim or late thread overwrites it.
FinalIsFinal ==
  [][\A j \in Jobs : status[j] \in Terminal => status'[j] = status[j]]_vars

\* An idempotency key enqueues one job, however often it is submitted.
OneJobPerKey ==
  \A j1, j2 \in Jobs :
    /\ status[j1] # "absent" /\ status[j2] # "absent"
    /\ origin[j1] = origin[j2]
    => j1 = j2

\* Every accepted job is completed or failed in the end, however workers are
\* killed and restarted and forget their retry counters: the reaper gets to
\* the lease of every dead execution.  The only exception is a job stranded by
\* a kill; StrandedOnlyInWindow says when that can happen.
EveryJobFinishes ==
  \A j \in Jobs : status[j] = "queued" ~> status[j] \in Terminal \/ ~Tracked(j)

=============================================================================
