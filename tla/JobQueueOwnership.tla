------------------------- MODULE JobQueueOwnership -------------------------
(***************************************************************************)
(* Why a job has at most one owner in the deployed configuration: one      *)
(* worker process, with any number of pool threads, whose leases outlive   *)
(* the executions they were taken for.  Crashes, restarts and failing      *)
(* Redis commands are allowed, as many as one likes.                       *)
(* What these faults may cost, and what several workers may share while    *)
(* nothing fails, is the subject of the later parts.                       *)
(***************************************************************************)
EXTENDS JobQueueProofs

\* deploy/automation.yaml: replicas 1 and strategy Recreate.
SoleWorker == \A w1, w2 \in Workers : w1 = w2

Deployed == SoleWorker /\ LeaseCoversJob

\* The id of a request about to commit is new, and no other request's.
NewJobsAreUnused ==
  /\ \A j \in Jobs : origin[j] = NoKey => status[j] = "absent"
  /\ \A j \in Jobs : status[j] = "absent" =>
       /\ j \notin pending
       /\ lease[j] = "none"
       /\ \A t \in Threads : cur[t] # j
  /\ \A h \in Handlers : hpc[h] = "commit" =>
       /\ status[hjob[h]] = "absent"
       /\ origin[hjob[h]] # NoKey
  /\ \A h1, h2 \in Handlers :
       hpc[h1] = "commit" /\ hpc[h2] = "commit" /\ hjob[h1] = hjob[h2] => h1 = h2

\* No two threads are inside an operation on the same job.
OneHolder ==
  \A t1, t2 \in Threads : cur[t1] # NoJob /\ cur[t1] = cur[t2] => t1 = t2

\* A waiting job is queued, unleased and in nobody's hands.
WaitingFree ==
  \A j \in pending :
    /\ status[j] = "queued"
    /\ lease[j] = "none"
    /\ \A t \in Threads : cur[t] # j

\* An expired lease is not that of a running execution, so what the reaper has
\* still to visit is in nobody's hands.
ExpiredFree ==
  /\ \A j \in Jobs : lease[j] = "expired" => \A e \in Executors : cur[e] # j
  /\ \A w \in Workers : pc[w] \in {"reap", "rq_unlease", "rq_add"} =>
       \A j \in todo[w] : lease[j] = "expired" /\ cur[w] # j

\* Whatever a claim is scanning is still waiting, so no entry is stale.
ScanFresh ==
  \A w \in Workers :
    /\ pc[w] = "scan" => todo[w] \subseteq pending /\ cands[w] \subseteq pending
    /\ pc[w] # "drop"

\* The lease and status of a job between two commands of a claim or a requeue.
HandedOver ==
  /\ \A w \in Workers :
       /\ pc[w] \in {"mark", "lease"} => lease[cur[w]] = "none"
       /\ pc[w] = "launch" => lease[cur[w]] # "expired"
  /\ \A t \in Threads :
       /\ pc[t] \in {"rq_unlease", "rq_add"} => status[cur[t]] = "queued"
       /\ pc[t] = "rq_add" => lease[cur[t]] = "none"

Ownership ==
  /\ NewJobsAreUnused
  /\ OneHolder
  /\ WaitingFree
  /\ ExpiredFree
  /\ ScanFresh
  /\ HandedOver

USE QueueAssumption DEF Threads, redis, request, threads

LEMMA OwnershipInit == Init => Ownership
  BY DEF Init, Ownership, NewJobsAreUnused, OneHolder, WaitingFree, ExpiredFree, ScanFresh, HandedOver

LEMMA OwnershipHandler ==
  ASSUME Deployed, TypeInv, Ownership, NEW h \in Handlers, HandlerStep(h)
  PROVE  Ownership'
<1> USE DEF Ownership, NewJobsAreUnused, OneHolder, WaitingFree, ExpiredFree, ScanFresh, HandedOver,
            TypeInv, RequestTypes, StoreTypes, ThreadTypes, LocalTypes, Goto, GotoWith
<1>1. CASE LookUp(h)
  BY <1>1 DEF LookUp
<1>2. CASE ReadExisting(h)
  <2>1. /\ hpc[h] = "read" /\ hpc'[h] \in {"idle", "repoint"}
        /\ \A g \in Handlers : g # h => hpc'[g] = hpc[g] /\ hjob'[g] = hjob[g]
    BY <1>2 DEF ReadExisting, Answer
  <2>2. UNCHANGED <<redis, threads, origin, faults>>
    BY <1>2 DEF ReadExisting
  <2>3. NewJobsAreUnused'
    BY <2>1, <2>2
  <2>4. OneHolder' /\ WaitingFree' /\ ExpiredFree'
    BY <2>2
  <2>5. ScanFresh' /\ HandedOver'
    BY <2>2
  <2> QED
    BY <2>3, <2>4, <2>5
<1>3. CASE Repoint(h)
  BY <1>3 DEF Repoint, Fresh
<1>4. CASE Commit(h)
  BY <1>4 DEF Commit, Answer
<1> QED
  BY <1>1, <1>2, <1>3, <1>4 DEF HandlerStep

LEMMA OwnershipMain ==
  ASSUME Deployed, TypeInv, Ownership, NEW w \in Workers, MainStep(w)
  PROVE  Ownership'
<1> USE DEF Ownership, NewJobsAreUnused, OneHolder, WaitingFree, ExpiredFree, ScanFresh, HandedOver,
            TypeInv, RequestTypes, StoreTypes, ThreadTypes, LocalTypes, Goto, GotoWith
<1>1. CASE SkipReap(w)
  BY <1>1 DEF SkipReap
<1>2. CASE ReapBegin(w)
  BY <1>2 DEF ReapBegin, Expired
<1>3. CASE ReapNext(w)
  <2>1. PICK j \in todo[w] :
          /\ status' = [status EXCEPT ![j] = "queued"]
          /\ todo' = [todo EXCEPT ![w] = @ \ {j}]
          /\ GotoWith(w, "rq_unlease", j)
    BY <1>3, Zenon DEF ReapNext
  <2>2. /\ pc[w] = "reap" /\ j \in Jobs /\ j # NoJob
        /\ UNCHANGED <<idem, payload, pending, lease, request, cands, retries, origin, faults>>
    BY <1>3, <2>1 DEF ReapNext
  <2>3. /\ pc' = [pc EXCEPT ![w] = "rq_unlease"] /\ pc'[w] = "rq_unlease"
        /\ cur' = [cur EXCEPT ![w] = j] /\ cur'[w] = j
        /\ \A t \in Threads : t # w => pc'[t] = pc[t] /\ cur'[t] = cur[t]
        /\ todo'[w] = todo[w] \ {j} /\ \A v \in Workers : v = w
    BY <2>1, <2>2 DEF Deployed, SoleWorker
  <2>4. lease[j] = "expired" /\ (\A e \in Executors : cur[e] # j) /\ status'[j] = "queued"
        /\ \A i \in Jobs : i # j => status'[i] = status[i]
    BY <2>1, <2>2
  <2>5. \A t \in Threads : cur[t] # j
    BY <2>2, <2>3, <2>4
  <2>6. status[j] # "absent" /\ j \notin pending
    BY <2>2, <2>4
  <2>7. NewJobsAreUnused'
    BY <2>2, <2>3, <2>4, <2>6
  <2>8. OneHolder'
    BY <2>3, <2>5
  <2>9. WaitingFree'
    BY <2>2, <2>3, <2>4, <2>6
  <2>10. ExpiredFree'
    BY <2>2, <2>3, <2>4, <2>5
  <2>11. ScanFresh' /\ HandedOver'
    BY <2>1, <2>2, <2>3, <2>4, <2>5
  <2> QED
    BY <2>7, <2>8, <2>9, <2>10, <2>11
<1>4. CASE ReapEnd(w)
  BY <1>4 DEF ReapEnd
<1>5. CASE Sleep(w)
  BY <1>5 DEF Sleep
<1>6. CASE ClaimBegin(w)
  BY <1>6 DEF ClaimBegin
<1>7. CASE ClaimRead(w)
  BY <1>7 DEF ClaimRead, Deployed, SoleWorker
<1>8. CASE ClaimDrop(w)
  BY <1>8 DEF ClaimDrop
<1>9. CASE ClaimNone(w)
  BY <1>9 DEF ClaimNone
<1>10. CASE ClaimTake(w)
  <2>1. /\ pc[w] = "scan" /\ UNCHANGED <<idem, status, payload, lease, request, todo, retries, origin, faults>>
        /\ cands' = [cands EXCEPT ![w] = {}] /\ cands'[w] = {} /\ \A v \in Workers : v = w
    BY <1>10 DEF ClaimTake, Deployed, SoleWorker
  <2>2. PICK j \in cands[w] :
          \/ j \in pending /\ pending' = pending \ {j} /\ GotoWith(w, "mark", j)
          \/ j \notin pending /\ Goto(w, "loop") /\ UNCHANGED <<pending, cur>>
    BY <1>10, Zenon DEF ClaimTake
  <2>3. j \in pending /\ j \in Jobs /\ j # NoJob
    BY <2>1
  <2>4. /\ pending' = pending \ {j}
        /\ pc' = [pc EXCEPT ![w] = "mark"] /\ pc'[w] = "mark"
        /\ cur' = [cur EXCEPT ![w] = j] /\ cur'[w] = j
        /\ \A t \in Threads : t # w => pc'[t] = pc[t] /\ cur'[t] = cur[t]
    BY <2>2, <2>3
  <2>5. status[j] = "queued" /\ lease[j] = "none" /\ \A t \in Threads : cur[t] # j
    BY <2>3
  <2>6. NewJobsAreUnused'
    BY <2>1, <2>3, <2>4, <2>5
  <2>7. OneHolder'
    BY <2>4, <2>5
  <2>8. WaitingFree'
    BY <2>1, <2>3, <2>4
  <2>9. \A i \in Jobs : lease'[i] = "expired" => \A e \in Executors : cur'[e] # i
    BY <2>1, <2>4, <2>5
  <2>10. ExpiredFree'
    BY <2>1, <2>4, <2>9
  <2>11. ScanFresh'
    BY <2>1, <2>4
  <2>12. HandedOver'
    BY <2>1, <2>4, <2>5
  <2> QED
    BY <2>6, <2>7, <2>8, <2>10, <2>11, <2>12
<1>11. CASE ClaimMark(w)
  BY <1>11 DEF ClaimMark
<1>12. CASE ClaimLease(w)
  BY <1>12 DEF ClaimLease
<1>13. CASE Launch(w)
  <2>1. PICK e \in Idle(w) : /\ pc' = [pc EXCEPT ![w] = "loop", ![e] = "load"]
                           /\ cur' = [cur EXCEPT ![w] = NoJob, ![e] = cur[w]]
    BY <1>13, Zenon DEF Launch
  <2>2. /\ pc[w] = "launch" /\ e \in Executors /\ pc[e] = "free" /\ e # w
        /\ UNCHANGED <<redis, request, todo, cands, retries, origin, faults>>
    BY <1>13 DEF Launch, Idle, PoolOf
  <2>3. /\ pc'[w] = "loop" /\ pc'[e] = "load" /\ cur'[w] = NoJob /\ cur'[e] = cur[w]
        /\ \A t \in Threads : t # w /\ t # e => pc'[t] = pc[t] /\ cur'[t] = cur[t]
    BY <2>1, <2>2
  <2>4. \A t \in Threads : cur'[t] # NoJob =>
          \E u \in Threads : cur'[t] = cur[u] /\ (t = u \/ (t = e /\ u = w))
    BY <2>2, <2>3
  <2>5. cur[w] \in Jobs /\ lease[cur[w]] # "expired"
    BY <2>2 
  <2>6. NewJobsAreUnused' /\ WaitingFree'
    BY <2>2, <2>4
  <2>7. OneHolder'
    BY <2>2, <2>3
  <2>8. ExpiredFree'
    BY <2>2, <2>3, <2>5
  <2>9. /\ pc'[e] = "load" /\ \A t \in Threads : t # e /\ pc'[t] # "loop" => pc'[t] = pc[t] /\ cur'[t] = cur[t]
    BY <2>3
  <2>10. ScanFresh'
    BY <2>2, <2>9
  <2>11. \A v \in Workers :
           /\ pc'[v] \in {"mark", "lease"} => lease'[cur'[v]] = "none"
           /\ pc'[v] = "launch" => lease'[cur'[v]] # "expired"
    BY <2>2, <2>9
  <2>12. \A t \in Threads :
           /\ pc'[t] \in {"rq_unlease", "rq_add"} => status'[cur'[t]] = "queued"
           /\ pc'[t] = "rq_add" => lease'[cur'[t]] = "none"
    BY <2>2, <2>9
  <2>13. HandedOver'
    BY <2>11, <2>12
  <2> QED
    BY <2>6, <2>7, <2>8, <2>10, <2>13
<1>14. CASE Unlease(w)
  <2>1. /\ pc[w] = "rq_unlease" /\ pc' = [pc EXCEPT ![w] = "rq_add"]
        /\ lease' = [lease EXCEPT ![cur[w]] = "none"]
        /\ UNCHANGED <<idem, status, payload, pending, request, cur, todo, cands, retries, origin, faults>>
    BY <1>14 DEF Unlease, MainPC
  <2>2. /\ pc'[w] = "rq_add" /\ \A t \in Threads : t # w => pc'[t] = pc[t]
        /\ cur[w] \in Jobs /\ lease'[cur[w]] = "none"
        /\ \A j \in Jobs : j # cur[w] => lease'[j] = lease[j]
        /\ \A v \in Workers : v = w
    BY <2>1 DEF Deployed, SoleWorker
  <2>3. NewJobsAreUnused' /\ OneHolder' /\ WaitingFree'
    BY <2>1, <2>2
  <2>4. \A j \in todo[w] : j \in Jobs /\ lease[j] = "expired" /\ cur[w] # j
    BY <2>1
  <2>5. ExpiredFree'
    BY <2>1, <2>2, <2>4
  <2>6. ScanFresh' /\ HandedOver'
    BY <2>1, <2>2
  <2> QED
    BY <2>3, <2>5, <2>6
<1>15. CASE RequeueAdd(w)
  BY <1>15 DEF RequeueAdd
<1>16. CASE Restart(w)
  BY <1>16 DEF Restart
<1> QED
  BY <1>1, <1>2, <1>3, <1>4, <1>5, <1>6, <1>7, <1>8, <1>9, <1>10, <1>11, <1>12, <1>13, <1>14, <1>15, <1>16 DEF MainStep, ReapStep, ClaimStep

LEMMA OwnershipExec ==
  ASSUME Deployed, TypeInv, Ownership, NEW e \in Executors, ExecStep(e)
  PROVE  Ownership'
<1> USE DEF Ownership, NewJobsAreUnused, OneHolder, WaitingFree, ExpiredFree, ScanFresh, HandedOver,
            TypeInv, RequestTypes, StoreTypes, ThreadTypes, LocalTypes, Goto, GotoWith
<1>1. CASE Load(e)
  BY <1>1 DEF Load, RetryOrFail
<1>2. CASE Call(e)
  BY <1>2 DEF Call, RetryOrFail
<1>3. CASE SaveResult(e)
  BY <1>3 DEF SaveResult
<1>4. CASE ClearPayload(e)
  BY <1>4 DEF ClearPayload
<1>5. CASE RequeueSave(e)
  BY <1>5 DEF RequeueSave
<1>6. CASE Unlease(e)
  BY <1>6 DEF Unlease
<1>7. CASE RequeueAdd(e)
  BY <1>7 DEF RequeueAdd
<1> QED
  BY <1>1, <1>2, <1>3, <1>4, <1>5, <1>6, <1>7 DEF ExecStep

LEMMA OwnershipReserve ==
  ASSUME Deployed, TypeInv, Ownership, NEW h \in Handlers, NEW k \in Keys, Reserve(h, k)
  PROVE  Ownership'
<1> USE DEF Ownership, NewJobsAreUnused, OneHolder, WaitingFree, ExpiredFree, ScanFresh, HandedOver,
            TypeInv, RequestTypes, StoreTypes, ThreadTypes, LocalTypes
<1>1. CASE idem[k] = NoJob
  <2>1. PICK j \in Fresh : /\ idem' = [idem EXCEPT ![k] = j]
                          /\ origin' = [origin EXCEPT ![j] = k]
                          /\ hjob' = [hjob EXCEPT ![h] = j]
    BY <1>1 DEF Reserve
  <2>2. /\ j \in Jobs /\ origin[j] = NoKey /\ hpc' = [hpc EXCEPT ![h] = "commit"]
        /\ UNCHANGED <<status, payload, pending, lease, pc, cur, todo, cands, retries>>
    BY <1>1 DEF Reserve, Fresh
  <2>3. \A g \in Handlers : hpc[g] = "commit" => hjob[g] # j
    BY <2>2
  <2>4. NewJobsAreUnused'
    BY <2>1, <2>2, <2>3
  <2> QED
    BY <2>2, <2>4
<1>2. CASE idem[k] # NoJob
  BY <1>2 DEF Reserve
<1> QED
  BY <1>1, <1>2

\* A lease that covers its job expires only when no thread has the job.
LEMMA LeasedInNobodysHands ==
  ASSUME Deployed, NEW j \in Jobs, LeaseExpires(j), \A t \in Threads : pc[t] # "drop"
  PROVE  \A t \in Threads : cur[t] # j
<1>1. \A t \in Threads : ~Holds(t, j)
  BY Zenon DEF LeaseExpires, Deployed
<1> QED
  BY <1>1, Zenon DEF Holds

LEMMA OwnershipEnvironment ==
  ASSUME Deployed, TypeInv, Ownership, (\E j \in Jobs : LeaseExpires(j)) \/ FaultStep
  PROVE  Ownership'
<1> USE DEF Ownership, NewJobsAreUnused, OneHolder, WaitingFree, ExpiredFree, ScanFresh, HandedOver,
            TypeInv, RequestTypes, StoreTypes, ThreadTypes, LocalTypes, Goto, GotoWith
<1>1. ASSUME NEW j \in Jobs, LeaseExpires(j) PROVE Ownership'
  <2>1. \A t \in Threads : cur[t] # j
    <3>1. \A t \in Threads : pc[t] # "drop"
      BY DEF ExecPC, CompletePC, FailPC, RequeuePC
    <3> QED
      BY <1>1, <3>1, LeasedInNobodysHands
  <2>2. /\ lease[j] = "held" /\ lease' = [lease EXCEPT ![j] = "expired"]
        /\ UNCHANGED <<idem, status, payload, pending, request, threads, origin, faults>>
    BY <1>1 DEF LeaseExpires
  <2> QED
    BY <2>1, <2>2
<1>2. ASSUME NEW h \in Handlers, RequestDies(h) PROVE Ownership'
  BY <1>2 DEF RequestDies, Answer
<1>3. ASSUME NEW w \in Workers, Crash(w) PROVE Ownership'
  BY <1>3 DEF Crash, PoolOf, Deployed, SoleWorker
<1>4. ASSUME NEW w \in Workers, Shutdown(w) PROVE Ownership'
  BY <1>4 DEF Shutdown
<1>5. ASSUME NEW w \in Workers, MainRedisError(w) PROVE Ownership'
  BY <1>5 DEF MainRedisError
<1>6. ASSUME NEW e \in Executors, ExecRedisError(e) PROVE Ownership'
  BY <1>6 DEF ExecRedisError, RetryOrFail
<1>7. ASSUME NEW e \in Executors, ExceptRedisError(e) PROVE Ownership'
  BY <1>7 DEF ExceptRedisError
<1> QED
  BY <1>1, <1>2, <1>3, <1>4, <1>5, <1>6, <1>7 DEF FaultStep

\* The argument of this module: every step of the deployed queue keeps the
\* ownership of its jobs exclusive.
LEMMA OwnershipStep == Deployed /\ TypeInv /\ Ownership /\ [Next]_vars => Ownership'
<1> SUFFICES ASSUME Deployed, TypeInv, Ownership, [Next]_vars PROVE Ownership'
  OBVIOUS
<1>1. CASE UNCHANGED vars
  BY <1>1 DEF vars, Ownership, NewJobsAreUnused, OneHolder, WaitingFree, ExpiredFree, ScanFresh, HandedOver
<1>2. CASE Next
  BY <1>2, OwnershipReserve, OwnershipHandler, OwnershipMain, OwnershipExec, OwnershipEnvironment DEF Next
<1> QED
  BY <1>1, <1>2

LEMMA AlwaysOwned ==
  ASSUME Deployed
  PROVE  Spec => []Ownership
<1>1. Spec => []TypeInv
  BY TypeInvInit, TypeInvStep, PTL DEF Spec
<1>2. TypeInv /\ Ownership /\ [Next]_vars => Ownership'
  BY OwnershipStep
<1> QED
  BY <1>1, <1>2, OwnershipInit, PTL DEF Spec

\* In the deployed configuration no job is ever executed by two pool threads
\* of the worker at once, whatever crashes and Redis failures occur: the claim
\* of redis_store.py takes a job out of the pending set before it leases it,
\* and the reaper puts back only what no thread is executing.
THEOREM ExecutedByOne ==
  ASSUME Deployed
  PROVE  Spec => []OneLiveExecution
<1>1. Ownership => OneLiveExecution
  BY DEF Ownership, OneHolder, OneLiveExecution
<1> QED
  BY <1>1, AlwaysOwned, PTL

\* In the deployed configuration a job in the pending set is queued, unleased
\* and in no thread's hands, so claim_next_job never meets a stale entry.
THEOREM WaitingUnowned ==
  ASSUME Deployed
  PROVE  Spec => []WaitingJobsAreUnowned
<1>1. TypeInv /\ Ownership => WaitingJobsAreUnowned
  BY DEF Ownership, WaitingFree, WaitingJobsAreUnowned, Holds, TypeInv, StoreTypes
<1>2. Spec => []TypeInv
  BY TypeInvInit, TypeInvStep, PTL DEF Spec
<1> QED
  BY <1>1, <1>2, AlwaysOwned, PTL

-----------------------------------------------------------------------------
(* What a fault leaves behind. *)

\* A job that is being executed is leased or was finished before, and one
\* whose result is saved stays finished while the rest of complete_job and
\* fail_job is carried out.
Covered ==
  /\ \A t \in Threads : pc[t] \in {"launch", "load", "call", "ok_save", "ko_save", "rq_save"} =>
       lease[cur[t]] = "held" \/ status[cur[t]] \in Terminal
  /\ \A e \in Executors : pc[e] \in {"ok_unlease", "ok_clear", "ko_unlease", "ko_clear"} =>
       status[cur[e]] \in Terminal
  /\ \A e \in Executors : pc[e] \in {"ok_clear", "ko_clear"} => lease[cur[e]] = "none"

LEMMA CoveredInit == Init => Covered
  BY DEF Init, Covered

LEMMA CoveredRequest ==
  ASSUME TypeInv, Ownership, Covered, NEW h \in Handlers,
         HandlerStep(h) \/ RequestDies(h) \/ \E k \in Keys : Reserve(h, k)
  PROVE  Covered'
<1>1. CASE UNCHANGED <<status, lease, threads>>
  BY <1>1 DEF Covered
<1>2. CASE Commit(h)
  <2>1. /\ hpc[h] = "commit" /\ status' = [status EXCEPT ![hjob[h]] = "queued"]
        /\ UNCHANGED <<lease, threads>>
    BY <1>2 DEF Commit
  <2>2. \A t \in Threads : cur[t] # hjob[h]
    BY <2>1 DEF TypeInv, RequestTypes, Ownership, NewJobsAreUnused
  <2> QED
    BY <2>1, <2>2 DEF Covered, TypeInv, StoreTypes, ThreadTypes
<1> QED
  BY <1>1, <1>2 DEF HandlerStep, LookUp, ReadExisting, Repoint, RequestDies, Reserve

LEMMA CoveredMain ==
  ASSUME Deployed, TypeInv, Ownership, Covered, NEW w \in Workers, MainStep(w)
  PROVE  Covered'
<1> USE DEF Covered, TypeInv, StoreTypes, ThreadTypes, LocalTypes, Goto, GotoWith
<1>1. CASE SkipReap(w) \/ ReapBegin(w) \/ ReapEnd(w) \/ Sleep(w) \/ ClaimBegin(w) \/ ClaimNone(w) \/ Restart(w)
  BY <1>1 DEF SkipReap, ReapBegin, ReapEnd, Sleep, ClaimBegin, ClaimNone, Restart
<1>2. CASE ReapNext(w)
  <2>1. PICK j \in todo[w] :
          /\ status' = [status EXCEPT ![j] = "queued"]
          /\ GotoWith(w, "rq_unlease", j)
    BY <1>2, Zenon DEF ReapNext
  <2>2. pc[w] = "reap" /\ UNCHANGED lease /\ j \in Jobs
    BY <1>2, <2>1 DEF ReapNext
  <2>3. \A t \in Threads : t # w => cur[t] # j
    BY <2>2 DEF Ownership, ExpiredFree, Deployed, SoleWorker
  <2> QED
    BY <2>1, <2>2, <2>3
<1>3. CASE ClaimRead(w)
  BY <1>3 DEF ClaimRead
<1>4. CASE ClaimDrop(w)
  BY <1>4 DEF ClaimDrop
<1>5. CASE ClaimTake(w)
  BY <1>5 DEF ClaimTake
<1>6. CASE ClaimMark(w)
  <2>1. /\ pc[w] = "mark" /\ status' = [status EXCEPT ![cur[w]] = "running"]
        /\ pc' = [pc EXCEPT ![w] = "lease"] /\ UNCHANGED <<lease, cur>>
    BY <1>6 DEF ClaimMark
  <2>2. cur[w] \in Jobs /\ \A t \in Threads : t # w => cur[t] # cur[w]
    BY <2>1 DEF Ownership, OneHolder
  <2> QED
    BY <2>1, <2>2
<1>7. CASE ClaimLease(w)
  <2>1. /\ pc[w] = "lease" /\ lease' = [lease EXCEPT ![cur[w]] = "held"]
        /\ pc' = [pc EXCEPT ![w] = "launch"] /\ UNCHANGED <<status, cur>>
    BY <1>7 DEF ClaimLease
  <2>2. cur[w] \in Jobs /\ \A t \in Threads : t # w => cur[t] # cur[w]
    BY <2>1 DEF Ownership, OneHolder
  <2> QED
    BY <2>1, <2>2
<1>8. CASE Launch(w)
  <2>1. PICK e \in Idle(w) : /\ pc' = [pc EXCEPT ![w] = "loop", ![e] = "load"]
                           /\ cur' = [cur EXCEPT ![w] = NoJob, ![e] = cur[w]]
    BY <1>8, Zenon DEF Launch
  <2>2. pc[w] = "launch" /\ e \in Executors /\ e # w /\ UNCHANGED <<status, lease>>
    BY <1>8 DEF Launch, Idle, PoolOf
  <2>3. /\ pc'[w] = "loop" /\ pc'[e] = "load" /\ cur'[e] = cur[w]
        /\ \A t \in Threads : t # w /\ t # e => pc'[t] = pc[t] /\ cur'[t] = cur[t]
    BY <2>1, <2>2
  <2>4. lease[cur[w]] = "held" \/ status[cur[w]] \in Terminal
    BY <2>2
  <2>5. ASSUME NEW t \in Threads, pc'[t] \in {"launch", "load", "call", "ok_save", "ko_save", "rq_save"}
        PROVE  lease'[cur'[t]] = "held" \/ status'[cur'[t]] \in Terminal
    BY <2>2, <2>3, <2>4, <2>5
  <2>6. ASSUME NEW d \in Executors, pc'[d] \in {"ok_unlease", "ok_clear", "ko_unlease", "ko_clear"}
        PROVE  d # e /\ pc'[d] = pc[d] /\ cur'[d] = cur[d]
    BY <2>2, <2>3, <2>6
  <2> QED
    BY <2>2, <2>5, <2>6
<1>9. CASE Unlease(w)
  <2>1. /\ pc[w] = "rq_unlease" /\ lease' = [lease EXCEPT ![cur[w]] = "none"]
        /\ pc' = [pc EXCEPT ![w] = "rq_add"] /\ UNCHANGED <<status, cur>>
    BY <1>9 DEF Unlease, MainPC
  <2>2. cur[w] \in Jobs /\ \A t \in Threads : t # w => cur[t] # cur[w]
    BY <2>1 DEF Ownership, OneHolder
  <2> QED
    BY <2>1, <2>2
<1>10. CASE RequeueAdd(w)
  BY <1>10 DEF RequeueAdd
<1> QED
  BY <1>1, <1>2, <1>3, <1>4, <1>5, <1>6, <1>7, <1>8, <1>9, <1>10 DEF MainStep, ReapStep, ClaimStep

LEMMA CoveredExec ==
  ASSUME TypeInv, Ownership, Covered, NEW e \in Executors,
         ExecStep(e) \/ ExecRedisError(e) \/ ExceptRedisError(e)
  PROVE  Covered'
<1> USE DEF Covered, TypeInv, StoreTypes, ThreadTypes, Goto, GotoWith
<1>1. pc[e] # "free" => cur[e] \in Jobs /\ \A t \in Threads : t # e => cur[t] # cur[e]
  BY DEF Ownership, OneHolder
<1>2. CASE Load(e) \/ Call(e)
  BY <1>2 DEF Load, Call, RetryOrFail
<1>3. CASE SaveResult(e)
  <2>1. /\ pc[e] \in {"ok_save", "ko_save"} /\ UNCHANGED <<lease, cur>>
        /\ \E s \in Terminal : status' = [status EXCEPT ![cur[e]] = s]
        /\ \E p \in {"ok_unlease", "ko_unlease"} : pc' = [pc EXCEPT ![e] = p]
    BY <1>3 DEF SaveResult, Terminal
  <2>2. status'[cur[e]] \in Terminal /\ \A j \in Jobs : j # cur[e] => status'[j] = status[j]
    BY <1>1, <2>1
  <2>3. pc'[e] \in {"ok_unlease", "ko_unlease"} /\ \A t \in Threads : t # e => pc'[t] = pc[t]
    BY <2>1
  <2> QED
    BY <1>1, <2>1, <2>2, <2>3
<1>4. CASE ClearPayload(e) \/ RequeueAdd(e)
  BY <1>4 DEF ClearPayload, RequeueAdd
<1>5. CASE RequeueSave(e)
  BY <1>1, <1>5 DEF RequeueSave
<1>6. CASE Unlease(e)
  BY <1>1, <1>6 DEF Unlease
<1>7. CASE ExecRedisError(e)
  <2>1. pc[e] \in {"load", "ok_save", "ok_unlease", "ok_clear"} /\ UNCHANGED <<status, lease, cur>>
    BY <1>7 DEF ExecRedisError, CompletePC
  <2>2. pc' = [pc EXCEPT ![e] = "rq_save"] \/ pc' = [pc EXCEPT ![e] = "ko_save"]
    BY <1>7 DEF ExecRedisError, RetryOrFail
  <2> QED
    BY <2>1, <2>2
<1>8. CASE ExceptRedisError(e)
  BY <1>8 DEF ExceptRedisError
<1> QED
  BY <1>2, <1>3, <1>4, <1>5, <1>6, <1>7, <1>8 DEF ExecStep

LEMMA CoveredEnvironment ==
  ASSUME Deployed, TypeInv, Ownership, Covered,
         \/ \E j \in Jobs : LeaseExpires(j)
         \/ \E w \in Workers : Crash(w) \/ Shutdown(w) \/ MainRedisError(w)
  PROVE  Covered'
<1> USE DEF Covered, TypeInv, StoreTypes, ThreadTypes, Goto, GotoWith
<1>1. ASSUME NEW j \in Jobs, LeaseExpires(j) PROVE Covered'
  <2>1. lease' = [lease EXCEPT ![j] = "expired"] /\ lease[j] = "held" /\ UNCHANGED <<status, threads>>
    BY <1>1 DEF LeaseExpires
  <2>2. \A t \in Threads : pc[t] # "drop"
    BY DEF Ownership, ScanFresh, ExecPC, CompletePC, FailPC, RequeuePC
  <2>3. \A t \in Threads : cur[t] # j
    BY <1>1, <2>2, LeasedInNobodysHands
  <2> QED
    BY <2>1, <2>3
<1>2. ASSUME NEW w \in Workers, Crash(w) PROVE Covered'
  BY <1>2 DEF Crash
<1>3. ASSUME NEW w \in Workers, Shutdown(w) \/ MainRedisError(w) PROVE Covered'
  BY <1>3 DEF Shutdown, MainRedisError
<1> QED
  BY <1>1, <1>2, <1>3

LEMMA CoveredStep ==
  ASSUME Deployed, TypeInv, Ownership, Covered, [Next]_vars
  PROVE  Covered'
<1>1. CASE UNCHANGED vars
  BY <1>1 DEF vars, Covered
<1> QED
  BY <1>1, NextIsWorkOrRequest, CoveredRequest, CoveredMain, CoveredExec, CoveredEnvironment DEF WorkStep

LEMMA AlwaysCovered ==
  ASSUME Deployed
  PROVE  Spec => [](TypeInv /\ Ownership /\ Covered)
<1>1. Spec => []TypeInv
  BY TypeInvInit, TypeInvStep, PTL DEF Spec
<1>2. TypeInv /\ Ownership /\ Covered /\ [Next]_vars => Covered'
  BY CoveredStep
<1> QED
  BY <1>1, <1>2, AlwaysOwned, CoveredInit, PTL DEF Spec

\* A thread that has an unfinished job nobody else answers for is at one of
\* four commands: the last two of a claim, or the last two of a requeue.
LEMMA UncoveredInWindow ==
  ASSUME TypeInv, Covered, NEW t \in Threads, NEW j \in Jobs, cur[t] = j, pc[t] # "drop",
         status[j] \in Unfinished, lease[j] = "none"
  PROVE  pc[t] \in {"mark", "lease", "rq_unlease", "rq_add"}
<1>1. status[j] \notin Terminal
  BY DEF Unfinished, Terminal
<1>2. CASE t \in Workers
  BY <1>2, <1>1 DEF TypeInv, ThreadTypes, Covered
<1>3. CASE t \in Executors
  BY <1>3, <1>1 DEF TypeInv, ThreadTypes, Covered, ExecPC, CompletePC, FailPC, RequeuePC
<1> QED
  BY <1>2, <1>3

\* Without a fault, whoever answers for a job hands it on.
LEMMA RequestsKeepTrack ==
  ASSUME NEW h \in Handlers, HandlerStep(h) \/ RequestDies(h) \/ \E k \in Keys : Reserve(h, k),
         TypeInv, NEW j \in Jobs, Tracked(j)
  PROVE  Tracked(j)'
<1>1. UNCHANGED <<lease, threads>> /\ \A t \in Threads : Holds(t, j)' <=> Holds(t, j)
  BY DEF HandlerStep, LookUp, ReadExisting, Repoint, Commit, RequestDies, Reserve, Holds
<1>2. CASE UNCHANGED <<status, pending>>
  BY <1>1, <1>2 DEF Tracked
<1>3. CASE Commit(h)
  BY <1>1, <1>3 DEF Tracked, Commit, TypeInv, StoreTypes, RequestTypes
<1> QED
  BY <1>2, <1>3 DEF HandlerStep, LookUp, ReadExisting, Repoint, RequestDies, Reserve

LEMMA MainKeepsTrack ==
  ASSUME TypeInv, Ownership, NEW w \in Workers, MainStep(w), NEW j \in Jobs, Tracked(j)
  PROVE  Tracked(j)'
<1> USE DEF Tracked, Holds, TypeInv, StoreTypes, ThreadTypes, LocalTypes, Goto, GotoWith
<1>1. CASE SkipReap(w) \/ ReapBegin(w) \/ ReapEnd(w) \/ Sleep(w) \/ ClaimBegin(w) \/ ClaimNone(w) \/ Restart(w)
  BY <1>1 DEF SkipReap, ReapBegin, ReapEnd, Sleep, ClaimBegin, ClaimNone, Restart, MainPC
<1>2. CASE ReapNext(w)
  BY <1>2 DEF ReapNext
<1>3. CASE ClaimRead(w)
  BY <1>3 DEF ClaimRead
<1>4. CASE ClaimDrop(w)
  BY <1>4 DEF ClaimDrop, Ownership, ScanFresh
<1>5. CASE ClaimTake(w)
  BY <1>5 DEF ClaimTake
<1>6. CASE ClaimMark(w)
  BY <1>6 DEF ClaimMark
<1>7. CASE ClaimLease(w)
  BY <1>7 DEF ClaimLease
<1>8. CASE Launch(w)
  BY <1>8 DEF Launch, Idle, PoolOf
<1>9. CASE Unlease(w)
  BY <1>9 DEF Unlease
<1>10. CASE RequeueAdd(w)
  BY <1>10 DEF RequeueAdd
<1> QED
  BY <1>1, <1>2, <1>3, <1>4, <1>5, <1>6, <1>7, <1>8, <1>9, <1>10 DEF MainStep, ReapStep, ClaimStep

LEMMA ExecKeepsTrack ==
  ASSUME TypeInv, Ownership, Covered, NEW e \in Executors, ExecStep(e) \/ ExecRedisError(e),
         NEW j \in Jobs, Tracked(j)
  PROVE  Tracked(j)'
<1> USE DEF Tracked, Holds, TypeInv, StoreTypes, ThreadTypes, Goto, GotoWith
<1>1. CASE Load(e) \/ Call(e)
  BY <1>1 DEF Load, Call, RetryOrFail
<1>2. CASE SaveResult(e)
  BY <1>2 DEF SaveResult
<1>3. CASE ClearPayload(e)
  <2>1. status[cur[e]] \in Terminal
    BY <1>3 DEF ClearPayload, Covered
  <2> QED
    BY <1>3, <2>1 DEF ClearPayload, Terminal, Unfinished
<1>4. CASE RequeueSave(e)
  BY <1>4 DEF RequeueSave
<1>5. CASE Unlease(e)
  BY <1>5 DEF Unlease
<1>6. CASE RequeueAdd(e)
  BY <1>6 DEF RequeueAdd
<1>7. CASE ExecRedisError(e)
  <2>1. UNCHANGED <<status, lease, pending, cur>>
    BY <1>7 DEF ExecRedisError
  <2>2. pc' = [pc EXCEPT ![e] = "rq_save"] \/ pc' = [pc EXCEPT ![e] = "ko_save"]
    BY <1>7 DEF ExecRedisError, RetryOrFail
  <2> QED
    BY <2>1, <2>2
<1> QED
  BY <1>1, <1>2, <1>3, <1>4, <1>5, <1>6, <1>7 DEF ExecStep

\* A kill or a failing command lets go of some threads' jobs, and of nothing
\* else.
LEMMA FaultsLetGo ==
  ASSUME TypeInv, Ownership, Covered, NEW j \in Jobs, Tracked(j), ~Tracked(j)',
         \/ \E w \in Workers : Crash(w) \/ Shutdown(w) \/ MainRedisError(w)
         \/ \E e \in Executors : ExceptRedisError(e)
  PROVE  /\ faults' # faults
         /\ \E t \in Threads : /\ cur[t] = j /\ cur'[t] # j
                               /\ pc[t] \in {"mark", "lease", "rq_unlease", "rq_add"}
<1>1. faults' # faults
  BY DEF Crash, Shutdown, MainRedisError, ExceptRedisError, Fault, TypeInv, FaultTypes
<1>2. UNCHANGED <<status, pending, lease>>
  BY DEF Crash, Shutdown, MainRedisError, ExceptRedisError
<1>3. PICK t \in Threads : Holds(t, j)
  BY <1>2 DEF Tracked
<1>4. status[j] \in Unfinished /\ lease[j] = "none" /\ ~Holds(t, j)'
  BY <1>2, <1>3 DEF Tracked
<1>5. pc[t] \in {"mark", "lease", "rq_unlease", "rq_add"}
  BY <1>3, <1>4, UncoveredInWindow DEF Holds
<1>6. cur'[t] # j
  <2>1. pc'[t] # "drop"
    BY <1>5 DEF Crash, Shutdown, MainRedisError, ExceptRedisError, Goto, GotoWith, TypeInv, ThreadTypes
  <2> QED
    BY <1>4, <2>1 DEF Holds
<1> QED
  BY <1>1, <1>3, <1>5, <1>6 DEF Holds

\* In the deployed configuration, whatever crashes, restarts and failing Redis
\* commands there are, a job is only ever lost track of by a fault that stops
\* its thread between the SREM and the ZADD of claim_next_job, or in a
\* requeue_job whose lease is gone; the reaper finds every other one.
THEOREM StrandedInWindow ==
  ASSUME Deployed
  PROVE  Spec => StrandedOnlyInWindow
<1>1. TypeInv /\ Ownership /\ Covered /\ [Next]_vars =>
        [\A j \in Jobs : Tracked(j) /\ ~Tracked(j)' =>
           /\ faults' # faults
           /\ \E t \in Threads : /\ cur[t] = j /\ cur'[t] # j
                                 /\ pc[t] \in {"mark", "lease", "rq_unlease", "rq_add"}]_vars
  <2> SUFFICES ASSUME TypeInv, Ownership, Covered, Next, NEW j \in Jobs, Tracked(j), ~Tracked(j)'
               PROVE  /\ faults' # faults
                      /\ \E t \in Threads : /\ cur[t] = j /\ cur'[t] # j
                                            /\ pc[t] \in {"mark", "lease", "rq_unlease", "rq_add"}
    OBVIOUS
  <2>1. ASSUME NEW i \in Jobs, LeaseExpires(i) PROVE Tracked(j)'
    BY <2>1 DEF LeaseExpires, Tracked, Holds, TypeInv, StoreTypes
  <2> QED
    BY <2>1, NextIsWorkOrRequest, RequestsKeepTrack, MainKeepsTrack, ExecKeepsTrack, FaultsLetGo DEF WorkStep
<1> QED
  BY <1>1, AlwaysCovered, PTL DEF Spec, StrandedOnlyInWindow

\* The execution payload of a job is gone only when nobody will ask for it
\* any more: the job is finished, unleased, not waiting and in nobody's hands.
Spent ==
  \A j \in Jobs : j \notin payload /\ status[j] # "absent" =>
    /\ status[j] \in Terminal
    /\ lease[j] = "none"
    /\ j \notin pending
    /\ \A t \in Threads : cur[t] # j

LEMMA SpentMain ==
  ASSUME TypeInv, Ownership, Spent, NEW w \in Workers, MainStep(w)
  PROVE  Spent'
<1> USE DEF Spent, TypeInv, StoreTypes, ThreadTypes, LocalTypes, Goto, GotoWith
<1>1. CASE SkipReap(w) \/ ReapBegin(w) \/ ReapEnd(w) \/ Sleep(w) \/ ClaimBegin(w) \/ ClaimNone(w) \/ Restart(w)
  BY <1>1 DEF SkipReap, ReapBegin, ReapEnd, Sleep, ClaimBegin, ClaimNone, Restart
<1>2. CASE ReapNext(w)
  <2>1. PICK j \in todo[w] :
          /\ status' = [status EXCEPT ![j] = "queued"]
          /\ GotoWith(w, "rq_unlease", j)
    BY <1>2, Zenon DEF ReapNext
  <2>2. pc[w] = "reap" /\ UNCHANGED <<payload, lease, pending>> /\ j \in Jobs
    BY <1>2, <2>1 DEF ReapNext
  <2>3. j \in payload
    BY <2>2 DEF Ownership, ExpiredFree, NewJobsAreUnused
  <2> QED
    BY <2>1, <2>2, <2>3
<1>3. CASE ClaimRead(w)
  <2>1. PICK j \in todo[w] : cur' = cur \/ cur' = [cur EXCEPT ![w] = j]
    BY <1>3 DEF ClaimRead
  <2>2. j \in payload
    BY <1>3, <2>1 DEF ClaimRead, Ownership, ScanFresh, WaitingFree
  <2> QED
    BY <1>3, <2>1, <2>2 DEF ClaimRead
<1>4. CASE ClaimDrop(w)
  BY <1>4 DEF ClaimDrop
<1>5. CASE ClaimTake(w)
  BY <1>5 DEF ClaimTake, Ownership, WaitingFree
<1>6. CASE ClaimMark(w)
  BY <1>6 DEF ClaimMark, Ownership, NewJobsAreUnused
<1>7. CASE ClaimLease(w)
  BY <1>7 DEF ClaimLease, Ownership, NewJobsAreUnused
<1>8. CASE Launch(w)
  BY <1>8 DEF Launch, Idle, PoolOf
<1>9. CASE Unlease(w)
  BY <1>9 DEF Unlease
<1>10. CASE RequeueAdd(w)
  BY <1>10 DEF RequeueAdd, Ownership, NewJobsAreUnused
<1> QED
  BY <1>1, <1>2, <1>3, <1>4, <1>5, <1>6, <1>7, <1>8, <1>9, <1>10 DEF MainStep, ReapStep, ClaimStep

LEMMA SpentExec ==
  ASSUME TypeInv, Ownership, Covered, Spent, NEW e \in Executors, ExecStep(e)
  PROVE  Spent'
<1> USE DEF Spent, TypeInv, StoreTypes, ThreadTypes, Goto, GotoWith
<1>1. pc[e] # "free" => cur[e] \in Jobs /\ \A t \in Threads : t # e => cur[t] # cur[e]
  BY DEF Ownership, OneHolder
<1>2. pc[e] # "free" => status[cur[e]] # "absent" /\ cur[e] \notin pending
  BY <1>1 DEF Ownership, NewJobsAreUnused, WaitingFree
<1>3. CASE Load(e) \/ Call(e)
  BY <1>3 DEF Load, Call
<1>4. CASE SaveResult(e) \/ RequeueSave(e)
  <2>1. /\ pc[e] # "free" /\ UNCHANGED <<payload, pending, lease, cur>>
        /\ \A j \in Jobs : j # cur[e] => status'[j] = status[j]
    BY <1>1, <1>4 DEF SaveResult, RequeueSave
  <2> QED
    BY <1>1, <1>2, <2>1
<1>5. CASE ClearPayload(e)
  <2>1. status[cur[e]] \in Terminal /\ lease[cur[e]] = "none"
    BY <1>5 DEF ClearPayload, Covered
  <2>2. /\ pc[e] # "free" /\ payload' = payload \ {cur[e]} /\ cur' = [cur EXCEPT ![e] = NoJob]
        /\ UNCHANGED <<status, pending, lease>>
    BY <1>5 DEF ClearPayload
  <2> QED
    BY <1>1, <1>2, <2>1, <2>2
<1>6. CASE Unlease(e)
  BY <1>6 DEF Unlease
<1>7. CASE RequeueAdd(e)
  BY <1>1, <1>2, <1>7 DEF RequeueAdd
<1> QED
  BY <1>3, <1>4, <1>5, <1>6, <1>7 DEF ExecStep

LEMMA SpentStep ==
  ASSUME TypeInv, Ownership, Covered, Spent, [Next]_vars, "redis" \notin FaultKinds
  PROVE  Spent'
<1> USE DEF Spent, TypeInv, StoreTypes, ThreadTypes, Goto, GotoWith
<1>1. CASE UNCHANGED vars
  BY <1>1 DEF vars
<1>2. ASSUME NEW h \in Handlers, HandlerStep(h) \/ RequestDies(h) \/ \E k \in Keys : Reserve(h, k)
      PROVE  Spent'
  <2>1. CASE Commit(h)
    BY <2>1 DEF Commit, RequestTypes
  <2>2. CASE UNCHANGED <<status, payload, pending, lease, threads>>
    BY <2>2
  <2> QED
    BY <1>2, <2>1, <2>2 DEF HandlerStep, LookUp, ReadExisting, Repoint, RequestDies, Reserve
<1>3. ASSUME NEW j \in Jobs, LeaseExpires(j) PROVE Spent'
  BY <1>3 DEF LeaseExpires
<1>4. ASSUME NEW w \in Workers, Crash(w) \/ Shutdown(w) PROVE Spent'
  BY <1>4 DEF Crash, Shutdown
<1>5. \A w \in Workers, e \in Executors : ~MainRedisError(w) /\ ~ExecRedisError(e) /\ ~ExceptRedisError(e)
  BY DEF MainRedisError, ExecRedisError, ExceptRedisError, Fault
<1> QED
  BY <1>1, <1>2, <1>3, <1>4, <1>5, NextIsWorkOrRequest, SpentMain, SpentExec
     DEF WorkStep, MainRedisError, ExecRedisError, ExceptRedisError, Fault

\* In the deployed configuration, as long as no Redis command fails, a job
\* that may still be executed has its execution payload, however the worker is
\* killed and restarted and however often leases expire and jobs are requeued:
\* complete_job and fail_job delete the payload only when the record says
\* final and the lease is gone.  (A DEL whose reply is lost is the exception:
\* execute_job then requeues a job without payload.)
THEOREM PayloadKept ==
  ASSUME Deployed, "redis" \notin FaultKinds
  PROVE  Spec => []UnfinishedJobsHavePayload
<1>1. Spent => UnfinishedJobsHavePayload
  BY DEF Spent, UnfinishedJobsHavePayload, Unfinished, Terminal
<1>2. Init => Spent
  BY DEF Init, Spent
<1>3. (TypeInv /\ Ownership /\ Covered) /\ Spent /\ [Next]_vars => Spent'
  BY SpentStep
<1> QED
  BY <1>1, <1>2, <1>3, AlwaysCovered, PTL DEF Spec

-----------------------------------------------------------------------------
(* Several workers on one queue, as long as none of them is killed: the      *)
(* checked SREM of a claim is what keeps them apart.                         *)

Undisturbed == LeaseCoversJob /\ "crash" \notin FaultKinds /\ "redis" \notin FaultKinds

\* A request about to commit writes a job of its own.
CommitsNewJobs ==
  /\ \A j \in Jobs : origin[j] = NoKey => status[j] = "absent"
  /\ \A h \in Handlers : hpc[h] = "commit" => status[hjob[h]] = "absent" /\ origin[hjob[h]] # NoKey
  /\ \A h1, h2 \in Handlers :
       hpc[h1] = "commit" /\ hpc[h2] = "commit" /\ hjob[h1] = hjob[h2] => h1 = h2

\* A thread at "drop" looks at a job that another worker may well have.
HeldByOne ==
  \A t1, t2 \in Threads : \A j \in Jobs : Holds(t1, j) /\ Holds(t2, j) => t1 = t2

WaitingUnheld ==
  \A j \in pending : status[j] = "queued" /\ lease[j] = "none" /\ \A t \in Threads : ~Holds(t, j)

\* Nobody dies, so no lease outlives its execution and nothing is reaped.
LeasedHeld ==
  /\ \A j \in Jobs : lease[j] # "none" => lease[j] = "held" /\ \E t \in Threads : Holds(t, j)
  /\ \A w \in Workers : (pc[w] = "reap" => todo[w] = {}) /\ pc[w] \notin {"rq_unlease", "rq_add"}

\* The record of a job says what its holder is doing, and the lease is gone
\* when its holder lets go of it.
RecordFollowsHolder ==
  \A t \in Threads :
    /\ pc[t] \in {"mark", "rq_unlease", "rq_add"} => status[cur[t]] = "queued"
    /\ pc[t] \in {"lease", "launch", "load", "call", "ok_save", "ko_save", "rq_save"} =>
         status[cur[t]] = "running"
    /\ pc[t] \in {"ok_unlease", "ok_clear", "ko_unlease", "ko_clear"} => status[cur[t]] \in Terminal
    /\ pc[t] \in {"mark", "lease", "rq_add", "ok_clear", "ko_clear"} => lease[cur[t]] = "none"

Shared ==
  /\ NewJobsUntouched
  /\ CommitsNewJobs
  /\ HeldByOne
  /\ WaitingUnheld
  /\ LeasedHeld
  /\ RecordFollowsHolder

LEMMA SharedInit == Init => Shared
  BY DEF Init, Shared, NewJobsUntouched, CommitsNewJobs, HeldByOne, WaitingUnheld, LeasedHeld,
         RecordFollowsHolder, Holds

LEMMA SharedRequest ==
  ASSUME TypeInv, Shared, NEW h \in Handlers,
         HandlerStep(h) \/ RequestDies(h) \/ \E k \in Keys : Reserve(h, k)
  PROVE  Shared'
<1> USE DEF TypeInv, RequestTypes, StoreTypes, ThreadTypes, LocalTypes
<1>1. CASE UNCHANGED <<status, pending, lease, threads>>
  <2>1. /\ NewJobsUntouched' /\ HeldByOne' /\ WaitingUnheld' /\ LeasedHeld' /\ RecordFollowsHolder'
    BY <1>1 DEF Shared, NewJobsUntouched, HeldByOne, WaitingUnheld, LeasedHeld, RecordFollowsHolder, Holds
  <2>2. CASE LookUp(h)
    BY <2>1, <2>2 DEF LookUp, Shared, CommitsNewJobs
  <2>3. CASE ReadExisting(h) \/ RequestDies(h)
    <3>1. /\ hpc'[h] # "commit" /\ UNCHANGED <<status, origin>>
          /\ \A g \in Handlers : g # h => hpc'[g] = hpc[g] /\ hjob'[g] = hjob[g]
      BY <2>3 DEF ReadExisting, RequestDies, Answer
    <3> QED
      BY <2>1, <3>1 DEF Shared, CommitsNewJobs
  <2>4. CASE Repoint(h)
    <3>1. PICK j \in Fresh : origin' = [origin EXCEPT ![j] = hkey[h]] /\ hjob' = [hjob EXCEPT ![h] = j]
      BY <2>4 DEF Repoint
    <3>2. /\ hpc[h] = "repoint" /\ hpc' = [hpc EXCEPT ![h] = "commit"] /\ hkey[h] # NoKey
          /\ j \in Jobs /\ origin[j] = NoKey /\ UNCHANGED status
      BY <2>4 DEF Repoint, Fresh
    <3>3. status[j] = "absent" /\ \A g \in Handlers : hpc[g] = "commit" => hjob[g] # j
      BY <3>2 DEF Shared, CommitsNewJobs
    <3>4. CommitsNewJobs'
      BY <3>1, <3>2, <3>3 DEF Shared, CommitsNewJobs
    <3> QED
      BY <2>1, <3>4 DEF Shared
  <2>5. CASE \E k \in Keys : Reserve(h, k)
    <3>1. CASE UNCHANGED <<origin, hjob>> /\ hpc' = [hpc EXCEPT ![h] = "lookup"]
      BY <1>1, <2>1, <3>1 DEF Shared, CommitsNewJobs
    <3>2. CASE \E k \in Keys : \E j \in Fresh :
                 /\ origin' = [origin EXCEPT ![j] = k]
                 /\ hjob' = [hjob EXCEPT ![h] = j]
                 /\ hpc' = [hpc EXCEPT ![h] = "commit"]
      BY <1>1, <2>1, <3>2 DEF Fresh, Shared, CommitsNewJobs
    <3> QED
      BY <2>5, <3>1, <3>2 DEF Reserve
  <2>6. CASE Commit(h)
    BY <1>1, <2>1, <2>6 DEF Commit, Answer, Shared, CommitsNewJobs
  <2> QED
    BY <2>1, <2>2, <2>3, <2>4, <2>5, <2>6 DEF HandlerStep, Shared
<1>2. CASE Commit(h)
  <2> DEFINE j == hjob[h]
  <2>1. /\ hpc[h] = "commit" /\ hpc'[h] = "idle" /\ j \in Jobs
        /\ \A g \in Handlers : g # h => hpc'[g] = hpc[g] /\ hjob'[g] = hjob[g]
        /\ status' = [status EXCEPT ![j] = "queued"] /\ pending' = pending \cup {j}
        /\ UNCHANGED <<origin, lease, threads>>
    BY <1>2 DEF Commit, Answer
  <2>2. status[j] = "absent" /\ origin[j] # NoKey /\ lease[j] = "none" /\ \A t \in Threads : cur[t] # j
    BY <2>1 DEF Shared, CommitsNewJobs, NewJobsUntouched
  <2> HIDE DEF j
  <2>3. NewJobsUntouched'
    BY <2>1 DEF Shared, NewJobsUntouched
  <2>4. \A g \in Handlers : g # h /\ hpc[g] = "commit" => hjob[g] # j
    BY <2>1 DEF Shared, CommitsNewJobs, j
  <2>5. CommitsNewJobs'
    BY <2>1, <2>2, <2>4 DEF Shared, CommitsNewJobs
  <2>6. HeldByOne' /\ LeasedHeld'
    BY <2>1 DEF Shared, HeldByOne, LeasedHeld, Holds
  <2>7. WaitingUnheld'
    BY <2>1, <2>2 DEF Shared, WaitingUnheld, Holds
  <2>8. RecordFollowsHolder'
    BY <2>1, <2>2 DEF Shared, RecordFollowsHolder
  <2> QED
    BY <2>3, <2>5, <2>6, <2>7, <2>8 DEF Shared
<1> QED
  BY <1>1, <1>2 DEF HandlerStep, LookUp, ReadExisting, Repoint, RequestDies, Reserve

\* What a step of a worker has to keep when it leaves the requests alone.
LEMMA SharedByWork ==
  ASSUME TypeInv, Shared, WorkStep,
         HeldByOne', WaitingUnheld', LeasedHeld', RecordFollowsHolder'
  PROVE  Shared'
<1>1. NewJobsUntouched' /\ OldJobsOnly
  BY WorkTouchesOldJobs DEF Shared
<1>2. CommitsNewJobs'
  BY <1>1 DEF OldJobsOnly, Shared, CommitsNewJobs, TypeInv, RequestTypes
<1> QED
  BY <1>1, <1>2 DEF Shared

LEMMA SharedMain ==
  ASSUME TypeInv, Shared, NEW w \in Workers, MainStep(w)
  PROVE  HeldByOne' /\ WaitingUnheld' /\ LeasedHeld' /\ RecordFollowsHolder'
<1> USE DEF Shared, HeldByOne, WaitingUnheld, LeasedHeld, RecordFollowsHolder, Holds,
            TypeInv, StoreTypes, ThreadTypes, LocalTypes, Goto, GotoWith
<1>1. CASE SkipReap(w) \/ ReapBegin(w) \/ ReapEnd(w) \/ Sleep(w) \/ ClaimBegin(w) \/ ClaimNone(w) \/ Restart(w)
  <2>1. PICK p \in {"admit", "reap", "loop", "scan"} : pc' = [pc EXCEPT ![w] = p]
    BY <1>1 DEF SkipReap, ReapBegin, ReapEnd, Sleep, ClaimBegin, ClaimNone, Restart
  <2>2. /\ UNCHANGED <<status, pending, lease, cur>>
        /\ cur[w] = NoJob
    BY <1>1 DEF SkipReap, ReapBegin, ReapEnd, Sleep, ClaimBegin, ClaimNone, Restart
  <2>3. \A t \in Threads, j \in Jobs : Holds(t, j)' <=> Holds(t, j)
    BY <2>1, <2>2
  <2>4. HeldByOne' /\ WaitingUnheld'
    BY <2>2, <2>3
  <2>5. RecordFollowsHolder'
    BY <2>1, <2>2
  <2>6. LeasedHeld'
    <3>1. \A v \in Workers : pc'[v] = "reap" => todo'[v] = {}
      BY <1>1 DEF SkipReap, ReapBegin, ReapEnd, Sleep, ClaimBegin, ClaimNone, Restart, Expired
    <3> QED
      BY <2>1, <2>2, <2>3, <3>1
  <2> QED
    BY <2>4, <2>5, <2>6
<1>2. CASE ReapNext(w)
  BY <1>2 DEF ReapNext
<1>3. CASE ClaimRead(w)
  <2>1. /\ pc[w] = "scan" /\ cur[w] = NoJob /\ UNCHANGED <<status, pending, lease>>
        /\ \/ UNCHANGED <<pc, cur>>
           \/ \E j \in Jobs : pc' = [pc EXCEPT ![w] = "drop"] /\ cur' = [cur EXCEPT ![w] = j]
        /\ \A v \in Workers : v # w => todo'[v] = todo[v]
    BY <1>3 DEF ClaimRead
  <2>2. \A t \in Threads, j \in Jobs : Holds(t, j)' <=> Holds(t, j)
    BY <2>1
  <2>3. HeldByOne' /\ WaitingUnheld'
    BY <2>1, <2>2
  <2>4. LeasedHeld'
    BY <2>1, <2>2
  <2>5. RecordFollowsHolder'
    BY <2>1
  <2> QED
    BY <2>3, <2>4, <2>5
<1>4. CASE ClaimDrop(w)
  <2>1. /\ pc[w] = "drop" /\ pc' = [pc EXCEPT ![w] = "scan"] /\ cur' = [cur EXCEPT ![w] = NoJob]
        /\ pending' \subseteq pending /\ UNCHANGED <<status, lease, todo>>
    BY <1>4 DEF ClaimDrop
  <2>2. \A t \in Threads, j \in Jobs : Holds(t, j)' <=> Holds(t, j)
    BY <2>1
  <2>3. HeldByOne' /\ WaitingUnheld'
    BY <2>1, <2>2
  <2>4. LeasedHeld'
    BY <2>1, <2>2
  <2>5. RecordFollowsHolder'
    BY <2>1
  <2> QED
    BY <2>3, <2>4, <2>5
<1>5. CASE ClaimTake(w)
  <2>1. pc[w] = "scan" /\ cur[w] = NoJob /\ UNCHANGED <<status, lease, todo>>
    BY <1>5 DEF ClaimTake
  <2>2. CASE pc' = [pc EXCEPT ![w] = "loop"] /\ UNCHANGED <<pending, cur>>
    BY <2>1, <2>2
  <2>3. CASE \E j \in pending : /\ pending' = pending \ {j}
                                /\ pc' = [pc EXCEPT ![w] = "mark"] /\ cur' = [cur EXCEPT ![w] = j]
    <3>1. PICK j \in pending : /\ pending' = pending \ {j}
                              /\ pc' = [pc EXCEPT ![w] = "mark"] /\ cur' = [cur EXCEPT ![w] = j]
      BY <2>3
    <3>2. j \in Jobs /\ status[j] = "queued" /\ lease[j] = "none" /\ \A t \in Threads : ~Holds(t, j)
      OBVIOUS
    <3>3. \A t \in Threads, i \in Jobs : Holds(t, i)' <=> Holds(t, i) \/ (t = w /\ i = j)
      BY <2>1, <3>1, <3>2
    <3>4. HeldByOne'
      BY <3>2, <3>3
    <3>5. WaitingUnheld'
      BY <2>1, <3>1, <3>3
    <3>6. LeasedHeld'
      BY <2>1, <3>1, <3>3
    <3>7. RecordFollowsHolder'
      BY <2>1, <3>1, <3>2
    <3> QED
      BY <3>4, <3>5, <3>6, <3>7
  <2> QED
    BY <1>5, <2>2, <2>3 DEF ClaimTake
<1>6. CASE ClaimMark(w)
  <2>1. /\ pc[w] = "mark" /\ status' = [status EXCEPT ![cur[w]] = "running"]
        /\ pc' = [pc EXCEPT ![w] = "lease"] /\ UNCHANGED <<lease, cur, pending, todo>>
    BY <1>6 DEF ClaimMark
  <2>2. cur[w] \in Jobs /\ Holds(w, cur[w])
    BY <2>1
  <2>3. \A t \in Threads, j \in Jobs : Holds(t, j)' <=> Holds(t, j)
    BY <2>1
  <2>4. HeldByOne' /\ LeasedHeld'
    BY <2>1, <2>3
  <2>5. cur[w] \notin pending
    BY <2>2
  <2>6. WaitingUnheld'
    BY <2>1, <2>3, <2>5
  <2>7. \A t \in Threads : t # w /\ pc[t] # "drop" => cur[t] # cur[w]
    BY <2>2
  <2>8. RecordFollowsHolder'
    BY <2>1, <2>2, <2>7
  <2> QED
    BY <2>4, <2>6, <2>8
<1>7. CASE ClaimLease(w)
  <2>1. /\ pc[w] = "lease" /\ lease' = [lease EXCEPT ![cur[w]] = "held"]
        /\ pc' = [pc EXCEPT ![w] = "launch"] /\ UNCHANGED <<status, cur, pending, todo>>
    BY <1>7 DEF ClaimLease
  <2>2. cur[w] \in Jobs /\ Holds(w, cur[w])
    BY <2>1
  <2>3. \A t \in Threads, j \in Jobs : Holds(t, j)' <=> Holds(t, j)
    BY <2>1
  <2>4. HeldByOne' /\ LeasedHeld'
    BY <2>1, <2>2, <2>3
  <2>5. cur[w] \notin pending
    BY <2>2
  <2>6. WaitingUnheld'
    BY <2>1, <2>3, <2>5
  <2>7. \A t \in Threads : t # w /\ pc[t] # "drop" => cur[t] # cur[w]
    BY <2>2
  <2>8. RecordFollowsHolder'
    BY <2>1, <2>2, <2>7
  <2> QED
    BY <2>4, <2>6, <2>8
<1>8. CASE Launch(w)
  <2>1. PICK e \in Idle(w) : /\ pc' = [pc EXCEPT ![w] = "loop", ![e] = "load"]
                           /\ cur' = [cur EXCEPT ![w] = NoJob, ![e] = cur[w]]
    BY <1>8, Zenon DEF Launch
  <2>2. /\ pc[w] = "launch" /\ e \in Executors /\ e # w /\ UNCHANGED <<status, pending, lease, todo>>
        /\ cur[e] = NoJob /\ cur[w] \in Jobs
    BY <1>8 DEF Launch, Idle, PoolOf
  <2>3. /\ pc'[w] = "loop" /\ cur'[w] = NoJob /\ pc'[e] = "load" /\ cur'[e] = cur[w]
        /\ \A t \in Threads : t # w /\ t # e => pc'[t] = pc[t] /\ cur'[t] = cur[t]
    BY <2>1, <2>2
  <2>4. \A t \in Threads, j \in Jobs :
          Holds(t, j)' <=> (t = e /\ Holds(w, j)) \/ (t # e /\ t # w /\ Holds(t, j))
    BY <2>2, <2>3
  <2>5. HeldByOne'
    BY <2>4
  <2>6. WaitingUnheld'
    BY <2>2, <2>4
  <2>7. \A j \in Jobs : (\E t \in Threads : Holds(t, j)) => \E t \in Threads : Holds(t, j)'
    <3> SUFFICES ASSUME NEW j \in Jobs, NEW t \in Threads, Holds(t, j)
                 PROVE  \E u \in Threads : Holds(u, j)'
      OBVIOUS
    <3>1. CASE t = w
      BY <2>2, <2>4, <3>1
    <3>2. CASE t # w
      <4>1. t # e
        BY <2>2
      <4> QED
        BY <2>4, <3>2, <4>1
    <3> QED
      BY <3>1, <3>2
  <2>8. LeasedHeld'
    BY <2>2, <2>3, <2>7
  <2>9. RecordFollowsHolder'
    <3>1. status[cur[w]] = "running"
      BY <2>2
    <3>2. ASSUME NEW t \in Threads, t # w, t # e
          PROVE  pc'[t] = pc[t] /\ cur'[t] = cur[t] /\ UNCHANGED <<status, lease>>
      BY <2>2, <2>3, <3>2
    <3> QED
      BY <2>2, <2>3, <3>1, <3>2
  <2> QED
    BY <2>5, <2>6, <2>8, <2>9
<1>9. ~Unlease(w) /\ ~RequeueAdd(w)
  BY DEF Unlease, RequeueAdd, MainPC
<1> QED
  BY <1>1, <1>2, <1>3, <1>4, <1>5, <1>6, <1>7, <1>8, <1>9 DEF MainStep, ReapStep, ClaimStep

LEMMA SharedExec ==
  ASSUME TypeInv, Shared, NEW e \in Executors, ExecStep(e)
  PROVE  HeldByOne' /\ WaitingUnheld' /\ LeasedHeld' /\ RecordFollowsHolder'
<1> USE DEF Shared, HeldByOne, WaitingUnheld, LeasedHeld, RecordFollowsHolder, Holds,
            TypeInv, StoreTypes, ThreadTypes, LocalTypes, Goto, GotoWith
<1> DEFINE j == cur[e]
<1>1. /\ pc[e] # "free" => j \in Jobs /\ j \notin pending
      /\ pc[e] # "free" => \A t \in Threads : t # e /\ pc[t] # "drop" => cur[t] # j
      /\ pc[e] # "drop"
  BY DEF ExecPC, CompletePC, FailPC, RequeuePC
<1>2. CASE Load(e) \/ Call(e)
  <2>1. /\ pc[e] \in {"load", "call"} /\ UNCHANGED <<status, pending, lease, cur, todo>>
        /\ \E p \in {"call", "ok_save", "ko_save", "rq_save"} : pc' = [pc EXCEPT ![e] = p]
    BY <1>2 DEF Load, Call, RetryOrFail
  <2>2. \A t \in Threads, i \in Jobs : Holds(t, i)' <=> Holds(t, i)
    BY <2>1
  <2>3. HeldByOne' /\ WaitingUnheld' /\ LeasedHeld'
    BY <2>1, <2>2
  <2>4. RecordFollowsHolder'
    BY <2>1
  <2> QED
    BY <2>3, <2>4
<1>3. CASE SaveResult(e) \/ RequeueSave(e)
  <2>1. /\ pc[e] \in {"ok_save", "ko_save", "rq_save"} /\ UNCHANGED <<pending, lease, cur, todo>>
        /\ \/ /\ \E p \in {"ok_unlease", "ko_unlease"} : pc' = [pc EXCEPT ![e] = p]
              /\ \E s \in Terminal : status' = [status EXCEPT ![j] = s]
           \/ /\ pc' = [pc EXCEPT ![e] = "rq_unlease"]
              /\ status' = [status EXCEPT ![j] = "queued"]
    BY <1>3 DEF SaveResult, RequeueSave, Terminal
  <2>2. \A t \in Threads, i \in Jobs : Holds(t, i)' <=> Holds(t, i)
    BY <2>1
  <2>3. \A i \in Jobs : i # j => status'[i] = status[i]
    BY <1>1, <2>1
  <2>4. HeldByOne' /\ LeasedHeld'
    BY <2>1, <2>2
  <2>5. WaitingUnheld'
    BY <1>1, <2>1, <2>2, <2>3
  <2>6. \A t \in Threads : t # e => pc'[t] = pc[t]
    BY <2>1
  <2>7. \/ pc'[e] \in {"ok_unlease", "ko_unlease"} /\ status'[j] \in Terminal
        \/ pc'[e] = "rq_unlease" /\ status'[j] = "queued"
    BY <1>1, <2>1
  <2>8. ASSUME NEW t \in Threads, t # e, cur[t] # NoJob, pc[t] # "drop"
        PROVE  cur'[t] \in Jobs /\ status'[cur'[t]] = status[cur[t]] /\ lease'[cur'[t]] = lease[cur[t]]
    BY <1>1, <2>1, <2>3, <2>8
  <2>9. \A t \in Threads : cur[t] = NoJob =>
          pc[t] \in {"loop", "reap", "admit", "scan", "draining", "free"}
    BY DEF MainPC
  <2>10. RecordFollowsHolder'
    BY <1>1, <2>1, <2>6, <2>7, <2>8, <2>9
  <2> QED
    BY <2>4, <2>5, <2>10
<1>4. CASE Unlease(e)
  <2>1. /\ UNCHANGED <<status, pending, cur, todo>> /\ lease' = [lease EXCEPT ![j] = "none"]
        /\ \/ pc[e] = "ok_unlease" /\ pc' = [pc EXCEPT ![e] = "ok_clear"]
           \/ pc[e] = "ko_unlease" /\ pc' = [pc EXCEPT ![e] = "ko_clear"]
           \/ pc[e] = "rq_unlease" /\ pc' = [pc EXCEPT ![e] = "rq_add"]
    BY <1>4 DEF Unlease
  <2>2. \A t \in Threads, i \in Jobs : Holds(t, i)' <=> Holds(t, i)
    BY <2>1
  <2>3. lease'[j] = "none" /\ \A i \in Jobs : i # j => lease'[i] = lease[i]
    BY <1>1, <2>1
  <2>4. HeldByOne' /\ WaitingUnheld'
    BY <1>1, <2>1, <2>2, <2>3
  <2>5. LeasedHeld'
    BY <1>1, <2>1, <2>2, <2>3
  <2>6. \A t \in Threads : t # e => pc'[t] = pc[t]
    BY <2>1
  <2>7. RecordFollowsHolder'
    BY <1>1, <2>1, <2>3, <2>6
  <2> QED
    BY <2>4, <2>5, <2>7
<1>5. CASE ClearPayload(e) \/ RequeueAdd(e)
  <2>1. /\ UNCHANGED <<status, lease, todo>>
        /\ pc' = [pc EXCEPT ![e] = "free"] /\ cur' = [cur EXCEPT ![e] = NoJob]
        /\ \/ pc[e] \in {"ok_clear", "ko_clear"} /\ UNCHANGED pending
           \/ pc[e] = "rq_add" /\ pending' = pending \cup {j}
    BY <1>5 DEF ClearPayload, RequeueAdd
  <2>2. \A t \in Threads, i \in Jobs : Holds(t, i)' <=> t # e /\ Holds(t, i)
    BY <2>1
  <2>3. lease[j] = "none" /\ (pc[e] = "rq_add" => status[j] = "queued")
    BY <2>1
  <2>4. HeldByOne'
    BY <2>2
  <2>5. WaitingUnheld'
    BY <1>1, <2>1, <2>2, <2>3
  <2>6. \A i \in Jobs : lease[i] # "none" => \E t \in Threads : Holds(t, i)'
    BY <2>2, <2>3
  <2>7. LeasedHeld'
    BY <2>1, <2>6
  <2>8. RecordFollowsHolder'
    BY <2>1
  <2> QED
    BY <2>4, <2>5, <2>7, <2>8
<1> QED
  BY <1>2, <1>3, <1>4, <1>5 DEF ExecStep

LEMMA SharedShutdown ==
  ASSUME TypeInv, Shared, NEW w \in Workers, Shutdown(w)
  PROVE  HeldByOne' /\ WaitingUnheld' /\ LeasedHeld' /\ RecordFollowsHolder'
<1> USE DEF Shared, HeldByOne, WaitingUnheld, LeasedHeld, RecordFollowsHolder, Holds,
            TypeInv, StoreTypes, ThreadTypes, LocalTypes, Goto
<1>1. /\ pc[w] = "loop" /\ pc' = [pc EXCEPT ![w] = "draining"]
      /\ UNCHANGED <<status, pending, lease, cur, todo>>
  BY DEF Shutdown
<1>2. \A t \in Threads, j \in Jobs : Holds(t, j)' <=> Holds(t, j)
  BY <1>1
<1>3. HeldByOne' /\ WaitingUnheld' /\ LeasedHeld'
  BY <1>1, <1>2
<1>4. RecordFollowsHolder'
  BY <1>1
<1> QED
  BY <1>3, <1>4

\* What is out of the question when no worker is disturbed.
LEMMA NothingDies ==
  ASSUME Undisturbed, TypeInv, Shared
  PROVE  /\ \A j \in Jobs : ~LeaseExpires(j)
         /\ \A w \in Workers : ~Crash(w) /\ ~MainRedisError(w)
         /\ \A e \in Executors : ~ExecRedisError(e) /\ ~ExceptRedisError(e)
<1>1. \A j \in Jobs : ~LeaseExpires(j)
  <2> SUFFICES ASSUME NEW j \in Jobs, LeaseExpires(j) PROVE FALSE
    OBVIOUS
  <2>1. lease[j] = "held" /\ \A t \in Threads : ~Holds(t, j)
    BY DEF LeaseExpires, Undisturbed
  <2> QED
    BY <2>1 DEF Shared, LeasedHeld
<1>2. \A w \in Workers : ~Crash(w) /\ ~MainRedisError(w)
  BY DEF Undisturbed, Crash, MainRedisError, Fault
<1>3. \A e \in Executors : ~ExecRedisError(e) /\ ~ExceptRedisError(e)
  BY DEF Undisturbed, ExecRedisError, ExceptRedisError, Fault
<1> QED
  BY <1>1, <1>2, <1>3

LEMMA SharedStep ==
  ASSUME Undisturbed, TypeInv, Shared, [Next]_vars
  PROVE  Shared'
<1>1. CASE UNCHANGED vars
  BY <1>1 DEF vars, Shared, NewJobsUntouched, CommitsNewJobs, HeldByOne, WaitingUnheld, LeasedHeld,
              RecordFollowsHolder, Holds
<1>2. CASE WorkStep
  BY <1>2, NothingDies, SharedByWork, SharedMain, SharedExec, SharedShutdown DEF WorkStep
<1> QED
  BY <1>1, <1>2, NextIsWorkOrRequest, SharedRequest

LEMMA AlwaysShared ==
  ASSUME Undisturbed
  PROVE  Spec => [](TypeInv /\ Shared)
<1>1. Spec => []TypeInv
  BY TypeInvInit, TypeInvStep, PTL DEF Spec
<1>2. TypeInv /\ Shared /\ [Next]_vars => Shared'
  BY SharedStep
<1> QED
  BY <1>1, <1>2, SharedInit, PTL DEF Spec

\* Any number of workers may share the queue: as long as none of them is
\* killed and no Redis command fails, no two of their pool threads execute one
\* job, although each claims what it read some commands ago (the checked SREM
\* of claim_next_job).
THEOREM SharedByWorkers ==
  ASSUME Undisturbed
  PROVE  Spec => []OneLiveExecution
<1>1. TypeInv /\ Shared => OneLiveExecution
  <2> SUFFICES ASSUME TypeInv, Shared, NEW e1 \in Executors, NEW e2 \in Executors,
                      cur[e1] # NoJob, cur[e1] = cur[e2]
               PROVE  e1 = e2
    BY DEF OneLiveExecution
  <2>1. cur[e1] \in Jobs /\ pc[e1] # "drop" /\ pc[e2] # "drop"
    BY DEF TypeInv, ThreadTypes, ExecPC, CompletePC, FailPC, RequeuePC
  <2> QED
    BY <2>1 DEF Shared, HeldByOne, Holds
<1> QED
  BY <1>1, AlwaysShared, PTL

LEMMA FinalStays ==
  ASSUME Undisturbed, TypeInv, Shared, [Next]_vars, NEW j \in Jobs, status[j] \in Terminal
  PROVE  status'[j] = status[j]
<1> USE DEF TypeInv, StoreTypes
<1>1. status[j] \notin {"absent", "queued", "running"}
  BY DEF Terminal
<1>2. ASSUME NEW h \in Handlers, HandlerStep(h) \/ RequestDies(h) \/ \E k \in Keys : Reserve(h, k)
      PROVE  status'[j] = status[j]
  <2>1. CASE Commit(h)
    BY <1>1, <2>1 DEF Commit, RequestTypes, Shared, CommitsNewJobs
  <2>2. CASE UNCHANGED status
    BY <2>2
  <2> QED
    BY <1>2, <2>1, <2>2 DEF HandlerStep, LookUp, ReadExisting, Repoint, RequestDies, Reserve
<1>3. ASSUME NEW w \in Workers, MainStep(w) PROVE status'[j] = status[j]
  <2>1. ~ReapNext(w)
    BY DEF ReapNext, Shared, LeasedHeld
  <2>2. CASE ClaimMark(w)
    BY <1>1, <2>2 DEF ClaimMark, Shared, RecordFollowsHolder
  <2>3. CASE UNCHANGED status
    BY <2>3
  <2> QED
    BY <1>3, <2>1, <2>2, <2>3
       DEF MainStep, SkipReap, ReapBegin, ReapStep, ReapEnd, ClaimStep, Sleep, ClaimBegin, ClaimRead,
           ClaimDrop, ClaimNone, ClaimTake, ClaimLease, Launch, Unlease, RequeueAdd, Restart
<1>4. ASSUME NEW e \in Executors, ExecStep(e) PROVE status'[j] = status[j]
  <2>1. CASE SaveResult(e)
    BY <1>1, <2>1 DEF SaveResult, Shared, RecordFollowsHolder
  <2>2. CASE RequeueSave(e)
    BY <1>1, <2>2 DEF RequeueSave, Shared, RecordFollowsHolder
  <2>3. CASE UNCHANGED status
    BY <2>3
  <2> QED
    BY <1>4, <2>1, <2>2, <2>3 DEF ExecStep, Load, Call, ClearPayload, Unlease, RequeueAdd
<1>5. ASSUME NEW w \in Workers, Shutdown(w) PROVE status'[j] = status[j]
  BY <1>5 DEF Shutdown
<1>6. CASE UNCHANGED vars
  BY <1>6 DEF vars
<1> QED
  BY <1>2, <1>3, <1>4, <1>5, <1>6, NextIsWorkOrRequest, NothingDies DEF WorkStep

\* With any number of workers, none of them killed, a record that says
\* completed or failed keeps saying so: no requeue, claim or late thread of
\* another worker overwrites it with what it read before.
THEOREM FinalStaysFinal ==
  ASSUME Undisturbed
  PROVE  Spec => FinalIsFinal
<1>1. TypeInv /\ Shared /\ [Next]_vars =>
        [\A j \in Jobs : status[j] \in Terminal => status'[j] = status[j]]_vars
  BY FinalStays
<1> QED
  BY <1>1, AlwaysShared, PTL DEF Spec, FinalIsFinal

=============================================================================
