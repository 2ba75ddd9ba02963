--------------------------- MODULE JobQueueProofs ---------------------------
(***************************************************************************)
(* Theorems about JobQueue, for any number of keys, jobs, requests,        *)
(* workers, pool threads, retries and faults.                              *)
(***************************************************************************)
EXTENDS JobQueue, TLAPS

\* The type invariant by the part of the state it is about.  A request being
\* served has its key, and one about to commit has a job id.
RequestTypes ==
  /\ idem \in [Keys -> Jobs \cup {NoJob}]
  /\ origin \in [Jobs -> Keys \cup {NoKey}]
  /\ hpc \in [Handlers -> HandlerPC]
  /\ hkey \in [Handlers -> Keys \cup {NoKey}]
  /\ hjob \in [Handlers -> Jobs \cup {NoJob}]
  /\ \A h \in Handlers : hpc[h] # "idle" => hkey[h] \in Keys
  /\ \A h \in Handlers : hpc[h] = "commit" => hjob[h] \in Jobs

StoreTypes ==
  /\ status \in [Jobs -> Statuses]
  /\ payload \subseteq Jobs
  /\ pending \subseteq Jobs
  /\ lease \in [Jobs -> {"none", "held", "expired"}]

\* A thread has a current job exactly when it is inside an operation on one.
ThreadTypes ==
  /\ pc \in [Threads -> MainPC \cup ExecPC]
  /\ cur \in [Threads -> Jobs \cup {NoJob}]
  /\ \A w \in Workers :
       /\ pc[w] \in MainPC
       /\ cur[w] # NoJob <=> pc[w] \in {"drop", "mark", "lease", "launch", "rq_unlease", "rq_add"}
  /\ \A e \in Executors :
       /\ pc[e] \in ExecPC
       /\ cur[e] # NoJob <=> pc[e] # "free"

LocalTypes ==
  /\ todo \in [Workers -> SUBSET Jobs]
  /\ cands \in [Workers -> SUBSET Jobs]

RetryTypes == retries \in [Workers -> [Jobs -> 0..MaxRetries]]

FaultTypes == faults \in 0..MaxFaults

TypeInv == RequestTypes /\ StoreTypes /\ ThreadTypes /\ LocalTypes /\ RetryTypes /\ FaultTypes

USE QueueAssumption DEF Threads, redis, request, threads

LEMMA TypeInvInit == Init => TypeInv
  BY DEF Init, TypeInv, RequestTypes, StoreTypes, ThreadTypes, LocalTypes, RetryTypes, FaultTypes,
         Statuses, HandlerPC, MainPC, ExecPC

LEMMA TypeInvImplies == TypeInv => TypeOK
  BY DEF TypeInv, RequestTypes, StoreTypes, ThreadTypes, LocalTypes, RetryTypes, FaultTypes, TypeOK

LEMMA ReserveTypes ==
  ASSUME TypeInv, NEW h \in Handlers, NEW k \in Keys, Reserve(h, k)
  PROVE  TypeInv'
<1> USE DEF TypeInv
<1>1. RequestTypes'
  <2>1. CASE idem[k] = NoJob
    BY <2>1 DEF Reserve, RequestTypes, HandlerPC, Fresh
  <2>2. CASE idem[k] # NoJob
    BY <2>2 DEF Reserve, RequestTypes, HandlerPC
  <2> QED
    BY <2>1, <2>2
<1>2. UNCHANGED <<status, payload, pending, lease, pc, cur, todo, cands, retries, faults>>
  BY DEF Reserve
<1> QED
  BY <1>1, <1>2 DEF StoreTypes, ThreadTypes, LocalTypes, RetryTypes, FaultTypes

LEMMA HandlerTypes ==
  ASSUME TypeInv, NEW h \in Handlers, HandlerStep(h)
  PROVE  TypeInv'
<1> USE DEF TypeInv
<1>1. CASE LookUp(h)
  BY <1>1 DEF LookUp, RequestTypes, StoreTypes, ThreadTypes, LocalTypes, RetryTypes, FaultTypes, HandlerPC
<1>2. CASE ReadExisting(h)
  <2>1. UNCHANGED <<redis, threads, origin, faults>>
    BY <1>2 DEF ReadExisting
  <2>2. RequestTypes'
    BY <1>2, <2>1 DEF ReadExisting, Answer, RequestTypes, HandlerPC
  <2> QED
    BY <2>1, <2>2 DEF StoreTypes, ThreadTypes, LocalTypes, RetryTypes, FaultTypes
<1>3. CASE Repoint(h)
  BY <1>3 DEF Repoint, Fresh, RequestTypes, StoreTypes, ThreadTypes, LocalTypes, RetryTypes, FaultTypes, HandlerPC
<1>4. CASE Commit(h)
  BY <1>4 DEF Commit, Answer, RequestTypes, StoreTypes, ThreadTypes, LocalTypes, RetryTypes, FaultTypes, HandlerPC, Statuses
<1> QED
  BY <1>1, <1>2, <1>3, <1>4 DEF HandlerStep

\* A main thread that takes up a job.
LEMMA TakeUpTypes ==
  ASSUME ThreadTypes, NEW w \in Workers, NEW j \in Jobs, NEW p \in {"drop", "mark", "rq_unlease"},
         GotoWith(w, p, j)
  PROVE  ThreadTypes'
<1>1. pc' = [pc EXCEPT ![w] = p] /\ cur' = [cur EXCEPT ![w] = j]
  BY DEF GotoWith
<1>2. p \in MainPC /\ j # NoJob
  BY DEF MainPC
<1>3. pc' \in [Threads -> MainPC \cup ExecPC] /\ cur' \in [Threads -> Jobs \cup {NoJob}]
  BY <1>1, <1>2 DEF ThreadTypes
<1>4. \A t \in Threads : t # w => pc'[t] = pc[t] /\ cur'[t] = cur[t]
  BY <1>1 DEF ThreadTypes
<1>5. pc'[w] = p /\ cur'[w] = j
  BY <1>1 DEF ThreadTypes
<1> QED
  BY <1>2, <1>3, <1>4, <1>5 DEF ThreadTypes

\* The retry path of a pool thread that has a job leaves a thread at a command
\* of requeue_job or fail_job and the counter within MAX_RETRIES.
LEMMA RetryTypesKept ==
  ASSUME TypeInv, NEW e \in Executors, RetryOrFail(e), cur' = cur, pc[e] # "free"
  PROVE  ThreadTypes' /\ RetryTypes'
<1> DEFINE o == Owner[e]  j == cur[e]
<1>1. o \in Workers /\ j \in Jobs /\ retries[o] \in [Jobs -> 0..MaxRetries] /\ retries[o][j] \in Nat
  BY DEF TypeInv, ThreadTypes, RetryTypes
<1>2. CASE retries[o][j] < MaxRetries
  <2>1. retries' = [retries EXCEPT ![o] = [retries[o] EXCEPT ![j] = retries[o][j] + 1]]
    BY <1>2 DEF RetryOrFail
  <2>2. retries[o][j] + 1 \in 0..MaxRetries
    BY <1>1, <1>2
  <2>3. RetryTypes'
    BY <1>1, <2>1, <2>2 DEF TypeInv, RetryTypes
  <2>4. pc' = [pc EXCEPT ![e] = "rq_save"]
    BY <1>2 DEF RetryOrFail, Goto
  <2> QED
    BY <2>3, <2>4 DEF TypeInv, ThreadTypes, MainPC, ExecPC, RequeuePC
<1>3. CASE ~(retries[o][j] < MaxRetries)
  <2>1. pc' = [pc EXCEPT ![e] = "ko_save"] /\ UNCHANGED retries
    BY <1>3 DEF RetryOrFail, Goto
  <2> QED
    BY <2>1 DEF TypeInv, ThreadTypes, RetryTypes, MainPC, ExecPC, FailPC
<1> QED
  BY <1>2, <1>3

LEMMA MainTypes ==
  ASSUME TypeInv, NEW w \in Workers, MainStep(w)
  PROVE  TypeInv'
<1> USE DEF TypeInv, RequestTypes, StoreTypes, ThreadTypes, LocalTypes, RetryTypes, FaultTypes,
            MainPC, ExecPC, CompletePC, FailPC, RequeuePC, Goto, GotoWith
<1>1. CASE SkipReap(w)
  BY <1>1 DEF SkipReap
<1>2. CASE ReapBegin(w)
  BY <1>2 DEF ReapBegin, Expired
<1>3. CASE ReapNext(w)
  BY <1>3 DEF ReapNext, Statuses
<1>4. CASE ReapEnd(w)
  BY <1>4 DEF ReapEnd
<1>5. CASE Sleep(w)
  BY <1>5 DEF Sleep
<1>6. CASE ClaimBegin(w)
  BY <1>6 DEF ClaimBegin
<1>7. CASE ClaimRead(w)
  <2>1. PICK j \in todo[w] :
          /\ todo' = [todo EXCEPT ![w] = @ \ {j}]
          /\ \/ /\ status[j] = "queued"
                /\ cands' = [cands EXCEPT ![w] = @ \cup {j}]
                /\ UNCHANGED <<pc, cur>>
             \/ /\ status[j] # "queued"
                /\ GotoWith(w, "drop", j)
                /\ UNCHANGED cands
    BY <1>7, Zenon DEF ClaimRead
  <2>2. j \in Jobs /\ pc[w] = "scan"
    BY <1>7, <2>1 DEF ClaimRead
  <2>3. CASE status[j] = "queued"
    BY <1>7, <2>1, <2>2, <2>3 DEF ClaimRead
  <2>4. CASE status[j] # "queued"
    <3>1. ThreadTypes'
      BY <2>1, <2>2, <2>4, TakeUpTypes
    <3>2. LocalTypes'
      BY <1>7, <2>1, <2>2, <2>4
    <3> QED
      BY <1>7, <3>1, <3>2 DEF ClaimRead
  <2> QED
    BY <2>3, <2>4
<1>8. CASE ClaimDrop(w)
  BY <1>8 DEF ClaimDrop
<1>9. CASE ClaimNone(w)
  BY <1>9 DEF ClaimNone
<1>10. CASE ClaimTake(w)
  <2>1. PICK j \in cands[w] : \/ /\ j \in pending
                               /\ pending' = pending \ {j}
                               /\ GotoWith(w, "mark", j)
                            \/ /\ j \notin pending
                               /\ Goto(w, "loop")
                               /\ UNCHANGED <<pending, cur>>
    BY <1>10, Zenon DEF ClaimTake
  <2>2. j \in Jobs /\ pc[w] = "scan"
    BY <1>10, <2>1 DEF ClaimTake
  <2>3. CASE j \in pending
    <3>1. ThreadTypes'
      BY <2>1, <2>2, <2>3, TakeUpTypes
    <3>2. StoreTypes' /\ LocalTypes'
      BY <1>10, <2>1, <2>2, <2>3 DEF ClaimTake
    <3> QED
      BY <1>10, <3>1, <3>2 DEF ClaimTake
  <2>4. CASE j \notin pending
    <3>1. /\ pc' = [pc EXCEPT ![w] = "loop"] /\ cands' = [cands EXCEPT ![w] = {}]
          /\ UNCHANGED <<redis, request, cur, todo, retries, origin, faults>>
      BY <1>10, <2>1, <2>4 DEF ClaimTake
    <3>2. ThreadTypes'
      BY <2>2, <3>1
    <3>3. LocalTypes'
      BY <3>1
    <3> QED
      BY <3>1, <3>2, <3>3
  <2> QED
    BY <2>3, <2>4
<1>11. CASE ClaimMark(w)
  BY <1>11 DEF ClaimMark, Statuses
<1>12. CASE ClaimLease(w)
  BY <1>12 DEF ClaimLease
<1>13. CASE Launch(w)
  <2>1. PICK e \in Idle(w) : /\ pc' = [pc EXCEPT ![w] = "loop", ![e] = "load"]
                           /\ cur' = [cur EXCEPT ![w] = NoJob, ![e] = cur[w]]
    BY <1>13 DEF Launch
  <2>2. e \in Executors /\ e # w /\ cur[w] \in Jobs
    BY <1>13 DEF Launch, Idle, PoolOf
  <2>3. ThreadTypes'
    BY <2>1, <2>2
  <2> QED
    BY <1>13, <2>3 DEF Launch
<1>14. CASE Unlease(w)
  BY <1>14 DEF Unlease
<1>15. CASE RequeueAdd(w)
  BY <1>15 DEF RequeueAdd
<1>16. CASE Restart(w)
  BY <1>16 DEF Restart
<1> QED
  BY <1>1, <1>2, <1>3, <1>4, <1>5, <1>6, <1>7, <1>8, <1>9, <1>10, <1>11, <1>12, <1>13, <1>14, <1>15, <1>16 DEF MainStep, ReapStep, ClaimStep

LEMMA ExecTypes ==
  ASSUME TypeInv, NEW e \in Executors, ExecStep(e)
  PROVE  TypeInv'
<1> USE DEF TypeInv, RequestTypes, StoreTypes, ThreadTypes, LocalTypes, RetryTypes, FaultTypes,
            MainPC, ExecPC, CompletePC, FailPC, RequeuePC, Goto, GotoWith
<1>1. CASE Load(e)
  <2>1. pc[e] = "load" /\ cur' = cur
    BY <1>1 DEF Load
  <2>2. CASE Goto(e, "call") /\ UNCHANGED retries
    BY <1>1, <2>1, <2>2 DEF Load
  <2>3. CASE RetryOrFail(e)
    BY <1>1, <2>1, <2>3, RetryTypesKept DEF Load
  <2> QED
    BY <1>1, <2>2, <2>3 DEF Load
<1>2. CASE Call(e)
  <2>1. pc[e] = "call" /\ cur' = cur
    BY <1>2 DEF Call
  <2>2. CASE Goto(e, "ok_save") /\ UNCHANGED retries
    BY <1>2, <2>1, <2>2 DEF Call
  <2>3. CASE Goto(e, "ko_save") /\ UNCHANGED retries
    BY <1>2, <2>1, <2>3 DEF Call
  <2>4. CASE RetryOrFail(e)
    BY <1>2, <2>1, <2>4, RetryTypesKept DEF Call
  <2> QED
    BY <1>2, <2>2, <2>3, <2>4 DEF Call
<1>3. CASE SaveResult(e)
  <2>1. PICK s \in Terminal, p \in {"ok_unlease", "ko_unlease"} :
          status' = [status EXCEPT ![cur[e]] = s] /\ Goto(e, p) /\ pc[e] # "free"
    BY <1>3 DEF SaveResult, Terminal
  <2>2. StoreTypes' /\ ThreadTypes'
    BY <1>3, <2>1 DEF SaveResult, Terminal, Statuses
  <2> QED
    BY <1>3, <2>2 DEF SaveResult
<1>4. CASE ClearPayload(e)
  BY <1>4 DEF ClearPayload
<1>5. CASE RequeueSave(e)
  BY <1>5 DEF RequeueSave, Statuses
<1>6. CASE Unlease(e)
  <2>1. /\ lease' = [lease EXCEPT ![cur[e]] = "none"]
        /\ UNCHANGED <<idem, status, payload, pending, request, cur, todo, cands, retries, origin, faults>>
    BY <1>6 DEF Unlease
  <2>2. StoreTypes' /\ LocalTypes' /\ RequestTypes'
    BY <2>1
  <2>3. PICK l \in {"ok_clear", "ko_clear", "rq_add"} : pc' = [pc EXCEPT ![e] = l]
    BY <1>6 DEF Unlease
  <2>4. pc[e] # "free"
    BY <1>6 DEF Unlease
  <2>5. ThreadTypes'
    BY <2>1, <2>3, <2>4
  <2> QED
    BY <2>1, <2>2, <2>5
<1>7. CASE RequeueAdd(e)
  BY <1>7 DEF RequeueAdd
<1> QED
  BY <1>1, <1>2, <1>3, <1>4, <1>5, <1>6, <1>7 DEF ExecStep

LEMMA EnvironmentTypes ==
  ASSUME TypeInv, (\E j \in Jobs : LeaseExpires(j)) \/ FaultStep
  PROVE  TypeInv'
<1> USE DEF TypeInv, RequestTypes, StoreTypes, ThreadTypes, LocalTypes, RetryTypes, FaultTypes,
            MainPC, ExecPC, CompletePC, FailPC, RequeuePC, Goto, GotoWith, Fault
<1>1. ASSUME NEW j \in Jobs, LeaseExpires(j) PROVE TypeInv'
  BY <1>1 DEF LeaseExpires
<1>2. ASSUME NEW h \in Handlers, RequestDies(h) PROVE TypeInv'
  BY <1>2 DEF RequestDies, Answer, HandlerPC
<1>3. ASSUME NEW w \in Workers, Crash(w) PROVE TypeInv'
  BY <1>3 DEF Crash, PoolOf
<1>4. ASSUME NEW w \in Workers, Shutdown(w) PROVE TypeInv'
  BY <1>4 DEF Shutdown
<1>5. ASSUME NEW w \in Workers, MainRedisError(w) PROVE TypeInv'
  BY <1>5 DEF MainRedisError
<1>6. ASSUME NEW e \in Executors, ExecRedisError(e) PROVE TypeInv'
  <2>1. RetryOrFail(e) /\ cur' = cur /\ pc[e] # "free"
    BY <1>6 DEF ExecRedisError
  <2>2. ThreadTypes' /\ RetryTypes'
    BY <2>1, RetryTypesKept
  <2> QED
    BY <1>6, <2>2 DEF ExecRedisError
<1>7. ASSUME NEW e \in Executors, ExceptRedisError(e) PROVE TypeInv'
  BY <1>7 DEF ExceptRedisError
<1> QED
  BY <1>1, <1>2, <1>3, <1>4, <1>5, <1>6, <1>7 DEF FaultStep

LEMMA TypeInvStep == TypeInv /\ [Next]_vars => TypeInv'
<1> SUFFICES ASSUME TypeInv, [Next]_vars PROVE TypeInv'
  OBVIOUS
<1>1. CASE UNCHANGED vars
  BY <1>1 DEF vars, TypeInv, RequestTypes, StoreTypes, ThreadTypes, LocalTypes, RetryTypes, FaultTypes
<1>2. CASE Next
  BY <1>2, ReserveTypes, HandlerTypes, MainTypes, ExecTypes, EnvironmentTypes DEF Next
<1> QED
  BY <1>1, <1>2

\* Every reachable state of the queue is well typed: no command is issued for a
\* job id that does not exist, and no retry counter exceeds MAX_RETRIES.
THEOREM TypeCorrect == Spec => []TypeOK
<1>1. Spec => []TypeInv
  BY TypeInvInit, TypeInvStep, PTL DEF Spec
<1> QED
  BY <1>1, TypeInvImplies, PTL

-----------------------------------------------------------------------------
(* One job per key. *)

\* A job id that is generated but whose job is not written yet is known to no
\* set of the store and to no thread of a worker.
NewJobsUntouched ==
  \A j \in Jobs : status[j] = "absent" =>
    /\ j \notin pending
    /\ lease[j] = "none"
    /\ \A t \in Threads : cur[t] # j
    /\ \A w \in Workers : j \notin todo[w] /\ j \notin cands[w]

\* Every step that is not a submit request's.
WorkStep ==
  \/ \E w \in Workers : MainStep(w) \/ Crash(w) \/ Shutdown(w) \/ MainRedisError(w)
  \/ \E e \in Executors : ExecStep(e) \/ ExecRedisError(e) \/ ExceptRedisError(e)
  \/ \E j \in Jobs : LeaseExpires(j)

LEMMA NextIsWorkOrRequest ==
  Next => \/ WorkStep
          \/ \E h \in Handlers : HandlerStep(h) \/ RequestDies(h) \/ \E k \in Keys : Reserve(h, k)
  BY DEF Next, FaultStep, WorkStep

\* Workers write the records of jobs that exist, and nothing else.
OldJobsOnly ==
  /\ UNCHANGED <<idem, origin, hpc, hkey, hjob>>
  /\ \A j \in Jobs : status'[j] = "absent" <=> status[j] = "absent"

LEMMA MainTouchesOldJobs ==
  ASSUME TypeInv, NewJobsUntouched, NEW w \in Workers, MainStep(w)
  PROVE  NewJobsUntouched' /\ OldJobsOnly
<1> USE DEF NewJobsUntouched, OldJobsOnly, TypeInv, StoreTypes, ThreadTypes, LocalTypes, Goto, GotoWith
<1>1. CASE SkipReap(w) \/ ReapEnd(w) \/ Sleep(w) \/ ClaimNone(w) \/ Restart(w)
  BY <1>1 DEF SkipReap, ReapEnd, Sleep, ClaimNone, Restart
<1>2. CASE ReapBegin(w)
  BY <1>2 DEF ReapBegin, Expired
<1>3. CASE ReapNext(w)
  BY <1>3 DEF ReapNext
<1>4. CASE ClaimBegin(w)
  BY <1>4 DEF ClaimBegin
<1>5. CASE ClaimRead(w)
  BY <1>5 DEF ClaimRead
<1>6. CASE ClaimDrop(w)
  BY <1>6 DEF ClaimDrop
<1>7. CASE ClaimTake(w)
  BY <1>7 DEF ClaimTake
<1>8. CASE ClaimMark(w)
  BY <1>8 DEF ClaimMark
<1>9. CASE ClaimLease(w)
  BY <1>9 DEF ClaimLease
<1>10. CASE Launch(w)
  BY <1>10 DEF Launch, Idle, PoolOf
<1>11. CASE Unlease(w)
  BY <1>11 DEF Unlease
<1>12. CASE RequeueAdd(w)
  BY <1>12 DEF RequeueAdd
<1> QED
  BY <1>1, <1>2, <1>3, <1>4, <1>5, <1>6, <1>7, <1>8, <1>9, <1>10, <1>11, <1>12
     DEF MainStep, ReapStep, ClaimStep

LEMMA WorkTouchesOldJobs ==
  ASSUME TypeInv, NewJobsUntouched, WorkStep
  PROVE  NewJobsUntouched' /\ OldJobsOnly
<1> USE DEF NewJobsUntouched, OldJobsOnly, TypeInv, StoreTypes, ThreadTypes, LocalTypes, Goto, GotoWith
<1>1. ASSUME NEW e \in Executors, ExecStep(e) PROVE NewJobsUntouched' /\ OldJobsOnly
  <2>1. CASE Load(e) \/ Call(e)
    BY <1>1, <2>1 DEF Load, Call
  <2>2. CASE SaveResult(e)
    BY <1>1, <2>2 DEF SaveResult
  <2>3. CASE ClearPayload(e) \/ RequeueSave(e) \/ Unlease(e) \/ RequeueAdd(e)
    BY <1>1, <2>3 DEF ClearPayload, RequeueSave, Unlease, RequeueAdd
  <2> QED
    BY <1>1, <2>1, <2>2, <2>3 DEF ExecStep
<1>2. ASSUME NEW j \in Jobs, LeaseExpires(j) PROVE NewJobsUntouched' /\ OldJobsOnly
  BY <1>2 DEF LeaseExpires
<1>3. ASSUME NEW w \in Workers, Crash(w) \/ Shutdown(w) \/ MainRedisError(w)
      PROVE  NewJobsUntouched' /\ OldJobsOnly
  BY <1>3 DEF Crash, Shutdown, MainRedisError
<1>4. ASSUME NEW e \in Executors, ExecRedisError(e) \/ ExceptRedisError(e)
      PROVE  NewJobsUntouched' /\ OldJobsOnly
  BY <1>4 DEF ExecRedisError, ExceptRedisError
<1> QED
  BY <1>1, <1>2, <1>3, <1>4, MainTouchesOldJobs DEF WorkStep

\* No two requests that are being served carry the same key.
SubmittedOneByOne ==
  \A h1, h2 \in Handlers : hkey[h1] # NoKey /\ hkey[h1] = hkey[h2] => h1 = h2

\* A key names the job that was written last under it, or is about to be; a
\* request past its first command works on what its key names.
KeysNameTheirJobs ==
  /\ \A k \in Keys : idem[k] # NoJob => origin[idem[k]] = k
  /\ \A j \in Jobs : status[j] # "absent" => origin[j] # NoKey /\ idem[origin[j]] = j
  /\ \A h \in Handlers : hpc[h] # "idle" => idem[hkey[h]] # NoJob
  /\ \A h \in Handlers : hpc[h] \in {"read", "repoint", "commit"} => hjob[h] = idem[hkey[h]]
  /\ \A h \in Handlers : hpc[h] \in {"repoint", "commit"} => status[hjob[h]] = "absent"

LEMMA RequestsNameTheirJobs ==
  ASSUME TypeInv, NewJobsUntouched, KeysNameTheirJobs, SubmittedOneByOne, NEW h \in Handlers,
         HandlerStep(h) \/ RequestDies(h) \/ \E k \in Keys : Reserve(h, k)
  PROVE  NewJobsUntouched' /\ KeysNameTheirJobs'
<1> USE DEF TypeInv, RequestTypes, StoreTypes, LocalTypes, ThreadTypes, KeysNameTheirJobs
<1>1. CASE LookUp(h)
  BY <1>1 DEF LookUp, NewJobsUntouched
<1>2. CASE ReadExisting(h) \/ RequestDies(h)
  <2>1. /\ UNCHANGED <<redis, threads, origin>>
        /\ \A g \in Handlers : g # h => hpc'[g] = hpc[g] /\ hkey'[g] = hkey[g] /\ hjob'[g] = hjob[g]
    BY <1>2 DEF ReadExisting, RequestDies, Answer
  <2>2. \/ hpc'[h] = "idle"
        \/ /\ hpc[h] = "read" /\ hpc'[h] = "repoint" /\ hkey'[h] = hkey[h] /\ hjob'[h] = hjob[h]
           /\ status[hjob[h]] = "absent"
    BY <1>2 DEF ReadExisting, RequestDies, Answer
  <2>3. NewJobsUntouched'
    BY <2>1 DEF NewJobsUntouched
  <2>4. KeysNameTheirJobs'
    BY <2>1, <2>2
  <2> QED
    BY <2>3, <2>4
<1>3. CASE Repoint(h)
  BY <1>3 DEF Repoint, Fresh, NewJobsUntouched, SubmittedOneByOne
<1>4. CASE Commit(h)
  <2> DEFINE j == hjob[h]
  <2>1. /\ hpc[h] = "commit" /\ hpc'[h] = "idle" /\ j \in Jobs /\ hkey[h] \in Keys
        /\ \A g \in Handlers : g # h => hpc'[g] = hpc[g] /\ hkey'[g] = hkey[g] /\ hjob'[g] = hjob[g]
        /\ status' = [status EXCEPT ![j] = "queued"] /\ pending' = pending \cup {j}
        /\ UNCHANGED <<idem, origin, lease, threads>>
    BY <1>4 DEF Commit, Answer
  <2>2. status'[j] = "queued" /\ \A i \in Jobs : i # j => status'[i] = status[i]
    BY <2>1
  <2>3. j = idem[hkey[h]] /\ origin[j] = hkey[h]
    BY <2>1
  <2>4. ASSUME NEW g \in Handlers, g # h, hpc[g] \in {"repoint", "commit"} PROVE hjob[g] # j
    BY <2>1, <2>3, <2>4 DEF SubmittedOneByOne
  <2>5. NewJobsUntouched'
    BY <2>1, <2>2 DEF NewJobsUntouched
  <2> HIDE DEF j
  <2>6. KeysNameTheirJobs'
    BY <2>1, <2>2, <2>3, <2>4
  <2> QED
    BY <2>5, <2>6
<1>5. CASE \E k \in Keys : Reserve(h, k)
  <2>1. PICK k \in Keys : Reserve(h, k)
    BY <1>5
  <2>2. /\ hpc[h] = "idle" /\ hkey' = [hkey EXCEPT ![h] = k]
        /\ UNCHANGED <<status, payload, pending, lease, threads, faults>>
    BY <2>1 DEF Reserve
  <2>3. NewJobsUntouched'
    BY <2>2 DEF NewJobsUntouched
  <2>4. CASE idem[k] # NoJob
    <3>1. hpc' = [hpc EXCEPT ![h] = "lookup"] /\ UNCHANGED <<idem, origin, hjob>>
      BY <2>1, <2>4 DEF Reserve
    <3>2. \A g \in Handlers : g # h => hpc'[g] = hpc[g] /\ hkey'[g] = hkey[g] /\ hjob'[g] = hjob[g]
      BY <2>2, <3>1
    <3>3. hpc'[h] = "lookup" /\ hkey'[h] = k
      BY <2>2, <3>1
    <3>4. KeysNameTheirJobs'
      BY <2>2, <2>4, <3>1, <3>2, <3>3
    <3> QED
      BY <2>3, <3>4
  <2>5. CASE idem[k] = NoJob
    <3>1. PICK j \in Fresh : /\ idem' = [idem EXCEPT ![k] = j]
                            /\ origin' = [origin EXCEPT ![j] = k]
                            /\ hjob' = [hjob EXCEPT ![h] = j]
      BY <2>1, <2>5 DEF Reserve
    <3>2. hpc' = [hpc EXCEPT ![h] = "commit"] /\ j \in Jobs /\ origin[j] = NoKey /\ status[j] = "absent"
      BY <2>1, <2>5 DEF Reserve, Fresh
    <3>3. /\ idem'[k] = j /\ \A i \in Keys : i # k => idem'[i] = idem[i]
          /\ origin'[j] = k /\ \A i \in Jobs : i # j => origin'[i] = origin[i]
      BY <3>1, <3>2
    <3>4. \A i \in Keys : idem'[i] # NoJob => origin'[idem'[i]] = i
      BY <3>2, <3>3
    <3>5. \A i \in Jobs : status'[i] # "absent" => origin'[i] # NoKey /\ idem'[origin'[i]] = i
      BY <2>2, <2>5, <3>2, <3>3
    <3>6. \A g \in Handlers : g # h => hpc'[g] = hpc[g] /\ hkey'[g] = hkey[g] /\ hjob'[g] = hjob[g]
      BY <2>2, <3>1, <3>2
    <3>7. hpc'[h] = "commit" /\ hkey'[h] = k /\ hjob'[h] = j
      BY <2>2, <3>1, <3>2
    <3>8. \A g \in Handlers : g # h /\ hpc[g] # "idle" => hkey[g] # k
      BY <2>5
    <3>9. KeysNameTheirJobs'
      BY <2>2, <3>2, <3>3, <3>4, <3>5, <3>6, <3>7, <3>8
    <3> QED
      BY <2>3, <3>9
  <2> QED
    BY <2>4, <2>5
<1> QED
  BY <1>1, <1>2, <1>3, <1>4, <1>5 DEF HandlerStep

LEMMA KeysStep ==
  ASSUME TypeInv, NewJobsUntouched, KeysNameTheirJobs, SubmittedOneByOne, [Next]_vars
  PROVE  NewJobsUntouched' /\ KeysNameTheirJobs'
<1>1. CASE WorkStep
  <2>1. NewJobsUntouched' /\ OldJobsOnly
    BY <1>1, WorkTouchesOldJobs
  <2> QED
    BY <2>1 DEF OldJobsOnly, KeysNameTheirJobs, TypeInv, RequestTypes
<1>2. CASE UNCHANGED vars
  BY <1>2 DEF vars, NewJobsUntouched, KeysNameTheirJobs
<1> QED
  BY <1>1, <1>2, NextIsWorkOrRequest, RequestsNameTheirJobs

LEMMA KeysInit == Init => NewJobsUntouched /\ KeysNameTheirJobs
  BY DEF Init, NewJobsUntouched, KeysNameTheirJobs

\* However often a key is submitted, one request after the other or among
\* requests with other keys, it enqueues one job, also when requests are lost
\* between reserving the key and writing the job, and whatever the workers and
\* their faults do meanwhile (enqueue).  What is excluded is two requests with
\* one key at the same time, which do enqueue two jobs (run dup_key).
THEOREM OneJobForEachKey == Spec /\ []SubmittedOneByOne => []OneJobPerKey
<1>1. TypeInv /\ KeysNameTheirJobs => OneJobPerKey
  BY DEF TypeInv, RequestTypes, KeysNameTheirJobs, OneJobPerKey
<1>2. Spec => []TypeInv
  BY TypeInvInit, TypeInvStep, PTL DEF Spec
<1>3. TypeInv /\ (NewJobsUntouched /\ KeysNameTheirJobs) /\ SubmittedOneByOne /\ [Next]_vars
        => (NewJobsUntouched /\ KeysNameTheirJobs)'
  BY KeysStep
<1> QED
  BY <1>1, <1>2, <1>3, KeysInit, PTL DEF Spec

=============================================================================
