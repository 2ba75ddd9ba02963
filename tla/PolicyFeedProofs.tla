-------------------------- MODULE PolicyFeedProofs --------------------------
(***************************************************************************)
(* PolicyStore implements PolicyFeed: whoever polls the API may think of   *)
(* it as a list of policies that grows and processes that serve one each.  *)
(* The invariant of PolicyStoreProofs gives that a target or a document is *)
(* a committed version; what is missing is that a request that still runs  *)
(* has a running process.                                                  *)
(***************************************************************************)
EXTENDS PolicyStoreProofs

Listed == [n \in 1..Len(log) |-> log[n].policy]

\* The process of a request that is being handled is up.
HomesUp == \A r \in Requests : rpc[r] \notin {"new", "done"} => home[r] \in Managers /\ up[home[r]]

FInv == IInv /\ HomesUp

LEMMA HandleHomes ==
  ASSUME FInv, NEW r \in Requests, Handle(r)
  PROVE  HomesUp'
<1> USE DEF FindTarget, TargetMissing, LoadCurrent, LoadStale, LoadFails, PutAnswered, PutUnknown,
            LateArrives, LateVanishes, ReconcileFails, ReconcileNotCommitted, ReconcileActivates,
            Switch, CachePut, CacheFails, Go, Answered, storeVars, processVars,
            requestVars
<1>1. UNCHANGED <<up, home>>
  BY DEF Handle
<1>2. \/ UNCHANGED rpc
      \/ rpc[r] \notin {"new", "done"} /\ \E l \in Labels : rpc' = [rpc EXCEPT ![r] = l]
  BY DEF Handle, Labels
<1>3. rpc \in [Requests -> Labels]
  BY DEF FInv, IInv, Types
<1> QED
  BY <1>1, <1>2, <1>3 DEF FInv, HomesUp

LEMMA SubmitHomes ==
  ASSUME FInv, NEW r \in Requests, NEW m \in Managers, Submit(r, m, req'[r].base),
         UNCHANGED up, \E l \in Labels : rpc' = [rpc EXCEPT ![r] = l]
  PROVE  HomesUp'
<1>1. rpc \in [Requests -> Labels] /\ home \in [Requests -> Managers \cup {NoManager}]
  BY DEF FInv, IInv, Types
<1> QED
  BY <1>1 DEF FInv, HomesUp, Submit

LEMMA ProcessHomes ==
  ASSUME FInv, NEW m \in Managers, Crash(m) \/ Start(m)
  PROVE  HomesUp'
<1>1. rpc \in [Requests -> Labels] /\ up \in [Managers -> BOOLEAN]
  BY DEF FInv, IInv, Types
<1>2. CASE Crash(m)
  <2>1. up' = [up EXCEPT ![m] = FALSE] /\ UNCHANGED home
    BY <1>2 DEF Crash
  <2>2. rpc' = [r \in Requests |-> IF r \in InFlight /\ home[r] = m THEN "done" ELSE rpc[r]]
    BY <1>2 DEF Crash
  <2>3. ASSUME NEW r \in Requests, rpc'[r] \notin {"new", "done"}
        PROVE  home'[r] \in Managers /\ up'[home'[r]]
    <3>1. rpc[r] = rpc'[r] /\ ~(r \in InFlight /\ home[r] = m)
      BY <2>2, <2>3
    <3>2. home[r] \in Managers /\ up[home[r]] /\ home[r] # m
      BY <2>3, <3>1 DEF InFlight, FInv, HomesUp
    <3> QED
      BY <1>1, <2>1, <3>2
  <2> QED
    BY <2>3 DEF HomesUp
<1>3. CASE Start(m)
  BY <1>1, <1>3 DEF Start, requestVars, FInv, HomesUp
<1> QED
  BY <1>2, <1>3

LEMMA FeedInvariance == Spec => []FInv
<1>1. Init => HomesUp
  BY DEF Init, HomesUp
<1>2. FInv /\ [Next]_vars => HomesUp'
  <2> SUFFICES ASSUME FInv, [Next]_vars PROVE HomesUp'
    OBVIOUS
  <2>0. rpc \in [Requests -> Labels] /\ req \in [Requests -> [base : Nat, policy : Policies, from : Nat]]
    BY DEF FInv, IInv, Types
  <2>1. ASSUME NEW r \in Requests, NEW m \in Managers, NEW base \in 1..Len(log),
               NEW p \in Policies, SubmitPublish(r, m, base, p)
        PROVE  HomesUp'
    <3>1. req'[r].base = base /\ UNCHANGED up /\ \E l \in Labels : rpc' = [rpc EXCEPT ![r] = l]
      BY <2>0, <2>1 DEF SubmitPublish, Submit, Go, Labels, processVars
    <3> QED
      BY <2>1, <3>1, SubmitHomes DEF SubmitPublish
  <2>2. ASSUME NEW r \in Requests, NEW m \in Managers, NEW base \in 1..Len(log),
               NEW from \in 1..Len(log), SubmitRollback(r, m, base, from)
        PROVE  HomesUp'
    <3>1. req'[r].base = base /\ UNCHANGED up /\ \E l \in Labels : rpc' = [rpc EXCEPT ![r] = l]
      BY <2>0, <2>2 DEF SubmitRollback, Submit, Go, Labels, processVars
    <3> QED
      BY <2>2, <3>1, SubmitHomes DEF SubmitRollback
  <2>3. ASSUME NEW r \in Requests, Handle(r)
        PROVE  HomesUp'
    BY <2>3, HandleHomes
  <2>4. ASSUME NEW m \in Managers, Crash(m) \/ Start(m)
        PROVE  HomesUp'
    BY <2>4, ProcessHomes
  <2>5. CASE UNCHANGED vars
    BY <2>5 DEF vars, FInv, HomesUp
  <2> QED
    BY <2>1, <2>2, <2>3, <2>4, <2>5 DEF Next
<1>3. Spec => [](IInv /\ HomesUp)
  BY <1>1, <1>2, Invariance, PTL DEF Spec, FInv
<1> QED
  BY <1>3, PTL DEF FInv

-----------------------------------------------------------------------------
(* Steps of the store as steps of the feed *)

LEMMA ListedGrows ==
  ASSUME FInv, NEW r \in Requests, Grown(r)
  PROVE  Listed' = Append(Listed, draft[r]) /\ draft[r] \in Policies
<1>1. log \in Seq(Entries) /\ Entry(r) \in Entries /\ log' = Append(log, Entry(r))
  BY EntryType DEF FInv, IInv, StoreInv, Grown
<1>2. /\ Len(log') = Len(log) + 1
      /\ \A v \in 1..Len(log) : log'[v] = log[v]
      /\ log'[Len(log) + 1] = Entry(r)
      /\ Len(log) \in Nat
  BY <1>1, AppendKeeps
<1>3. Listed \in Seq(Policies) /\ Len(Listed) = Len(log)
  <2>1. \A n \in 1..Len(log) : log[n] \in Entries
    BY <1>1
  <2>2. \A n \in 1..Len(log) : log[n].policy \in Policies
    BY <2>1 DEF Entries
  <2>3. Listed \in [1..Len(log) -> Policies]
    BY <2>2 DEF Listed
  <2> QED
    BY <1>2, <2>3 DEF Listed
<1>4. draft[r] \in Policies /\ Entry(r).policy = draft[r]
  BY DEF FInv, IInv, Types, Entry
<1>5. /\ Append(Listed, draft[r]) = [n \in 1..(Len(log) + 1) |->
                                       IF n = Len(log) + 1 THEN draft[r] ELSE Listed[n]]
  <2> HIDE DEF Listed
  <2>1. /\ Append(Listed, draft[r]) \in Seq(Policies)
        /\ Len(Append(Listed, draft[r])) = Len(Listed) + 1
        /\ \A n \in 1..Len(Listed) : Append(Listed, draft[r])[n] = Listed[n]
        /\ Append(Listed, draft[r])[Len(Listed) + 1] = draft[r]
    BY <1>3, <1>4
  <2> QED
    BY <1>2, <1>3, <2>1
<1>6. Listed' = [n \in 1..(Len(log) + 1) |-> log'[n].policy]
  BY <1>2 DEF Listed
<1>7. ASSUME NEW n \in 1..(Len(log) + 1)
      PROVE  log'[n].policy = IF n = Len(log) + 1 THEN draft[r] ELSE Listed[n]
  BY <1>2, <1>4 DEF Listed
<1>8. Listed' = [n \in 1..(Len(log) + 1) |-> IF n = Len(log) + 1 THEN draft[r] ELSE Listed[n]]
  <2> HIDE DEF Listed
  <2> QED
    BY <1>6, <1>7
<1> HIDE DEF Listed
<1> QED
  BY <1>4, <1>5, <1>8

\* A committed version as the feed has it.
LEMMA CommittedIsVersion ==
  ASSUME FInv, NEW s \in Served, Committed(s)
  PROVE  /\ s.version \in Feed!Versions
         /\ s = Feed!Version(s.version)
<1>1. Len(log) \in Nat /\ rev = Len(log)
  BY DEF FInv, IInv, StoreInv
<1>2. s.version \in 1..Len(log) /\ log[s.version].policy = s.policy
  BY <1>1 DEF Committed
<1>3. Len([n \in 1..Len(log) |-> log[n].policy]) = Len(log)
  BY <1>1
<1>4. s = [version |-> s.version, policy |-> s.policy]
  BY DEF Served
<1> QED
  BY <1>2, <1>3, <1>4 DEF Feed!Versions, Feed!Version

LEMMA WriteFeeds ==
  ASSUME FInv, NEW r \in Requests, PutAnswered(r) \/ LateArrives(r)
  PROVE  [Feed!FeedNext]_(Feed!feedVars)
<1>1. (rpc[r] = "put" \/ r \in late) /\ Write(r) /\ UNCHANGED <<up, active>>
  BY DEF PutAnswered, LateArrives, processVars
<1>2. CASE plan[r].expect = rev
  <2>1. Grown(r)
    BY <1>1, <1>2, WriteGrows DEF FInv
  <2>2. Listed' = Append(Listed, draft[r]) /\ draft[r] \in Policies
    BY <2>1, ListedGrows
  <2>3. Feed!Commit(draft[r])
    BY <1>1, <2>2 DEF Feed!Commit, Listed
  <2>4. draft[r] \in Policies
    BY <2>2
  <2>5. \E p \in Policies : Feed!Commit(p)
    BY <2>3, <2>4 DEF Feed!Commit
  <2>6. Feed!FeedNext
    BY <2>5 DEF Feed!FeedNext
  <2> QED
    BY <2>6
<1>3. CASE plan[r].expect # rev
  <2>1. UNCHANGED log
    BY <1>1, <1>3, WriteGrows DEF FInv
  <2> QED
    BY <1>1, <2>1 DEF Feed!feedVars
<1> QED
  BY <1>2, <1>3

LEMMA SwitchFeeds ==
  ASSUME FInv, NEW r \in Requests, Switch(r)
  PROVE  Feed!FeedNext
<1>1. home[r] \in Managers /\ up[home[r]]
  BY DEF Switch, FInv, HomesUp
<1>2. target[r].record \in Served /\ Committed(target[r].record)
  BY DEF FInv, IInv, Types, ServedInv
<1>3. active' = [active EXCEPT ![home[r]] = target[r].record] /\ UNCHANGED <<log, up>>
  BY DEF Switch, storeVars
<1>4. /\ target[r].record.version \in Feed!Versions
      /\ target[r].record = Feed!Version(target[r].record.version)
  BY <1>2, CommittedIsVersion
<1>5. UNCHANGED [n \in 1..Len(log) |-> log[n].policy]
  BY <1>3
<1>6. Feed!Activate(home[r])
  BY <1>1, <1>3, <1>4, <1>5 DEF Feed!Activate
<1> QED
  BY <1>1, <1>6 DEF Feed!FeedNext

LEMMA ProcessFeeds ==
  ASSUME FInv, NEW m \in Managers, Crash(m) \/ Start(m)
  PROVE  Feed!FeedNext
<1>1. CASE Crash(m)
  <2>1. Feed!Crash(m)
    BY <1>1 DEF Crash, Feed!Crash
  <2> QED
    BY <2>1 DEF Feed!FeedNext
<1>2. CASE Start(m)
  <2>1. ActiveOf(doc) = Feed!Latest
    <3>1. rev \in Nat \ {0} /\ doc = DocAt(log, rev) /\ rev = Len(log)
      BY DEF FInv, IInv, StoreInv
    <3>2. ActiveOf(doc) = [version |-> Len(log), policy |-> log[Len(log)].policy]
      BY <3>1, ActiveOfDocAt
    <3>3. Len([n \in 1..Len(log) |-> log[n].policy]) = Len(log)
      BY <3>1
    <3> QED
      BY <3>1, <3>2, <3>3 DEF Feed!Latest, Feed!Version
  <2>2. Feed!Start(m)
    BY <1>2, <2>1 DEF Start, storeVars, Feed!Start
  <2> QED
    BY <2>2 DEF Feed!FeedNext
<1> QED
  BY <1>1, <1>2

\* What is published reaches the pollers as PolicyFeed has it: no step of a
\* publish, a rollback, a reconciliation or a crash makes a process serve what
\* was not committed, and one that starts serves the latest version
\* (policy_manager.py:341-364).
THEOREM FeedImplemented == Spec => ImplementsFeed
<1>1. Init => Feed!FeedInit
  <2> SUFFICES ASSUME Init PROVE Feed!FeedInit
    OBVIOUS
  <2>1. Len(log) = 1 /\ log[1].policy = Baseline
    BY DEF Init
  <2>2. [n \in 1..Len(log) |-> log[n].policy] = <<Baseline>>
    BY <2>1
  <2>3. ActiveOf(FirstDocument) = [version |-> 1, policy |-> Baseline]
    BY DEF ActiveOf, FirstDocument, Record
  <2> QED
    BY <2>2, <2>3 DEF Init, Feed!FeedInit, Feed!Latest, Feed!Version
<1>2. FInv /\ [Next]_vars => [Feed!FeedNext]_(Feed!feedVars)
  <2> SUFFICES ASSUME FInv, [Next]_vars
               PROVE  [Feed!FeedNext]_(Feed!feedVars)
    OBVIOUS
  <2>1. ASSUME NEW r \in Requests, NEW m \in Managers, NEW base \in 1..Len(log),
               (\E p \in Policies : SubmitPublish(r, m, base, p))
               \/ (\E from \in 1..Len(log) : SubmitRollback(r, m, base, from))
        PROVE  UNCHANGED Feed!feedVars
    BY <2>1 DEF SubmitPublish, SubmitRollback, Submit, storeVars, processVars, Feed!feedVars
  <2>2. ASSUME NEW r \in Requests, Handle(r)
        PROVE  [Feed!FeedNext]_(Feed!feedVars)
    <3>1. CASE PutAnswered(r) \/ LateArrives(r)
      BY <3>1, WriteFeeds
    <3>2. CASE Switch(r)
      BY <3>2, SwitchFeeds
    <3>3. CASE \/ FindTarget(r) \/ TargetMissing(r) \/ LoadCurrent(r) \/ LoadStale(r) \/ LoadFails(r)
               \/ PutUnknown(r) \/ LateVanishes(r) \/ CachePut(r) \/ CacheFails(r)
               \/ ReconcileFails(r) \/ ReconcileNotCommitted(r) \/ ReconcileActivates(r)
      BY <3>3 DEF FindTarget, TargetMissing, LoadCurrent, LoadStale, LoadFails, PutUnknown,
                  LateVanishes, CachePut, CacheFails, ReconcileFails, ReconcileNotCommitted,
                  ReconcileActivates, storeVars, processVars, Feed!feedVars
    <3> QED
      BY <2>2, <3>1, <3>2, <3>3 DEF Handle
  <2>3. ASSUME NEW m \in Managers, Crash(m) \/ Start(m)
        PROVE  Feed!FeedNext
    BY <2>3, ProcessFeeds
  <2>4. CASE UNCHANGED vars
    BY <2>4 DEF vars, Feed!feedVars
  <2> QED
    BY <2>1, <2>2, <2>3, <2>4 DEF Next
<1> QED
  BY <1>1, <1>2, FeedInvariance, PTL DEF Spec, ImplementsFeed, Feed!FeedSpec
=============================================================================
