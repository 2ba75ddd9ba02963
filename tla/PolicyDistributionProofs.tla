---------------------- MODULE PolicyDistributionProofs ----------------------
(***************************************************************************)
(* Theorems about PolicyDistribution, for any number of API processes,     *)
(* gateways, workers, requests and restarts.  The argument: whatever       *)
(* carries a version number (a snapshot, a reply, what an API serves, what *)
(* a request uses, the key of a cached answer) carries the policy of that  *)
(* number with it, and a policy that was published never changes.          *)
(***************************************************************************)
EXTENDS PolicyDistribution, TLAPS

USE FeedAssumption, DistributionAssumption

RuntimesGenuine ==
  /\ \A p \in Runtimes : IsGenuine(snap[p]) /\ IsGenuine(reply[p].body)
  /\ \A m \in Managers : IsGenuine(active[m])

\* An entry was routed under the policy in its key, for a plain question.
EntryOk(k, v) ==
  cached[<<k, v>>].routed # {} =>
    /\ v \in 0..Len(published)
    /\ cached[<<k, v>>].routed = {PolicyOf(v)}
    /\ cached[<<k, v>>].question = [key |-> k, plain |-> TRUE]

CacheOk == \A k \in Keys, v \in 0..MaxVersions : EntryOk(k, v)

\* What an answer is at each step of its request.
RequestOk(r) ==
  /\ IsGenuine(using[r])
  /\ step[r] = "lookup" => asks[r].plain /\ answer[r].routed = {} /\ tries[r] = 0
  /\ step[r] = "route" => /\ answer[r].routed \subseteq {using[r].policy}
                          /\ tries[r] < Providers
  /\ step[r] \in {"calling", "answered"} =>
       answer[r].routed = {using[r].policy} /\ answer[r].question = asks[r]

RequestsOk == \A r \in Requests : RequestOk(r)

IInv == TypeOK /\ RuntimesGenuine /\ CacheOk /\ RequestsOk

-----------------------------------------------------------------------------
(* Publishing *)

LEMMA Fallbacks ==
  /\ Fallback \in Snapshot
  /\ TypeOK => IsGenuine(Fallback)
  /\ Silence \in Answer
  /\ Silence.routed = {}
<1>1. Questions # {}
  <2>1. PICK k \in Keys : TRUE
    OBVIOUS
  <2> QED
    BY <2>1, [key |-> k, plain |-> TRUE] \in Questions DEF Questions
<1>2. (CHOOSE q \in Questions : TRUE) \in Questions
  BY <1>1
<1> QED
  BY <1>2 DEF Fallback, Snapshot, Silence, Answer, TypeOK, IsGenuine, PolicyOf

\* What is published is never changed.
LEMMA FeedGrows ==
  ASSUME TypeOK, FeedNext
  PROVE  /\ published' \in Seq(Policies)
         /\ Len(published') >= Len(published)
         /\ \A v \in 0..Len(published) : PolicyOf(v)' = PolicyOf(v)
<1>1. published \in Seq(Policies)
  BY DEF TypeOK
<1>2. CASE UNCHANGED published
  BY <1>1, <1>2 DEF PolicyOf
<1>3. ASSUME NEW p \in Policies, published' = Append(published, p)
      PROVE  /\ published' \in Seq(Policies)
             /\ Len(published') >= Len(published)
             /\ \A v \in 0..Len(published) : PolicyOf(v)' = PolicyOf(v)
  BY <1>1, <1>3 DEF PolicyOf
<1>4. UNCHANGED published \/ \E p \in Policies : published' = Append(published, p)
  BY DEF FeedNext, Commit, Activate, Crash, Start
<1> QED
  BY <1>2, <1>3, <1>4

\* What was genuine stays so.
LEMMA GenuineStays ==
  ASSUME TypeOK, FeedNext, NEW s, IsGenuine(s)
  PROVE  s.version \in 0..Len(published') /\ s.policy = PolicyOf(s.version)'
<1>1. Len(published) \in Nat /\ Len(published') \in Nat
  BY FeedGrows DEF TypeOK
<1> QED
  BY <1>1, FeedGrows DEF IsGenuine

LEMMA VersionGenuine ==
  ASSUME TypeOK, NEW n \in Versions
  PROVE  Version(n) \in Snapshot /\ IsGenuine(Version(n))
BY DEF TypeOK, Versions, Version, Snapshot, IsGenuine, PolicyOf

LEMMA FeedKeeps ==
  ASSUME IInv, Feed
  PROVE  IInv'
<1>1. FeedNext /\ TypeOK /\ Len(published') <= MaxVersions
      /\ UNCHANGED <<runtimeVars, cached, requestVars>>
  BY DEF Feed, IInv
<1>2. published' \in Seq(Policies) /\ Len(published') \in 1..MaxVersions
  BY <1>1, FeedGrows DEF TypeOK
<1>3. Len(published) \in 1..MaxVersions
  BY <1>1 DEF TypeOK
<1>4. ASSUME NEW m \in Managers
      PROVE  active'[m] \in Snapshot /\ IsGenuine(active[m])'
  <2>1. IsGenuine(active[m]) /\ active[m] \in Snapshot
    BY DEF IInv, RuntimesGenuine, TypeOK
  <2>2. CASE active'[m] = active[m]
    BY <1>1, <2>1, <2>2, GenuineStays DEF IsGenuine
  <2>3. CASE active'[m] # active[m]
    <3>1. UNCHANGED published /\ \E n \in Versions : active'[m] = Version(n)
      BY <1>1, <1>3, <2>3 DEF FeedNext, Commit, Activate, Crash, Start, TypeOK, Latest, Versions
    <3>2. PICK n \in Versions : active'[m] = Version(n)
      BY <3>1
    <3>3. Version(n) \in Snapshot /\ IsGenuine(Version(n))
      BY <1>1, VersionGenuine
    <3> QED
      BY <3>1, <3>2, <3>3 DEF IsGenuine, PolicyOf
  <2> QED
    BY <2>2, <2>3
<1>5. up' \in [Managers -> BOOLEAN] /\ active' \in [Managers -> Snapshot]
  <2>1. up' \in [Managers -> BOOLEAN]
    <3>1. up \in [Managers -> BOOLEAN]
      BY <1>1 DEF TypeOK
    <3>2. UNCHANGED up \/ \E m \in Managers, b \in BOOLEAN : up' = [up EXCEPT ![m] = b]
      BY <1>1 DEF FeedNext, Commit, Activate, Crash, Start
    <3> QED
      BY <3>1, <3>2
  <2>2. DOMAIN active' = Managers /\ active' = [m \in Managers |-> active'[m]]
    BY <1>1 DEF FeedNext, Commit, Activate, Crash, Start, TypeOK
  <2> QED
    BY <1>4, <2>1, <2>2
<1>6. TypeOK'
  BY <1>1, <1>2, <1>5 DEF TypeOK, runtimeVars, requestVars
<1>7. RuntimesGenuine'
  <2>1. ASSUME NEW p \in Runtimes PROVE IsGenuine(snap[p])' /\ IsGenuine(reply[p].body)'
    <3>1. IsGenuine(snap[p]) /\ IsGenuine(reply[p].body) /\ UNCHANGED <<snap, reply>>
      BY <1>1 DEF IInv, RuntimesGenuine, runtimeVars
    <3> QED
      BY <1>1, <3>1, GenuineStays DEF IsGenuine
  <2> QED
    BY <1>4, <2>1 DEF RuntimesGenuine
<1>8. CacheOk'
  <2> SUFFICES ASSUME NEW k \in Keys, NEW v \in 0..MaxVersions PROVE EntryOk(k, v)'
    BY DEF CacheOk
  <2>1. EntryOk(k, v) /\ UNCHANGED cached
    BY <1>1 DEF IInv, CacheOk
  <2>2. v \in 0..Len(published) => v \in 0..Len(published') /\ PolicyOf(v)' = PolicyOf(v)
    BY <1>1, <1>2, <1>3, FeedGrows
  <2> QED
    BY <2>1, <2>2 DEF EntryOk
<1>9. RequestsOk'
  <2> SUFFICES ASSUME NEW r \in Requests PROVE RequestOk(r)'
    BY DEF RequestsOk
  <2>1. RequestOk(r) /\ UNCHANGED <<at, step, asks, using, tries, answer>>
    BY <1>1 DEF IInv, RequestsOk, requestVars
  <2>2. IsGenuine(using[r])'
    BY <1>1, <2>1, GenuineStays DEF RequestOk, IsGenuine
  <2> QED
    BY <2>1, <2>2 DEF RequestOk
<1> QED
  BY <1>6, <1>7, <1>8, <1>9 DEF IInv

-----------------------------------------------------------------------------
(* Polling *)

\* A step of a runtime that touches neither the feed nor the requests.
LEMMA RuntimeKeeps ==
  ASSUME IInv, UNCHANGED <<feedVars, cached, at, asks, using, tries>>,
         snap' \in [Runtimes -> Snapshot], etag' \in [Gateways -> Nat],
         reply' \in [Runtimes -> [status : {0, 200, 304}, body : Snapshot, valid : BOOLEAN]],
         polling' \in SUBSET Runtimes, restarts' \in 0..MaxRestarts,
         \A p \in Runtimes : IsGenuine(snap'[p]) /\ IsGenuine(reply'[p].body),
         \/ UNCHANGED <<step, answer>>
         \/ \E p \in Runtimes :
              /\ step' = [r \in Requests |-> IF at[r] = p THEN "idle" ELSE step[r]]
              /\ answer' = [r \in Requests |-> IF at[r] = p THEN Silence ELSE answer[r]]
  PROVE  IInv'
<1>1. /\ step' \in [Requests -> {"idle", "lookup", "route", "calling", "answered", "failed"}]
      /\ answer' \in [Requests -> Answer]
  <2>1. /\ step \in [Requests -> {"idle", "lookup", "route", "calling", "answered", "failed"}]
        /\ answer \in [Requests -> Answer] /\ Silence \in Answer
    BY Fallbacks DEF IInv, TypeOK
  <2>2. CASE UNCHANGED <<step, answer>>
    BY <2>1, <2>2
  <2>3. ASSUME NEW p \in Runtimes,
               step' = [r \in Requests |-> IF at[r] = p THEN "idle" ELSE step[r]],
               answer' = [r \in Requests |-> IF at[r] = p THEN Silence ELSE answer[r]]
        PROVE  /\ step' \in [Requests -> {"idle", "lookup", "route", "calling", "answered", "failed"}]
               /\ answer' \in [Requests -> Answer]
    BY <2>1, <2>3
  <2> QED
    BY <2>2, <2>3
<1>2. TypeOK'
  BY <1>1 DEF IInv, TypeOK, feedVars
<1>3. RuntimesGenuine'
  BY DEF IInv, RuntimesGenuine, IsGenuine, PolicyOf, feedVars
<1>4. CacheOk'
  <2> SUFFICES ASSUME NEW k \in Keys, NEW v \in 0..MaxVersions PROVE EntryOk(k, v)'
    BY DEF CacheOk
  <2>1. EntryOk(k, v)
    BY DEF IInv, CacheOk
  <2> QED
    BY <2>1 DEF EntryOk, PolicyOf, feedVars
<1>5. ASSUME NEW r \in Requests PROVE RequestOk(r)'
  <2>1. RequestOk(r)
    BY DEF IInv, RequestsOk
  <2>2. step'[r] = "idle" \/ (step'[r] = step[r] /\ answer'[r] = answer[r])
    OBVIOUS
  <2>3. IsGenuine(using[r])'
    BY <2>1 DEF RequestOk, IsGenuine, PolicyOf, feedVars
  <2> QED
    BY <2>1, <2>2, <2>3 DEF RequestOk
<1> QED
  BY <1>2, <1>3, <1>4, <1>5 DEF IInv, RequestsOk

LEMMA PollKeeps ==
  ASSUME IInv, NEW p \in Runtimes, NEW m \in Managers, Poll(p, m)
  PROVE  IInv'
<1>1. PICK valid \in BOOLEAN : reply' = [reply EXCEPT ![p] =
         IF active[m].version = Known(p)
         THEN NotModified
         ELSE [status |-> 200, body |-> active[m], valid |-> valid]]
  BY DEF Poll
<1>2. /\ active[m] \in Snapshot /\ IsGenuine(active[m])
      /\ Fallback \in Snapshot /\ IsGenuine(Fallback)
  BY Fallbacks DEF IInv, TypeOK, RuntimesGenuine
<1>4. reply \in [Runtimes -> [status : {0, 200, 304}, body : Snapshot, valid : BOOLEAN]]
  BY DEF IInv, TypeOK
<1>5. reply' \in [Runtimes -> [status : {0, 200, 304}, body : Snapshot, valid : BOOLEAN]]
  BY <1>1, <1>2, <1>4 DEF NotModified
<1>6. ASSUME NEW q \in Runtimes PROVE IsGenuine(reply'[q].body)
  <2>1. IsGenuine(reply[q].body)
    BY DEF IInv, RuntimesGenuine
  <2>2. reply'[q].body \in {reply[q].body, Fallback, active[m]}
    BY <1>1, <1>4 DEF NotModified
  <2> QED
    BY <1>2, <2>1, <2>2
<1>7. UNCHANGED <<feedVars, snap, etag, polling, restarts, cached, requestVars>>
  BY DEF Poll
<1>8. \A q \in Runtimes : IsGenuine(snap[q])
  BY DEF IInv, RuntimesGenuine
<1>9. /\ snap \in [Runtimes -> Snapshot] /\ etag \in [Gateways -> Nat]
      /\ polling \in SUBSET Runtimes /\ restarts \in 0..MaxRestarts
  BY DEF IInv, TypeOK
<1> QED
  BY <1>5, <1>6, <1>7, <1>8, <1>9, RuntimeKeeps DEF requestVars

LEMMA RefreshKeeps ==
  ASSUME IInv, NEW p \in Runtimes, Install(p) \/ Choke(p) \/ LoseReply(p) \/ Restart(p)
  PROVE  IInv'
<1>1. /\ snap \in [Runtimes -> Snapshot] /\ etag \in [Gateways -> Nat]
      /\ reply \in [Runtimes -> [status : {0, 200, 304}, body : Snapshot, valid : BOOLEAN]]
      /\ polling \in SUBSET Runtimes /\ restarts \in 0..MaxRestarts
  BY DEF IInv, TypeOK
<1>2. \A q \in Runtimes : IsGenuine(snap[q]) /\ IsGenuine(reply[q].body)
  BY DEF IInv, RuntimesGenuine
<1>3. /\ NoReply \in [status : {0, 200, 304}, body : Snapshot, valid : BOOLEAN]
      /\ IsGenuine(NoReply.body)
  BY Fallbacks DEF NoReply, IInv
<1>4. reply' = [reply EXCEPT ![p] = NoReply]
  BY DEF Install, Choke, LoseReply, Restart
<1>5. /\ reply' \in [Runtimes -> [status : {0, 200, 304}, body : Snapshot, valid : BOOLEAN]]
      /\ \A q \in Runtimes : IsGenuine(reply'[q].body)
  BY <1>1, <1>2, <1>3, <1>4
<1>6. restarts' \in 0..MaxRestarts /\ polling' \in SUBSET Runtimes /\ etag' \in [Gateways -> Nat]
  <2>1. reply[p].body.version \in Nat
    BY <1>1 DEF Snapshot
  <2> QED
    BY <1>1, <2>1 DEF Install, Choke, LoseReply, Restart
<1>7. snap' \in [Runtimes -> Snapshot] /\ \A q \in Runtimes : IsGenuine(snap'[q])
  <2>1. CASE Install(p) \/ Choke(p) \/ LoseReply(p)
    BY <1>1, <1>2, <2>1 DEF Install, Choke, LoseReply
  <2>2. CASE Restart(p)
    <3>1. PICK s \in Loadable(p) : snap' = [snap EXCEPT ![p] = s]
      BY <2>2 DEF Restart
    <3>2. s \in Snapshot /\ IsGenuine(s)
      <4>1. TypeOK
        BY DEF IInv
      <4>2. CASE \E n \in Versions : s = Version(n)
        BY <4>1, <4>2, VersionGenuine
      <4>3. CASE s = Fallback
        BY <4>1, <4>3, Fallbacks
      <4>4. CASE \E m \in Managers : s = active[m]
        BY <4>4 DEF IInv, TypeOK, RuntimesGenuine
      <4> QED
        BY <3>1, <4>2, <4>3, <4>4 DEF Loadable
    <3> QED
      BY <1>1, <1>2, <3>1, <3>2
  <2> QED
    BY <2>1, <2>2
<1>8. \/ UNCHANGED <<step, answer>>
      \/ /\ step' = [r \in Requests |-> IF at[r] = p THEN "idle" ELSE step[r]]
         /\ answer' = [r \in Requests |-> IF at[r] = p THEN Silence ELSE answer[r]]
  BY DEF Install, Choke, LoseReply, Restart, requestVars
<1>9. UNCHANGED <<feedVars, cached, at, asks, using, tries>>
  BY DEF Install, Choke, LoseReply, Restart, requestVars
<1> QED
  BY <1>5, <1>6, <1>7, <1>8, <1>9, RuntimeKeeps

-----------------------------------------------------------------------------
(* Requests *)

Steps == {"idle", "lookup", "route", "calling", "answered", "failed"}

\* A step of one request.
LEMMA RequestKeeps ==
  ASSUME IInv, NEW r \in Requests,
         UNCHANGED <<feedVars, runtimeVars>>,
         cached' \in [CacheKeys -> Answer], CacheOk',
         at' \in [Requests -> Gateways], step' \in [Requests -> Steps],
         asks' \in [Requests -> Questions], using' \in [Requests -> Snapshot],
         tries' \in [Requests -> 0..Providers], answer' \in [Requests -> Answer],
         \A q \in Requests \ {r} :
           /\ step'[q] = step[q] /\ asks'[q] = asks[q] /\ using'[q] = using[q]
           /\ tries'[q] = tries[q] /\ answer'[q] = answer[q],
         RequestOk(r)'
  PROVE  IInv'
<1>1. TypeOK'
  BY DEF IInv, TypeOK, feedVars, runtimeVars, Steps
<1>2. RuntimesGenuine'
  BY DEF IInv, RuntimesGenuine, IsGenuine, PolicyOf, feedVars, runtimeVars
<1>3. ASSUME NEW q \in Requests PROVE RequestOk(q)'
  <2>1. CASE q = r
    BY <2>1
  <2>2. CASE q # r
    <3>1. RequestOk(q)
      BY DEF IInv, RequestsOk
    <3>2. IsGenuine(using[q])'
      BY <2>2, <3>1 DEF RequestOk, IsGenuine, PolicyOf, feedVars
    <3> QED
      BY <2>2, <3>1, <3>2 DEF RequestOk
  <2> QED
    BY <2>1, <2>2
<1> QED
  BY <1>1, <1>2, <1>3 DEF IInv, RequestsOk

\* The cache of a step that leaves it alone.
LEMMA CacheStays ==
  ASSUME IInv, UNCHANGED <<feedVars, cached>>
  PROVE  cached' \in [CacheKeys -> Answer] /\ CacheOk'
<1>1. cached' \in [CacheKeys -> Answer]
  BY DEF IInv, TypeOK
<1>2. ASSUME NEW k \in Keys, NEW v \in 0..MaxVersions PROVE EntryOk(k, v)'
  <2>1. EntryOk(k, v)
    BY DEF IInv, CacheOk
  <2> QED
    BY <2>1 DEF EntryOk, PolicyOf, feedVars
<1> QED
  BY <1>1, <1>2 DEF CacheOk

\* What the invariant says of a request and its gateway.
LEMMA Requested ==
  ASSUME IInv, NEW r \in Requests
  PROVE  /\ RequestOk(r)
         /\ at \in [Requests -> Gateways] /\ step \in [Requests -> Steps]
         /\ asks \in [Requests -> Questions] /\ using \in [Requests -> Snapshot]
         /\ tries \in [Requests -> 0..Providers] /\ answer \in [Requests -> Answer]
         /\ using[r].version \in 0..MaxVersions
         /\ CacheKey(r) \in CacheKeys
<1>1. /\ RequestOk(r) /\ TypeOK
      /\ at \in [Requests -> Gateways] /\ step \in [Requests -> Steps]
      /\ asks \in [Requests -> Questions] /\ using \in [Requests -> Snapshot]
      /\ tries \in [Requests -> 0..Providers] /\ answer \in [Requests -> Answer]
  BY DEF IInv, RequestsOk, TypeOK, Steps
<1>2. using[r].version \in 0..MaxVersions
  BY <1>1 DEF TypeOK, RequestOk, IsGenuine
<1>3. CacheKey(r) \in CacheKeys
  BY <1>1, <1>2 DEF CacheKey, CacheKeys, Questions
<1> QED
  BY <1>1, <1>2, <1>3

LEMMA ArriveKeeps ==
  ASSUME IInv, NEW r \in Requests, NEW g \in Gateways, NEW q \in Questions, Arrive(r, g, q)
  PROVE  IInv'
<1>1. /\ snap[g] \in Snapshot /\ IsGenuine(snap[g])
      /\ Silence \in Answer /\ Silence.routed = {}
  BY Fallbacks DEF IInv, TypeOK, RuntimesGenuine, Runtimes
<1>2. UNCHANGED <<feedVars, runtimeVars, cached>>
  BY DEF Arrive
<1>3. /\ at' = [at EXCEPT ![r] = g] /\ asks' = [asks EXCEPT ![r] = q]
      /\ using' = [using EXCEPT ![r] = snap[g]] /\ tries' = [tries EXCEPT ![r] = 0]
      /\ answer' = [answer EXCEPT ![r] = Silence]
      /\ step' = [step EXCEPT ![r] = IF q.plain THEN "lookup" ELSE "route"]
  BY DEF Arrive, Goto, Bypasses
<1>4. /\ at' \in [Requests -> Gateways] /\ asks' \in [Requests -> Questions]
      /\ using' \in [Requests -> Snapshot] /\ tries' \in [Requests -> 0..Providers]
      /\ answer' \in [Requests -> Answer]
  BY <1>1, <1>3, Requested
<1>5. step' \in [Requests -> Steps]
  BY <1>3, Requested DEF Steps
<1>6. /\ step'[r] \in {"lookup", "route"} /\ (step'[r] = "lookup" => q.plain)
      /\ asks'[r] = q /\ using'[r] = snap[g] /\ tries'[r] = 0 /\ answer'[r] = Silence
  BY <1>3, Requested
<1>7. IsGenuine(using[r])'
  BY <1>1, <1>2, <1>6 DEF IsGenuine, PolicyOf, feedVars
<1>8. RequestOk(r)'
  BY <1>1, <1>6, <1>7 DEF RequestOk
<1>9. \A o \in Requests \ {r} :
        /\ step'[o] = step[o] /\ asks'[o] = asks[o] /\ using'[o] = using[o]
        /\ tries'[o] = tries[o] /\ answer'[o] = answer[o]
  BY <1>3, Requested
<1> QED
  BY <1>2, <1>4, <1>5, <1>8, <1>9, CacheStays, RequestKeeps

LEMMA HitKeeps ==
  ASSUME IInv, NEW r \in Requests, Hit(r)
  PROVE  IInv'
<1> DEFINE entry == cached[CacheKey(r)]
<1>1. /\ step[r] = "lookup" /\ entry.routed # {}
      /\ answer' = [answer EXCEPT ![r] = entry]
      /\ step' = [step EXCEPT ![r] = "answered"]
      /\ UNCHANGED <<feedVars, runtimeVars, cached, at, asks, using, tries>>
  BY DEF Hit, Goto
<1>2. RequestOk(r) /\ CacheKey(r) \in CacheKeys /\ using[r].version \in 0..MaxVersions
  BY Requested
<1>3. entry \in Answer
  BY <1>2 DEF IInv, TypeOK
<1>4. asks[r] \in Questions /\ asks[r].plain /\ IsGenuine(using[r])
  BY <1>1, <1>2, Requested DEF RequestOk
<1>5. EntryOk(asks[r].key, using[r].version)
  BY <1>2, <1>4 DEF IInv, CacheOk, Questions
<1>6. entry.routed = {using[r].policy}
  BY <1>1, <1>4, <1>5 DEF EntryOk, CacheKey, IsGenuine
<1>7. entry.question = asks[r]
  <2>1. entry.question = [key |-> asks[r].key, plain |-> TRUE]
    BY <1>1, <1>5 DEF EntryOk, CacheKey
  <2> QED
    BY <1>4, <2>1 DEF Questions
<1>8. /\ at' \in [Requests -> Gateways] /\ step' \in [Requests -> Steps]
      /\ asks' \in [Requests -> Questions] /\ using' \in [Requests -> Snapshot]
      /\ tries' \in [Requests -> 0..Providers] /\ answer' \in [Requests -> Answer]
  BY <1>1, <1>3, Requested DEF Steps
<1>9. step'[r] = "answered" /\ answer'[r] = entry
  BY <1>1, Requested
<1> HIDE DEF entry
<1>10. IsGenuine(using[r])'
  BY <1>1, <1>4 DEF IsGenuine, PolicyOf, feedVars
<1>11. RequestOk(r)'
  BY <1>1, <1>6, <1>7, <1>9, <1>10 DEF RequestOk
<1>12. \A o \in Requests \ {r} :
        /\ step'[o] = step[o] /\ asks'[o] = asks[o] /\ using'[o] = using[o]
        /\ tries'[o] = tries[o] /\ answer'[o] = answer[o]
  BY <1>1, Requested
<1> QED
  BY <1>1, <1>8, <1>11, <1>12, CacheStays, RequestKeeps

\* A miss and a failed call only move the request.
LEMMA MoveKeeps ==
  ASSUME IInv, NEW r \in Requests, Miss(r) \/ CallFails(r)
  PROVE  IInv'
<1>1. /\ UNCHANGED <<feedVars, runtimeVars, cached, at, asks, using, tries, answer>>
      /\ step[r] \in {"lookup", "calling"}
      /\ \E w \in {"route", "failed"} :
           /\ step' = [step EXCEPT ![r] = w]
           /\ w = "route" /\ step[r] = "calling" => tries[r] < Providers
  BY DEF Miss, CallFails, Goto
<1>2. PICK w \in {"route", "failed"} :
        /\ step' = [step EXCEPT ![r] = w]
        /\ w = "route" /\ step[r] = "calling" => tries[r] < Providers
  BY <1>1
<1>3. step' \in [Requests -> Steps] /\ step'[r] = w
      /\ \A o \in Requests \ {r} : step'[o] = step[o]
  BY <1>2, Requested DEF Steps
<1>4. IsGenuine(using[r])'
  BY <1>1, Requested DEF RequestOk, IsGenuine, PolicyOf, feedVars
<1>5. RequestOk(r)'
  BY <1>1, <1>2, <1>3, <1>4, Requested DEF RequestOk
<1> QED
  BY <1>1, <1>3, <1>5, CacheStays, Requested, RequestKeeps

LEMMA RouteKeeps ==
  ASSUME IInv, NEW r \in Requests, Route(r)
  PROVE  IInv'
<1> DEFINE given == [question |-> asks[r], routed |-> answer[r].routed \cup {using[r].policy}]
<1>1. /\ step[r] = "route" /\ UNCHANGED <<feedVars, runtimeVars, cached, at, asks, using>>
      /\ tries' = [tries EXCEPT ![r] = tries[r] + 1]
      /\ answer' = [answer EXCEPT ![r] = given]
      /\ step' = [step EXCEPT ![r] = "calling"]
  BY DEF Route, Goto
<1>2. /\ RequestOk(r) /\ asks[r] \in Questions /\ using[r] \in Snapshot
      /\ tries[r] \in 0..Providers
  BY Requested
<1>3. /\ given \in Answer /\ given.routed = {using[r].policy} /\ given.question = asks[r]
  BY <1>1, <1>2 DEF RequestOk, Answer, Snapshot
<1> HIDE DEF given
<1>4. tries[r] + 1 \in 0..Providers
  BY <1>1, <1>2 DEF RequestOk
<1>5. /\ at' \in [Requests -> Gateways] /\ step' \in [Requests -> Steps]
      /\ asks' \in [Requests -> Questions] /\ using' \in [Requests -> Snapshot]
      /\ tries' \in [Requests -> 0..Providers] /\ answer' \in [Requests -> Answer]
  BY <1>1, <1>3, <1>4, Requested DEF Steps
<1>6. step'[r] = "calling" /\ answer'[r] = given
  BY <1>1, Requested
<1>7. IsGenuine(using[r])'
  BY <1>1, <1>2 DEF RequestOk, IsGenuine, PolicyOf, feedVars
<1>8. RequestOk(r)'
  BY <1>1, <1>3, <1>6, <1>7 DEF RequestOk
<1>9. \A o \in Requests \ {r} :
        /\ step'[o] = step[o] /\ asks'[o] = asks[o] /\ using'[o] = using[o]
        /\ tries'[o] = tries[o] /\ answer'[o] = answer[o]
  BY <1>1, Requested
<1> QED
  BY <1>1, <1>5, <1>8, <1>9, CacheStays, RequestKeeps

LEMMA CallSucceedsKeeps ==
  ASSUME IInv, NEW r \in Requests, CallSucceeds(r)
  PROVE  IInv'
<1>1. /\ step[r] = "calling" /\ step' = [step EXCEPT ![r] = "answered"]
      /\ UNCHANGED <<feedVars, runtimeVars, at, asks, using, tries, answer>>
  BY DEF CallSucceeds, Goto
<1>2. /\ RequestOk(r) /\ asks[r] \in Questions /\ answer[r] \in Answer
      /\ CacheKey(r) \in CacheKeys /\ cached \in [CacheKeys -> Answer]
      /\ answer[r].routed = {using[r].policy} /\ answer[r].question = asks[r]
  BY <1>1, Requested DEF RequestOk, IInv, TypeOK
<1>3. cached' \in [CacheKeys -> Answer] /\ CacheOk'
  <2>1. CASE UNCHANGED cached
    BY <1>1, <2>1, CacheStays
  <2>2. CASE ~Bypasses(asks[r]) /\ cached' = [cached EXCEPT ![CacheKey(r)] = answer[r]]
    <3>1. cached' \in [CacheKeys -> Answer]
      BY <1>2, <2>2
    <3>2. asks[r] = [key |-> asks[r].key, plain |-> TRUE]
      BY <1>2, <2>2 DEF Bypasses, Questions
    <3>3. ASSUME NEW k \in Keys, NEW v \in 0..MaxVersions PROVE EntryOk(k, v)'
      <4>1. EntryOk(k, v) /\ <<k, v>> \in CacheKeys
        BY DEF IInv, CacheOk, CacheKeys
      <4>2. CASE <<k, v>> = CacheKey(r)
        <5>1. k = asks[r].key /\ v = using[r].version
          BY <4>2 DEF CacheKey
        <5>2. cached'[<<k, v>>] = answer[r]
          BY <1>2, <2>2, <4>2
        <5>3. /\ v \in 0..Len(published') /\ using[r].policy = PolicyOf(v)'
          BY <1>1, <1>2, <5>1 DEF RequestOk, IsGenuine, PolicyOf, feedVars
        <5>4. answer[r].question = [key |-> k, plain |-> TRUE]
          BY <1>2, <3>2, <5>1
        <5> QED
          BY <1>2, <5>2, <5>3, <5>4 DEF EntryOk
      <4>3. CASE <<k, v>> # CacheKey(r)
        <5>1. cached'[<<k, v>>] = cached[<<k, v>>]
          BY <1>2, <2>2, <4>1, <4>3
        <5> QED
          BY <1>1, <4>1, <5>1 DEF EntryOk, PolicyOf, feedVars
      <4> QED
        BY <4>2, <4>3
    <3> QED
      BY <3>1, <3>3 DEF CacheOk
  <2> QED
    BY <2>1, <2>2 DEF CallSucceeds
<1>4. step' \in [Requests -> Steps] /\ step'[r] = "answered"
      /\ \A o \in Requests \ {r} : step'[o] = step[o]
  BY <1>1, Requested DEF Steps
<1>5. IsGenuine(using[r])'
  BY <1>1, <1>2 DEF RequestOk, IsGenuine, PolicyOf, feedVars
<1>6. RequestOk(r)'
  BY <1>1, <1>2, <1>4, <1>5 DEF RequestOk
<1> QED
  BY <1>1, <1>3, <1>4, <1>6, Requested, RequestKeeps
-----------------------------------------------------------------------------
(* The theorems *)

LEMMA InitIInv ==
  ASSUME Init
  PROVE  IInv
<1>1. /\ published = <<Baseline>> /\ Len(published) = 1 /\ published[1] = Baseline
      /\ Latest = [version |-> 1, policy |-> Baseline]
  BY DEF Init, FeedInit, Latest, Version
<1>2. Latest \in Snapshot /\ IsGenuine(Latest)
  BY <1>1 DEF Snapshot, IsGenuine, PolicyOf
<1>3. /\ Fallback \in Snapshot /\ IsGenuine(Fallback)
  BY <1>1 DEF Fallback, Snapshot, IsGenuine, PolicyOf
<1>4. NoReply \in [status : {0, 200, 304}, body : Snapshot, valid : BOOLEAN]
      /\ IsGenuine(NoReply.body) /\ Silence \in Answer /\ Silence.routed = {}
  BY <1>3, Fallbacks DEF NoReply
<1>5. TypeOK
  <2>1. published \in Seq(Policies) /\ Len(published) \in 1..MaxVersions
    BY <1>1
  <2>2. /\ up \in [Managers -> BOOLEAN] /\ active \in [Managers -> Snapshot]
        /\ snap \in [Runtimes -> Snapshot] /\ etag \in [Gateways -> Nat]
    BY <1>2 DEF Init, FeedInit
  <2>3. /\ reply \in [Runtimes -> [status : {0, 200, 304}, body : Snapshot, valid : BOOLEAN]]
        /\ cached \in [CacheKeys -> Answer]
        /\ polling \in SUBSET Runtimes /\ restarts \in 0..MaxRestarts
    BY <1>4 DEF Init
  <2>4. /\ at \in [Requests -> Gateways] /\ step \in [Requests -> Steps]
        /\ asks \in [Requests -> Questions] /\ using \in [Requests -> Snapshot]
        /\ tries \in [Requests -> 0..Providers] /\ answer \in [Requests -> Answer]
    BY <1>3, <1>4 DEF Init, Steps
  <2> QED
    BY <2>1, <2>2, <2>3, <2>4 DEF TypeOK, Steps
<1>6. RuntimesGenuine
  BY <1>2, <1>4 DEF Init, FeedInit, RuntimesGenuine
<1>7. CacheOk
  BY <1>4 DEF Init, CacheOk, EntryOk, CacheKeys
<1>8. RequestsOk
  BY <1>3 DEF Init, RequestsOk, RequestOk
<1> QED
  BY <1>5, <1>6, <1>7, <1>8 DEF IInv

LEMMA NextIInv ==
  ASSUME IInv, [Next]_vars
  PROVE  IInv'
<1>1. ASSUME NEW p \in Runtimes, Refresh(p) \/ LoseReply(p) \/ Restart(p)
      PROVE  IInv'
  BY <1>1, PollKeeps, RefreshKeeps DEF Refresh
<1>2. ASSUME NEW r \in Requests, Handle(r)
      PROVE  IInv'
  BY <1>2, ArriveKeeps, HitKeeps, MoveKeeps, RouteKeeps, CallSucceedsKeeps DEF Handle
<1>3. CASE UNCHANGED vars
  <2>1. UNCHANGED <<feedVars, cached, at, asks, using, tries, step, answer>>
        /\ UNCHANGED <<snap, etag, reply, polling, restarts>>
    BY <1>3 DEF vars, runtimeVars, requestVars
  <2>2. /\ snap' \in [Runtimes -> Snapshot] /\ etag' \in [Gateways -> Nat]
        /\ reply' \in [Runtimes -> [status : {0, 200, 304}, body : Snapshot, valid : BOOLEAN]]
        /\ polling' \in SUBSET Runtimes /\ restarts' \in 0..MaxRestarts
        /\ \A p \in Runtimes : IsGenuine(snap'[p]) /\ IsGenuine(reply'[p].body)
    BY <2>1 DEF IInv, TypeOK, RuntimesGenuine
  <2> QED
    BY <2>1, <2>2, RuntimeKeeps
<1> QED
  BY <1>1, <1>2, <1>3, FeedKeeps DEF Next

LEMMA Invariance == Spec => []IInv
<1>1. Init => IInv
  BY InitIInv
<1>2. IInv /\ [Next]_vars => IInv'
  BY NextIInv
<1> QED
  BY <1>1, <1>2, PTL DEF Spec

\* Every variable has the type its part of the code gives it: the snapshots,
\* the polls, the cache and the requests of gateway/app/main.py.
THEOREM TypeCorrect == Spec => []TypeOK
<1>1. IInv => TypeOK
  BY DEF IInv
<1> QED
  BY <1>1, Invariance, PTL

\* No runtime of a gateway or a worker ever holds a policy under a number it
\* was not published under.
THEOREM GenuineAlways == Spec => []SnapshotsAreGenuine
<1>1. IInv => SnapshotsAreGenuine
  BY DEF IInv, RuntimesGenuine, SnapshotsAreGenuine
<1> QED
  BY <1>1, Invariance, PTL

\* No answer mixes policies, from whichever gateway's entry in the cache it is.
THEOREM RoutedAlways == Spec => []RoutedUnderItsVersion
<1>1. ASSUME IInv, NEW r \in Requests, step[r] = "answered"
      PROVE  answer[r].routed = {PolicyOf(using[r].version)}
  BY <1>1 DEF IInv, RequestsOk, RequestOk, IsGenuine
<1>2. IInv => RoutedUnderItsVersion
  BY <1>1 DEF RoutedUnderItsVersion
<1> QED
  BY <1>2, Invariance, PTL

\* No request is answered with the answer to another question.
THEOREM AnswersAlways == Spec => []AnswersTheQuestion
<1>1. IInv => AnswersTheQuestion
  BY DEF IInv, RequestsOk, RequestOk, AnswersTheQuestion
<1> QED
  BY <1>1, Invariance, PTL

-----------------------------------------------------------------------------
(* Not modified *)

\* The ETag of a gateway is that of its snapshot, and no API serves version 0,
\* the number of the built-in policy.
Tagged ==
  /\ \A p \in Gateways : etag[p] \in {0, snap[p].version}
  /\ \A m \in Managers : active[m].version # 0

LEMMA InitTagged ==
  ASSUME Init
  PROVE  Tagged
BY DEF Init, FeedInit, Latest, Version, Tagged

LEMMA NextTagged ==
  ASSUME IInv, Tagged, [Next]_vars
  PROVE  Tagged'
<1> USE DEF Tagged
<1>1. CASE Feed
  <2>1. UNCHANGED <<snap, etag>>
    BY <1>1 DEF Feed, runtimeVars
  <2>2. Len(published) \in Nat \ {0}
    BY DEF IInv, TypeOK
  <2>3. ASSUME NEW m \in Managers PROVE active'[m].version # 0
    <3>1. active'[m] = active[m] \/ \E n \in Versions : active'[m] = Version(n)
      BY <1>1, <2>2 DEF Feed, FeedNext, Commit, Activate, Crash, Start, Latest, Versions,
                        IInv, TypeOK
    <3>2. \A n \in Versions : Version(n).version # 0
      BY <2>2 DEF Versions, Version
    <3> QED
      BY <3>1, <3>2
  <2> QED
    BY <2>1, <2>3
<1>2. ASSUME NEW p \in Runtimes, Refresh(p) \/ LoseReply(p) \/ Restart(p)
      PROVE  Tagged'
  <2>1. UNCHANGED active
    BY <1>2 DEF Refresh, Poll, Install, Choke, LoseReply, Restart, feedVars
  <2>2. ASSUME NEW g \in Gateways PROVE etag'[g] \in {0, snap'[g].version}
    <3>1. /\ snap \in [Runtimes -> Snapshot] /\ etag \in [Gateways -> Nat]
          /\ g \in Runtimes /\ etag[g] \in {0, snap[g].version}
      BY DEF IInv, TypeOK, Runtimes
    <3>2. CASE UNCHANGED <<snap, etag>>
      BY <3>1, <3>2
    <3>3. CASE Install(p)
      BY <3>1, <3>3 DEF Install
    <3>4. CASE Restart(p)
      BY <3>1, <3>4 DEF Restart
    <3> QED
      BY <1>2, <3>2, <3>3, <3>4 DEF Refresh, Poll, Choke, LoseReply
  <2> QED
    BY <2>1, <2>2
<1>3. CASE UNCHANGED <<feedVars, runtimeVars>>
  BY <1>3 DEF feedVars, runtimeVars
<1>4. ASSUME NEW r \in Requests, Handle(r)
      PROVE  UNCHANGED <<feedVars, runtimeVars>>
  BY <1>4 DEF Handle, Arrive, Hit, Miss, Route, CallFails, CallSucceeds
<1> QED
  BY <1>1, <1>2, <1>3, <1>4 DEF Next, vars

\* A 304 is only ever given to a process that holds what the API serves.
LEMMA Unmodified ==
  ASSUME IInv, Tagged, [Next]_vars, NEW p \in Runtimes,
         reply'[p].status = 304, reply[p] = NoReply
  PROVE  \E m \in Managers : up[m] /\ active[m] = snap[p]
<1>1. NoReply.status # 304 /\ reply \in [Runtimes -> [status : {0, 200, 304}, body : Snapshot, valid : BOOLEAN]]
  BY DEF NoReply, IInv, TypeOK
<1>2. \E q \in Runtimes, m \in Managers : Poll(q, m)
  <2>1. ASSUME NEW q \in Runtimes, Install(q) \/ Choke(q) \/ LoseReply(q) \/ Restart(q)
        PROVE  reply'[p].status # 304
    <3>1. reply' = [reply EXCEPT ![q] = NoReply]
      BY <2>1 DEF Install, Choke, LoseReply, Restart
    <3> QED
      BY <1>1, <3>1
  <2>2. ASSUME UNCHANGED runtimeVars
        PROVE  FALSE
    BY <1>1, <2>2 DEF runtimeVars
  <2>3. ASSUME NEW r \in Requests, Handle(r)
        PROVE  UNCHANGED runtimeVars
    BY <2>3 DEF Handle, Arrive, Hit, Miss, Route, CallFails, CallSucceeds
  <2> QED
    BY <2>1, <2>2, <2>3 DEF Next, vars, Feed, Refresh
<1>3. PICK q \in Runtimes, m \in Managers : Poll(q, m)
  BY <1>2
<1>4. up[m] /\ p = q /\ active[m].version = Known(p)
  BY <1>1, <1>3 DEF Poll
<1>5. active[m].version = snap[p].version
  BY <1>4 DEF Known, Tagged
<1>6. /\ active[m] \in Snapshot /\ IsGenuine(active[m])
      /\ snap[p] \in Snapshot /\ IsGenuine(snap[p])
  BY DEF IInv, TypeOK, RuntimesGenuine
<1>7. active[m] = snap[p]
  BY <1>5, <1>6 DEF Snapshot, IsGenuine
<1> QED
  BY <1>4, <1>7

\* A 304 is the truth, for gateways that compare ETags and for workers that
\* compare versions.
THEOREM NotModifiedAlways == Spec => NotModifiedIsCurrent
<1>1. Init => Tagged
  BY InitTagged
<1>2. IInv /\ Tagged /\ [Next]_vars => Tagged'
  BY NextTagged
<1>3. IInv /\ Tagged /\ [Next]_vars =>
        [\A p \in Runtimes :
           reply'[p].status = 304 /\ reply[p] = NoReply =>
             \E m \in Managers : up[m] /\ active[m] = snap[p]]_vars
  BY Unmodified
<1> QED
  BY <1>1, <1>2, <1>3, Invariance, PTL DEF Spec, NotModifiedIsCurrent

=============================================================================
