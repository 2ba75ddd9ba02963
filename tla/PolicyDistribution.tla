------------------------- MODULE PolicyDistribution -------------------------
(***************************************************************************)
(* How a published policy reaches the processes that act on it: the policy *)
(* runtimes of the gateway (gateway/app/policy.py) and of the worker       *)
(* (automation/app/policy_runtime.py), which start from the mounted file   *)
(* and then poll GET /v1/policies/active with an ETag, and the requests of *)
(* the gateway (chat_completions in gateway/app/main.py), which are served *)
(* under the snapshot they began with and share a cache of answers.        *)
(*                                                                         *)
(* The refresher of a process is one thread or task, so it has one poll at *)
(* a time.  That of a worker survives whatever a poll raises; that of a    *)
(* gateway ends with the first exception refresh_once does not catch.      *)
(* Otherwise a poll that fails (no connection, a status other than 200 and *)
(* 304) changes nothing and is no step of the model, unless its answer was *)
(* on its way.  Whatever makes Redis forget or refuse an entry is a miss.  *)
(***************************************************************************)
EXTENDS PolicyFeed

CONSTANTS
  Gateways, Workers,  \* the processes with a policy runtime
  Default,            \* DEFAULT_GATEWAY_POLICY
  Requests,           \* clients with their current request, all of model "auto"
  Keys,               \* what the cache key covers: messages, routing constraints
  Providers,          \* the number of providers a request can be given
  MaxVersions,        \* bounds the model: how many policies are published
  MaxRestarts         \* bounds the model: how many runtimes are restarted

ASSUME DistributionAssumption ==
  /\ Default \in Policies
  /\ Gateways \cap Workers = {}
  /\ Keys # {}
  /\ Providers \in Nat \ {0}
  /\ MaxVersions \in Nat \ {0}
  /\ MaxRestarts \in Nat

VARIABLES
  snap,      \* the snapshot of each runtime: _snapshot, _active
  etag,      \* _etag of a gateway, as the version in it; 0 for None
  reply,     \* the answer its refresher has got and not yet looked at
  polling,   \* the runtimes whose refresher is still alive
  restarts,
  cached,    \* Redis: the stored answers by key and policy version
  at,        \* the gateway that handles the request
  step,      \* how far it is
  asks,      \* its question
  using,     \* policy_snapshot of the request
  tries,     \* Len(tried_names)
  answer     \* what was answered: to which question, routed under which policies

runtimeVars == <<snap, etag, reply, polling, restarts>>
requestVars == <<at, step, asks, using, tries, answer>>
vars        == <<feedVars, runtimeVars, cached, requestVars>>

Runtimes == Gateways \cup Workers

\* What version v stands for.  The number a gateway without a mounted file
\* gives to its built-in policy is 1; the versions of the shipped store begin
\* above it, so it is not the number of a published version (0 here).
PolicyOf(v) == IF v = 0 THEN Default ELSE published[v]

\* A fallback that passes for the first version.
FallbackAsFirst == [version |-> 1, policy |-> Default]

Fallback == [version |-> 0, policy |-> Default]

Snapshot == [version : Nat, policy : Policies]
NoReply  == [status |-> 0, body |-> Fallback, valid |-> FALSE]
NotModified == [status |-> 304, body |-> Fallback, valid |-> FALSE]

\* A plain question has nothing that its key does not cover.
Questions == [key : Keys, plain : BOOLEAN]

\* cache_key: what it covers of a question, and the version of the request's
\* snapshot.
CacheKeys == Keys \X (0..MaxVersions)
CacheKey(r) == <<asks[r].key, using[r].version>>

\* The policies an answer was routed under; none while there is no answer.
Answer  == [question : Questions, routed : SUBSET Policies]
Silence == [question |-> CHOOSE q \in Questions : TRUE, routed |-> {}]

Init ==
  /\ FeedInit
  /\ snap = [p \in Runtimes |-> Latest]
  /\ etag = [p \in Gateways |-> 0]
  /\ reply = [p \in Runtimes |-> NoReply]
  /\ polling = Runtimes
  /\ restarts = 0
  /\ cached = [k \in CacheKeys |-> Silence]
  /\ at \in [Requests -> Gateways]
  /\ step = [r \in Requests |-> "idle"]
  /\ asks \in [Requests -> Questions]
  /\ using = [r \in Requests |-> Fallback]
  /\ tries = [r \in Requests |-> 0]
  /\ answer = [r \in Requests |-> Silence]

-----------------------------------------------------------------------------
(* Polling *)

\* If-None-Match: a gateway sends what the last answer carried, a worker the
\* version it holds.
Known(p) == IF p \in Gateways THEN etag[p] ELSE snap[p].version

\* active_policy: 304 when the client already has this version.
Poll(p, m) ==
  /\ p \in polling
  /\ reply[p] = NoReply
  /\ up[m]
  /\ \E valid \in BOOLEAN :
       reply' = [reply EXCEPT ![p] =
         IF active[m].version = Known(p)
         THEN NotModified
         ELSE [status |-> 200, body |-> active[m], valid |-> valid]]
  /\ UNCHANGED <<feedVars, snap, etag, polling, restarts, cached, requestVars>>

\* The ETag is remembered before the body is looked at.
InstallETagFirst(p) ==
  /\ reply[p] # NoReply
  /\ snap' = IF reply[p].valid THEN [snap EXCEPT ![p] = reply[p].body] ELSE snap
  /\ etag' = IF reply[p].status = 200 /\ p \in Gateways
             THEN [etag EXCEPT ![p] = reply[p].body.version] ELSE etag
  /\ reply' = [reply EXCEPT ![p] = NoReply]
  /\ UNCHANGED <<feedVars, polling, restarts, cached, requestVars>>

\* refresh_once, once the answer is there: a valid body replaces the snapshot,
\* whatever its version; a body it rejects leaves the last known good one.
Install(p) ==
  /\ reply[p] # NoReply
  /\ snap' = IF reply[p].valid THEN [snap EXCEPT ![p] = reply[p].body] ELSE snap
  /\ etag' = IF reply[p].valid /\ p \in Gateways
             THEN [etag EXCEPT ![p] = reply[p].body.version] ELSE etag
  /\ reply' = [reply EXCEPT ![p] = NoReply]
  /\ UNCHANGED <<feedVars, polling, restarts, cached, requestVars>>

\* refresh_once raises what it does not catch: the body is no object
\* (TypeError), or httpx cannot decode it (DecodingError is no TransportError),
\* whatever is said to have sent it.  _loop of a worker logs that and goes on.
\* _policy_refresh_loop of a gateway has no try: its task ends, and nobody starts
\* it again.
Choke(p) ==
  /\ p \in polling
  /\ reply[p].status # 304 /\ ~reply[p].valid
  /\ polling' = polling \ (Gateways \cap {p})
  /\ reply' = [reply EXCEPT ![p] = NoReply]
  /\ UNCHANGED <<feedVars, snap, etag, restarts, cached, requestVars>>

\* The answer does not arrive in time.
LoseReply(p) ==
  /\ reply[p] # NoReply
  /\ reply' = [reply EXCEPT ![p] = NoReply]
  /\ UNCHANGED <<feedVars, snap, etag, polling, restarts, cached, requestVars>>

\* _load_initial_snapshot: the mounted file holds some version up to now; when
\* it is missing a gateway falls back to its built-in policy and a worker asks
\* the API, as it does when the file is unreadable.  A gateway does not start
\* with an unreadable file, nor a worker without an answer.
Loadable(p) ==
  {Version(n) : n \in Versions} \cup
  (IF p \in Gateways THEN {Fallback} ELSE {active[m] : m \in {x \in Managers : up[x]}})

\* The process ends, with its poll and its requests, and starts again.
Restart(p) ==
  /\ restarts < MaxRestarts
  /\ restarts' = restarts + 1
  /\ \E s \in Loadable(p) : snap' = [snap EXCEPT ![p] = s]
  /\ etag' = IF p \in Gateways THEN [etag EXCEPT ![p] = 0] ELSE etag
  /\ reply' = [reply EXCEPT ![p] = NoReply]
  /\ polling' = polling \cup {p}
  /\ step' = [r \in Requests |-> IF at[r] = p THEN "idle" ELSE step[r]]
  /\ answer' = [r \in Requests |-> IF at[r] = p THEN Silence ELSE answer[r]]
  /\ UNCHANGED <<feedVars, cached, at, asks, using, tries>>

-----------------------------------------------------------------------------
(* Requests *)

Goto(r, where) == step' = [step EXCEPT ![r] = where]

\* bypass_cache when only the messages are compared.
NeverBypasses(q) == FALSE

\* bypass_cache: only a request that is nothing but its key may be answered
\* from the cache, or stored there.
Bypasses(q) == ~q.plain

\* The client's next request.  It takes one snapshot for all it does.
Arrive(r, g, q) ==
  /\ step[r] \in {"idle", "answered", "failed"}
  /\ at' = [at EXCEPT ![r] = g]
  /\ asks' = [asks EXCEPT ![r] = q]
  /\ using' = [using EXCEPT ![r] = snap[g]]
  /\ tries' = [tries EXCEPT ![r] = 0]
  /\ answer' = [answer EXCEPT ![r] = Silence]
  /\ Goto(r, IF Bypasses(q) THEN "route" ELSE "lookup")
  /\ UNCHANGED <<feedVars, runtimeVars, cached>>

Hit(r) ==
  /\ step[r] = "lookup"
  /\ LET entry == cached[CacheKey(r)]
     IN  /\ entry.routed # {}
         /\ answer' = [answer EXCEPT ![r] = entry]
  /\ Goto(r, "answered")
  /\ UNCHANGED <<feedVars, runtimeVars, cached, at, asks, using, tries>>

\* No entry, an expired one, or no Redis.
Miss(r) ==
  /\ step[r] = "lookup"
  /\ Goto(r, "route")
  /\ UNCHANGED <<feedVars, runtimeVars, cached, at, asks, using, tries, answer>>

\* Every selection goes by the policy the gateway has at that moment.
RouteByCurrent(r) ==
  /\ step[r] = "route"
  /\ tries' = [tries EXCEPT ![r] = @ + 1]
  /\ answer' = [answer EXCEPT ![r] = [question |-> asks[r],
                                      routed |-> @.routed \cup {snap[at[r]].policy}]]
  /\ Goto(r, "calling")
  /\ UNCHANGED <<feedVars, runtimeVars, cached, at, asks, using>>

\* _select, at first or after a failure, by the policy of the snapshot.
Route(r) ==
  /\ step[r] = "route"
  /\ tries' = [tries EXCEPT ![r] = @ + 1]
  /\ answer' = [answer EXCEPT ![r] = [question |-> asks[r],
                                      routed |-> @.routed \cup {using[r].policy}]]
  /\ Goto(r, "calling")
  /\ UNCHANGED <<feedVars, runtimeVars, cached, at, asks, using>>

\* One failover too many.
CallFailsOnce(r) ==
  /\ step[r] = "calling"
  /\ Goto(r, IF tries[r] <= Providers THEN "route" ELSE "failed")
  /\ UNCHANGED <<feedVars, runtimeVars, cached, at, asks, using, tries, answer>>

CallFails(r) ==
  /\ step[r] = "calling"
  /\ Goto(r, IF tries[r] < Providers THEN "route" ELSE "failed")
  /\ UNCHANGED <<feedVars, runtimeVars, cached, at, asks, using, tries, answer>>

\* The answer of a first choice is stored under the key that was looked up.
CallSucceeds(r) ==
  /\ step[r] = "calling"
  /\ Goto(r, "answered")
  /\ \/ UNCHANGED cached
     \/ /\ ~Bypasses(asks[r])
        /\ tries[r] = 1
        /\ cached' = [cached EXCEPT ![CacheKey(r)] = answer[r]]
  /\ UNCHANGED <<feedVars, runtimeVars, at, asks, using, tries, answer>>

-----------------------------------------------------------------------------

Feed ==
  /\ FeedNext
  /\ Len(published') <= MaxVersions
  /\ UNCHANGED <<runtimeVars, cached, requestVars>>

Refresh(p) == (\E m \in Managers : Poll(p, m)) \/ Install(p) \/ Choke(p)

Handle(r) ==
  \/ \E g \in Gateways, q \in Questions : Arrive(r, g, q)
  \/ Hit(r) \/ Miss(r) \/ Route(r) \/ CallFails(r) \/ CallSucceeds(r)

Next ==
  \/ Feed
  \/ \E p \in Runtimes : Refresh(p) \/ LoseReply(p) \/ Restart(p)
  \/ \E r \in Requests : Handle(r)

Spec == Init /\ [][Next]_vars

\* Polled, and not in vain: the answer is a 304 or a body the runtime reads.
GoodPoll(p) == \E m \in Managers : Poll(p, m) /\ (reply'[p].status = 200 => reply'[p].valid)

\* A refresher that is alive polls again and again, and looks at what it gets.
\* Polls may fail, but not all from some time on.  Nothing keeps the refresher of
\* a gateway alive.
FairSpec ==
  /\ Spec
  /\ \A p \in Runtimes :
       /\ WF_vars(Install(p))
       /\ SF_vars(GoodPoll(p))
       /\ SF_vars(Install(p) /\ reply[p].valid)

-----------------------------------------------------------------------------
(* Properties *)

TypeOK ==
  /\ published \in Seq(Policies)
  /\ Len(published) \in 1..MaxVersions
  /\ up \in [Managers -> BOOLEAN]
  /\ active \in [Managers -> Snapshot]
  /\ snap \in [Runtimes -> Snapshot]
  /\ etag \in [Gateways -> Nat]
  /\ reply \in [Runtimes -> [status : {0, 200, 304}, body : Snapshot, valid : BOOLEAN]]
  /\ polling \in SUBSET Runtimes
  /\ restarts \in 0..MaxRestarts
  /\ cached \in [CacheKeys -> Answer]
  /\ at \in [Requests -> Gateways]
  /\ step \in [Requests -> {"idle", "lookup", "route", "calling", "answered", "failed"}]
  /\ asks \in [Requests -> Questions]
  /\ using \in [Requests -> Snapshot]
  /\ tries \in [Requests -> 0..Providers]
  /\ answer \in [Requests -> Answer]

\* What a process holds under a version number is what was published under
\* it, through files, polls, restarts and API processes that lag behind.  The
\* cache key and the ETag stand and fall with this.
IsGenuine(s) == s.version \in 0..Len(published) /\ s.policy = PolicyOf(s.version)

SnapshotsAreGenuine == \A p \in Runtimes : IsGenuine(snap[p])

\* "One immutable policy snapshot per request: a policy update mid-flight must
\* not mix versions" (gateway/app/main.py), cached answers included: all of an
\* answer was routed under the policy of the version the request is labelled
\* with, also when another gateway, on its way to another version, stored it.
RoutedUnderItsVersion ==
  \A r \in Requests :
    step[r] = "answered" => answer[r].routed = {PolicyOf(using[r].version)}

\* "Otherwise two semantically different requests can collide and return the
\* same stored answer" (bypass_cache): whoever stored it, and under whatever
\* version, an answer is to the question that was asked.
AnswersTheQuestion ==
  \A r \in Requests : step[r] = "answered" => answer[r].question = asks[r]

\* A 304 is the truth: whoever is told that nothing changed holds what the
\* process that said so serves, so that no policy is missed for good.
NotModifiedIsCurrent ==
  [][\A p \in Runtimes :
       reply'[p].status = 304 /\ reply[p] = NoReply =>
         \E m \in Managers : up[m] /\ active[m] = snap[p]]_vars

\* When the API processes settle on a version, every worker comes to it and
\* stays with it, whatever its polls raised; so does every gateway whose
\* refresher has not died of what a poll raised (main.py:119, policy.py:157).
AllServe(n) == \A m \in Managers : up[m] /\ active[m].version = n

Converges ==
  \A n \in 1..MaxVersions :
    <>[]AllServe(n) => <>[](\A p \in Workers \cup polling : snap[p].version = n)

=============================================================================
