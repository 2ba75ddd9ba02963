------------------------- MODULE PolicyStoreProofs -------------------------
(***************************************************************************)
(* Theorems about PolicyStore, for any number of requests, processes,      *)
(* policies, kept versions and faults.                                     *)
(*                                                                         *)
(* The argument: the stored document is a function of the log (DocAt), the *)
(* revision counts the log, and a request that has yet to write holds the  *)
(* successor of the document of the revision it expects.  A write that the *)
(* repository accepts therefore extends the log by that request's entry.   *)
(*                                                                         *)
(* What a request is told about its own write rests on one more fact: the  *)
(* n-th version is by a request based on the version before it (EntryInv). *)
(* The last part is about one process that handles requests one at a time; *)
(* there, what is served can be relied on, however late a write arrives.   *)
(***************************************************************************)
EXTENDS PolicyStore, FiniteSetTheorems, TLAPS

Entries == [policy : Policies, from : Nat, by : Requests \cup {NoRequest}]

-----------------------------------------------------------------------------
(* Documents as functions of the log *)

\* The versions kept when n have been committed.
Window(n) == {v \in 1..n : v > n - MaxVersions}
Low(n) == IF n < MaxVersions THEN 1 ELSE n - MaxVersions + 1

Stored(e, s) == [status |-> s, policy |-> e.policy, from |-> e.from, by |-> e.by]

\* The document after the first n entries of l.
DocAt(l, n) ==
  [active |-> n,
   versions |-> [v \in Window(n) |-> Stored(l[v], IF v = n THEN "active" ELSE "archived")]]

\* The document that adds e to DocAt(l, n).
NextDoc(l, n, e) ==
  [active |-> n + 1,
   versions |-> [v \in Window(n + 1) |->
                   IF v = n + 1 THEN Stored(e, "active") ELSE Stored(l[v], "archived")]]

USE StoreAssumption

LEMMA WindowIsInterval ==
  ASSUME NEW n \in Nat \ {0}
  PROVE  /\ Window(n) = Low(n)..n
         /\ Low(n) \in 1..n
         /\ IsFiniteSet(Window(n))
         /\ Cardinality(Window(n)) = n - Low(n) + 1
<1>1. Low(n) \in 1..n
  BY DEF Low
<1>2. Window(n) = Low(n)..n
  BY DEF Low, Window
<1> QED
  BY <1>1, <1>2, FS_Interval

\* The largest of a set of numbers is what it is known to be.
LEMMA HighestIs ==
  ASSUME NEW S, S \subseteq Int, NEW n \in S, \A k \in S : k <= n
  PROVE  Highest(S) = n
<1>1. \A m \in S : (\A k \in S : k <= m) => m = n
  OBVIOUS
<1>2. Highest(S) \in S /\ \A k \in S : k <= Highest(S)
  BY Zenon DEF Highest
<1> QED
  BY <1>1, <1>2

\* Truncation drops just the oldest version, and only when there is one too many.
LEMMA DroppedFromWindow ==
  ASSUME NEW n \in Nat \ {0}, NEW all,
         DOMAIN all = Window(n) \cup {n + 1},
         \A v \in Window(n) : all[v].status = "archived",
         all[n + 1].status = "active"
  PROVE  DOMAIN all \ Dropped(all) = Window(n + 1)
<1> DEFINE archived == {v \in DOMAIN all : all[v].status = "archived"}
           excess == Cardinality(DOMAIN all) - MaxVersions
<1>1. archived = Low(n)..n /\ Low(n) \in 1..n
  BY WindowIsInterval
<1>2. DOMAIN all = Low(n)..(n + 1)
  <2>1. Low(n)..(n + 1) = (Low(n)..n) \cup {n + 1}
    BY <1>1
  <2> QED
    BY <2>1, WindowIsInterval
<1>3. excess = n + 2 - Low(n) - MaxVersions
  BY <1>1, <1>2, FS_Interval
<1>4. ASSUME NEW v \in archived
      PROVE  Cardinality({u \in archived : u < v}) = v - Low(n)
  <2>1. {u \in archived : u < v} = Low(n)..(v - 1)
    BY <1>1
  <2>2. v \in Int /\ Low(n) \in Int /\ Low(n) <= v
    BY <1>1
  <2>3. Cardinality(Low(n)..(v - 1)) = v - Low(n)
    <3> HIDE DEF archived
    <3> QED
      BY <2>2, FS_Interval
  <2> QED
    BY <2>1, <2>3
<1>5. Dropped(all) = {v \in archived : v - Low(n) < excess}
  BY <1>4 DEF Dropped
<1>6. Dropped(all) = {v \in Low(n)..n : v - Low(n) < n + 2 - Low(n) - MaxVersions}
  BY <1>1, <1>3, <1>5
<1> QED
  BY <1>1, <1>2, <1>6 DEF Window, Low

\* The document _commit builds from the document of n entries.
LEMMA NewDocumentIsNext ==
  ASSUME NEW n \in Nat \ {0}, NEW l, NEW e
  PROVE  NewDocument(DocAt(l, n), Stored(e, "active")) = NextDoc(l, n, e)
<1> DEFINE d == DocAt(l, n)
           all == [v \in DOMAIN d.versions \cup {n + 1} |->
                     IF v = n + 1 THEN Stored(e, "active")
                     ELSE [d.versions[v] EXCEPT !.status = "archived"]]
<1>1. DOMAIN d.versions = Window(n)
  BY DEF DocAt
<1>2. n \in Window(n) /\ n + 1 \notin Window(n) /\ \A k \in Window(n) : k \in Int /\ k <= n
  BY DEF Window
<1>3. Highest(DOMAIN d.versions) = n
  BY <1>1, <1>2, HighestIs
<1>4. \A v \in Window(n) : all[v] = Stored(l[v], "archived")
  BY <1>1, <1>2 DEF DocAt, Stored
<1>5. all[n + 1] = Stored(e, "active")
  OBVIOUS
<1>6. DOMAIN all \ Dropped(all) = Window(n + 1)
  <2>1. DOMAIN all = Window(n) \cup {n + 1}
    BY <1>1
  <2> HIDE DEF all
  <2>2. \A v \in Window(n) : all[v].status = "archived"
    <3>1. \A x : Stored(x, "archived").status = "archived"
      BY DEF Stored
    <3> QED
      BY <1>4, <3>1, Zenon
  <2>3. all[n + 1].status = "active"
    BY <1>5 DEF Stored
  <2> QED
    BY <2>1, <2>2, <2>3, DroppedFromWindow
<1>7. \A v \in Window(n + 1) : v = n + 1 \/ v \in Window(n)
  BY DEF Window
<1>8. [v \in Window(n + 1) |-> all[v]] = NextDoc(l, n, e).versions
  BY <1>4, <1>5, <1>7 DEF NextDoc
<1>9. NewDocument(d, Stored(e, "active"))
        = [active |-> n + 1, versions |-> [v \in DOMAIN all \ Dropped(all) |-> all[v]]]
  BY <1>3, Zenon DEF NewDocument
<1> HIDE DEF all, d
<1> QED
  BY <1>6, <1>8, <1>9 DEF NextDoc, d

-----------------------------------------------------------------------------
(* The inductive invariant *)

Types ==
  /\ late \subseteq Requests
  /\ up \in [Managers -> BOOLEAN]
  /\ active \in [Managers -> Served]
  /\ ready \in [Managers -> BOOLEAN]
  /\ cache \in Served
  /\ rpc \in [Requests -> Labels]
  /\ home \in [Requests -> Managers \cup {NoManager}]
  /\ req \in [Requests -> [base : Nat, policy : Policies, from : Nat]]
  /\ draft \in [Requests -> Policies]
  /\ DOMAIN plan = Requests
  /\ target \in [Requests -> [record : Served, verdict : Verdicts]]
  /\ answer \in [Requests -> Answers]
  /\ faults \in 0..MaxFaults

\* The document is that of the whole log, and the revision its length.
StoreInv ==
  /\ log \in Seq(Entries)
  /\ rev = Len(log)
  /\ rev >= 1
  /\ doc = DocAt(log, rev)

\* The draft is what the request asks for.
Drafted(r) == draft[r] = IF req[r].from = 0 THEN req[r].policy ELSE log[req[r].from].policy

\* The request has read a document of the past and built its successor.
Planned(r) ==
  /\ Drafted(r)
  /\ req[r].base \in 1..rev
  /\ plan[r] = [old |-> DocAt(log, req[r].base),
                expect |-> req[r].base,
                new |-> NextDoc(log, req[r].base, Entry(r))]

\* What a request knows, by how far it is.
RequestOk(r) ==
  /\ rpc[r] = "new" => req[r] = NoAsk
  /\ rpc[r] # "new" => /\ home[r] \in Managers
                       /\ req[r].base \in 1..rev
                       /\ req[r].from \in 0..rev
  /\ rpc[r] = "find" => req[r].from # 0
  /\ rpc[r] = "load" => Drafted(r)
  /\ rpc[r] \in {"new", "find", "load"} => plan[r] = NoPlan
  /\ plan[r] = NoPlan \/ Planned(r)
  /\ rpc[r] \in {"put", "reconcile"} \/ r \in late => Planned(r)

\* Who has taken effect, and who may still.
AuthorOk(r) ==
  /\ rpc[r] \in {"new", "find", "load", "put"} => r \notin late
  /\ rpc[r] \in {"new", "find", "load", "put"} \/ r \in late => r \notin Authors
  /\ Refused(r) => r \notin late /\ r \notin Authors
  /\ answer[r] # "none" => rpc[r] = "done"
  /\ answer[r] = "published" => r \in Authors
  /\ rpc[r] \in {"switch", "cache"} =>
       /\ target[r].verdict \in {"published", "superseded"}
       /\ target[r].verdict = "published" => r \in Authors

RequestInv == \A r \in Requests : RequestOk(r)
AuthorInv == \A r \in Requests : AuthorOk(r)

Committed(s) == s.version \in 1..rev /\ log[s.version].policy = s.policy

ServedInv ==
  /\ Committed(cache)
  /\ \A m \in Managers : Committed(active[m])
  /\ \A r \in Requests : Committed(target[r].record)

IInv == Types /\ StoreInv /\ RequestInv /\ AuthorInv /\ ServedInv

-----------------------------------------------------------------------------
(* The log grows *)

LEMMA AppendKeeps ==
  ASSUME NEW l \in Seq(Entries), NEW e \in Entries
  PROVE  /\ Append(l, e) \in Seq(Entries)
         /\ Len(Append(l, e)) = Len(l) + 1
         /\ \A v \in 1..Len(l) : Append(l, e)[v] = l[v]
         /\ Append(l, e)[Len(l) + 1] = e
OBVIOUS

\* Appending changes neither the documents of the past nor their successors,
\* and the document of the longer log is the successor of the last one.
LEMMA DocumentsOfAppend ==
  ASSUME NEW l \in Seq(Entries), NEW e \in Entries
  PROVE  /\ \A k \in 1..Len(l) : DocAt(Append(l, e), k) = DocAt(l, k)
         /\ \A k \in 1..Len(l) : \A x : NextDoc(Append(l, e), k, x) = NextDoc(l, k, x)
         /\ DocAt(Append(l, e), Len(l) + 1) = NextDoc(l, Len(l), e)
<1> DEFINE g == Append(l, e)
<1>1. /\ \A v \in 1..Len(l) : g[v] = l[v]
      /\ g[Len(l) + 1] = e
      /\ Len(l) \in Nat
  BY AppendKeeps
<1> HIDE DEF g
<1>2. ASSUME NEW k \in 1..Len(l) PROVE DocAt(g, k) = DocAt(l, k)
  BY <1>1 DEF DocAt, Window
<1>3. ASSUME NEW k \in 1..Len(l), NEW x PROVE NextDoc(g, k, x) = NextDoc(l, k, x)
  <2>1. \A v \in Window(k + 1) : v # k + 1 => g[v] = l[v]
    BY <1>1 DEF Window
  <2> QED
    BY <2>1 DEF NextDoc
<1>4. DocAt(g, Len(l) + 1) = NextDoc(l, Len(l), e)
  <2>1. \A v \in Window(Len(l) + 1) :
          g[v] = IF v = Len(l) + 1 THEN e ELSE l[v]
    BY <1>1 DEF Window
  <2> QED
    BY <2>1 DEF DocAt, NextDoc
<1> QED
  BY <1>2, <1>3, <1>4 DEF g

LEMMA ActiveOfDocAt ==
  ASSUME NEW l, NEW n \in Nat \ {0}
  PROVE  ActiveOf(DocAt(l, n)) = [version |-> n, policy |-> l[n].policy]
<1>1. n \in Window(n)
  BY DEF Window
<1> QED
  BY <1>1 DEF ActiveOf, DocAt, Stored

LEMMA ActiveOfNextDoc ==
  ASSUME NEW l, NEW n \in Nat, NEW e
  PROVE  ActiveOf(NextDoc(l, n, e)) = [version |-> n + 1, policy |-> e.policy]
<1>1. n + 1 \in Window(n + 1)
  BY DEF Window
<1> QED
  BY <1>1 DEF ActiveOf, NextDoc, Stored

LEMMA EntryType ==
  ASSUME Types, NEW r \in Requests
  PROVE  Entry(r) \in Entries
BY DEF Types, Entry, Entries

\* The log has grown by r's entry, on the very version r was based on.
Grown(r) ==
  /\ req[r].base = rev
  /\ log' = Append(log, Entry(r))
  /\ rev' = rev + 1
  /\ doc' = NextDoc(log, rev, Entry(r))

LEMMA WriteGrows ==
  ASSUME IInv, NEW r \in Requests, rpc[r] = "put" \/ r \in late, Write(r)
  PROVE  /\ plan[r].expect = rev => Grown(r) /\ plan[r].new = doc'
         /\ plan[r].expect # rev => UNCHANGED <<doc, rev, log>>
<1>1. Planned(r)
  BY DEF IInv, RequestInv, RequestOk
<1> QED
  BY <1>1 DEF Planned, Write, Grown

LEMMA GrownKeeps ==
  ASSUME IInv, NEW r \in Requests, Grown(r)
  PROVE  /\ StoreInv'
         /\ Authors' = Authors \cup {r}
         /\ \A v \in 1..rev : log'[v] = log[v]
         /\ log'[rev + 1] = Entry(r)
         /\ \A s : Committed(s) => Committed(s)'
<1>1. log \in Seq(Entries) /\ rev = Len(log) /\ rev \in Nat /\ rev >= 1
  BY DEF IInv, StoreInv
<1>2. Entry(r) \in Entries
  BY EntryType DEF IInv
<1>3. /\ log' \in Seq(Entries)
      /\ Len(log') = rev + 1
      /\ \A v \in 1..rev : log'[v] = log[v]
      /\ log'[rev + 1] = Entry(r)
  BY <1>1, <1>2, AppendKeeps DEF Grown
<1>4. StoreInv'
  BY <1>1, <1>2, <1>3, DocumentsOfAppend DEF Grown, StoreInv
<1>5. Authors' = Authors \cup {r}
  <2>1. Entry(r).by = r
    BY DEF Entry
  <2>2. Authors' = {log'[n].by : n \in 1..(rev + 1)}
    BY <1>3 DEF Authors
  <2>3. Authors = {log[n].by : n \in 1..rev}
    BY <1>1 DEF Authors
  <2>4. \A n \in 1..(rev + 1) : n \in 1..rev \/ n = rev + 1
    BY <1>1
  <2> QED
    BY <1>1, <1>3, <2>1, <2>2, <2>3, <2>4
<1>6. ASSUME NEW s, Committed(s) PROVE Committed(s)'
  BY <1>1, <1>3, <1>6 DEF Committed, Grown
<1> QED
  BY <1>3, <1>4, <1>5, <1>6

\* What a request knows stays true, whether or not the log grows.
LEMMA KnowledgeKept ==
  ASSUME IInv, NEW r \in Requests, NEW q \in Requests,
         Grown(r) \/ UNCHANGED <<doc, rev, log>>,
         req'[q] = req[q], draft'[q] = draft[q], plan'[q] = plan[q]
  PROVE  /\ req[q].from \in 0..rev /\ Drafted(q) => Drafted(q)'
         /\ req[q].from \in 0..rev /\ Planned(q) => Planned(q)'
<1>1. log \in Seq(Entries) /\ rev = Len(log) /\ rev \in Nat /\ rev >= 1
  BY DEF IInv, StoreInv
<1>2. Entry(q)' = Entry(q)
  BY DEF Entry
<1>3. CASE UNCHANGED <<doc, rev, log>>
  BY <1>2, <1>3 DEF Drafted, Planned
<1>4. CASE Grown(r)
  <2>1. \A v \in 1..rev : log'[v] = log[v]
    BY <1>4, GrownKeeps
  <2>2. req[q].from \in 0..rev /\ Drafted(q) => Drafted(q)'
    BY <1>1, <2>1 DEF Drafted
  <2>3. Entry(r) \in Entries
    BY EntryType DEF IInv
  <2>4. /\ \A k \in 1..rev : DocAt(log', k) = DocAt(log, k)
        /\ \A k \in 1..rev : \A x : NextDoc(log', k, x) = NextDoc(log, k, x)
        /\ rev' = rev + 1
    BY <1>1, <1>4, <2>3, DocumentsOfAppend DEF Grown
  <2> QED
    BY <1>1, <1>2, <2>2, <2>4 DEF Planned
<1> QED
  BY <1>3, <1>4

-----------------------------------------------------------------------------
(* Steps of one request *)

\* A step leaves request q alone.
Untouched(q) ==
  /\ rpc'[q] = rpc[q]
  /\ home'[q] = home[q]
  /\ req'[q] = req[q]
  /\ draft'[q] = draft[q]
  /\ plan'[q] = plan[q]
  /\ target'[q] = target[q]
  /\ answer'[q] = answer[q]
  /\ q \in late' <=> q \in late

\* The stored document is that of the last version.
LEMMA DocIsCommitted ==
  ASSUME IInv
  PROVE  Committed(ActiveOf(doc)) /\ doc.active = rev
<1>1. rev \in Nat \ {0} /\ doc = DocAt(log, rev)
  BY DEF IInv, StoreInv
<1>2. doc.active = rev
  BY <1>1 DEF DocAt
<1>3. ActiveOf(doc) = [version |-> rev, policy |-> log[rev].policy]
  BY <1>1, ActiveOfDocAt
<1> QED
  BY <1>1, <1>2, <1>3 DEF Committed

LEMMA OthersKept ==
  ASSUME IInv, NEW r \in Requests, NEW q \in Requests, q # r, Untouched(q),
         Grown(r) \/ UNCHANGED <<doc, rev, log>>
  PROVE  RequestOk(q)' /\ AuthorOk(q)'
<1>1. RequestOk(q) /\ AuthorOk(q)
  BY DEF IInv, RequestInv, AuthorInv
<1>2. rev \in Nat /\ rev' \in Nat /\ rev <= rev'
  BY DEF IInv, StoreInv, Grown
<1>3. /\ req[q].from \in 0..rev /\ Drafted(q) => Drafted(q)'
      /\ req[q].from \in 0..rev /\ Planned(q) => Planned(q)'
  BY KnowledgeKept DEF Untouched
<1>4. q \in Authors' <=> q \in Authors
  <2>1. CASE Grown(r)
    BY <2>1, GrownKeeps
  <2>2. CASE UNCHANGED <<doc, rev, log>>
    BY <2>2 DEF Authors
  <2> QED
    BY <2>1, <2>2
<1>5. q \in late \/ plan[q] # NoPlan => rpc[q] # "new"
  BY <1>1 DEF RequestOk, AuthorOk
<1>6. RequestOk(q)'
  BY <1>1, <1>2, <1>3, <1>5 DEF RequestOk, Untouched
<1>7. AuthorOk(q)'
  BY <1>1, <1>4 DEF AuthorOk, Untouched, Refused
<1> QED
  BY <1>6, <1>7

\* What is to be shown of a step of request r.
LEMMA StepOfRequest ==
  ASSUME IInv, NEW r \in Requests, Types',
         Grown(r) \/ UNCHANGED <<doc, rev, log>>,
         \A q \in Requests \ {r} : Untouched(q),
         RequestOk(r)', AuthorOk(r)', Committed(target[r].record)',
         cache' \in {cache, target[r].record},
         \A m \in Managers : active'[m] \in {active[m], target[r].record}
  PROVE  IInv'
<1>1. StoreInv'
  <2>1. CASE Grown(r)
    BY <2>1, GrownKeeps
  <2>2. CASE UNCHANGED <<doc, rev, log>>
    BY <2>2 DEF IInv, StoreInv
  <2> QED
    BY <2>1, <2>2
<1>2. RequestInv' /\ AuthorInv'
  BY OthersKept DEF RequestInv, AuthorInv
<1>3. \A s : Committed(s) => Committed(s)'
  <2>1. CASE Grown(r)
    BY <2>1, GrownKeeps
  <2>2. CASE UNCHANGED <<doc, rev, log>>
    BY <2>2 DEF Committed
  <2> QED
    BY <2>1, <2>2
<1>4. ServedInv'
  <2>1. Committed(cache)'
    BY <1>3 DEF IInv, ServedInv, Committed
  <2>2. \A m \in Managers : Committed(active[m])'
    BY <1>3 DEF IInv, ServedInv, Committed
  <2>3. ASSUME NEW q \in Requests PROVE Committed(target[q].record)'
    <3>1. CASE q = r
      BY <3>1
    <3>2. CASE q # r
      BY <1>3, <3>2 DEF IInv, ServedInv, Committed, Untouched
    <3> QED
      BY <3>1, <3>2
  <2> QED
    BY <2>1, <2>2, <2>3 DEF ServedInv
<1> QED
  BY <1>1, <1>2, <1>4 DEF IInv

USE DEF storeVars, processVars, requestVars, Go, Answered, Fault

LEMMA SubmitKeeps ==
  ASSUME IInv, NEW r \in Requests, NEW m \in Managers, NEW base, NEW p \in Policies, NEW from,
         SubmitPublish(r, m, base, p) \/ SubmitRollback(r, m, base, from)
  PROVE  IInv'
<1> USE DEF SubmitPublish, SubmitRollback, Submit
<1>0. doc.active = rev /\ rev \in Nat
  BY DocIsCommitted DEF IInv, StoreInv
<1>1. RequestOk(r) /\ AuthorOk(r) /\ rpc[r] = "new"
  BY DEF IInv, RequestInv, AuthorInv
<1>2. Types'
  <2>1. CASE SubmitPublish(r, m, base, p)
    <3>1. [base |-> base, policy |-> p, from |-> 0] \in [base : Nat, policy : Policies, from : Nat]
      BY <1>0, <2>1
    <3> QED
      BY <2>1, <3>1 DEF IInv, Types, Labels
  <2>2. CASE SubmitRollback(r, m, base, from)
    <3>1. [base |-> base, policy |-> Baseline, from |-> from]
            \in [base : Nat, policy : Policies, from : Nat]
      BY <1>0, <2>2
    <3> QED
      BY <2>2, <3>1 DEF IInv, Types, Labels
  <2> QED
    BY <2>1, <2>2
<1>3. \A q \in Requests \ {r} : Untouched(q)
  BY DEF IInv, Types, Untouched
<1>4. /\ rpc'[r] \in {"find", "load"}
      /\ home'[r] = m
      /\ req'[r].base \in 1..rev
      /\ req'[r].from \in 0..rev
      /\ rpc'[r] = "find" => req'[r].from # 0
      /\ rpc'[r] = "load" => req'[r].from = 0 /\ draft'[r] = req'[r].policy
  BY <1>0 DEF IInv, Types
<1>5. UNCHANGED <<doc, rev, log, late, active, cache, plan, target, answer>>
  OBVIOUS
<1>6. RequestOk(r)'
  BY <1>1, <1>4, <1>5 DEF RequestOk, AuthorOk, Drafted
<1>7. AuthorOk(r)'
  BY <1>1, <1>4, <1>5 DEF AuthorOk, Refused, Authors
<1>8. Committed(target[r].record)'
  BY <1>5 DEF IInv, ServedInv, Committed
<1> HIDE DEF SubmitPublish, SubmitRollback, Submit
<1> QED
  BY <1>2, <1>3, <1>5, <1>6, <1>7, <1>8, StepOfRequest

\* The loads before the write, and the answers they give.
LEMMA LoadKeeps ==
  ASSUME IInv, NEW r \in Requests,
         FindTarget(r) \/ TargetMissing(r) \/ LoadCurrent(r) \/ LoadStale(r) \/ LoadFails(r)
  PROVE  IInv'
<1> USE DEF FindTarget, TargetMissing, LoadCurrent, LoadStale, LoadFails
<1>0. rev \in Nat \ {0} /\ doc = DocAt(log, rev) /\ doc.active = rev
  BY DocIsCommitted DEF IInv, StoreInv
<1>1. RequestOk(r) /\ AuthorOk(r) /\ rpc[r] \in {"find", "load"}
  BY DEF IInv, RequestInv, AuthorInv
<1>2. UNCHANGED <<doc, rev, log, late, active, cache, target, home, req>>
  OBVIOUS
<1>3. \A q \in Requests \ {r} : Untouched(q)
  BY DEF IInv, Types, Untouched
<1>4. Committed(target[r].record)'
  BY <1>2 DEF IInv, ServedInv, Committed
<1>5. CASE FindTarget(r)
  <2>1. req[r].from \in Window(rev)
    BY <1>0, <1>5 DEF DocAt
  <2>2. doc.versions[req[r].from].policy = log[req[r].from].policy /\ req[r].from \in 1..rev
    BY <1>0, <2>1 DEF DocAt, Stored, Window
  <2>3. log[req[r].from].policy \in Policies
    <3>1. log[req[r].from] \in Entries
      BY <2>2 DEF IInv, StoreInv
    <3> QED
      BY <3>1 DEF Entries
  <2>4. Types'
    BY <1>5, <2>2, <2>3 DEF IInv, Types, Labels
  <2>5. rpc'[r] = "load" /\ draft'[r] = log[req[r].from].policy /\ UNCHANGED <<plan, answer>>
    BY <1>5, <2>2 DEF IInv, Types
  <2>6. RequestOk(r)'
    BY <1>1, <1>2, <1>5, <2>5 DEF RequestOk, AuthorOk, Drafted
  <2>7. AuthorOk(r)'
    BY <1>1, <1>2, <1>5, <2>5 DEF AuthorOk, Refused, Authors
  <2> QED
    BY <1>2, <1>3, <1>4, <2>4, <2>6, <2>7, StepOfRequest
<1>6. CASE LoadCurrent(r)
  <2> DEFINE rec == Record(draft[r], req[r].from, r)
  <2>1. rec = Stored(Entry(r), "active")
    BY DEF Record, Stored, Entry
  <2>2. NewDocument(doc, rec) = NextDoc(log, rev, Entry(r))
    BY <1>0, <2>1, NewDocumentIsNext
  <2>3. plan'[r] = [old |-> DocAt(log, rev), expect |-> rev, new |-> NextDoc(log, rev, Entry(r))]
    BY <1>0, <1>6, <2>2 DEF IInv, Types
  <2>4. rpc'[r] = "put" /\ UNCHANGED <<draft, answer>> /\ req[r].base = rev
    BY <1>0, <1>6 DEF IInv, Types
  <2>5. Types'
    BY <1>6 DEF IInv, Types, Labels
  <2>6. Planned(r)'
    BY <1>0, <1>1, <1>2, <1>6, <2>3, <2>4 DEF Planned, Entry, Drafted, RequestOk
  <2>7. RequestOk(r)'
    BY <1>1, <1>2, <2>4, <2>6 DEF RequestOk
  <2>8. AuthorOk(r)'
    BY <1>1, <1>2, <1>6, <2>4 DEF AuthorOk, Refused, Authors
  <2> QED
    BY <1>2, <1>3, <1>4, <2>5, <2>7, <2>8, StepOfRequest
<1>7. CASE TargetMissing(r) \/ LoadStale(r) \/ LoadFails(r)
  <2>1. /\ rpc'[r] = "done"
        /\ answer'[r] \in {"not_found", "conflict", "unavailable"}
        /\ UNCHANGED <<draft, plan>>
    BY <1>7 DEF IInv, Types
  <2>2. Types'
    <3>1. faults' \in 0..MaxFaults
      BY <1>7 DEF IInv, Types
    <3>2. answer' \in [Requests -> Answers]
      BY <1>7 DEF IInv, Types, Answers
    <3>3. rpc' \in [Requests -> Labels]
      BY <1>7 DEF IInv, Types, Labels
    <3>4. UNCHANGED <<up, active, ready, cache, draft, plan>>
      BY <1>7
    <3> QED
      BY <1>2, <3>1, <3>2, <3>3, <3>4 DEF IInv, Types
  <2>3. RequestOk(r)'
    BY <1>1, <1>2, <2>1 DEF RequestOk, AuthorOk
  <2>4. AuthorOk(r)'
    BY <1>1, <1>2, <2>1 DEF AuthorOk, Refused, Authors
  <2> QED
    BY <1>2, <1>3, <1>4, <2>2, <2>3, <2>4, StepOfRequest
<1> QED
  BY <1>5, <1>6, <1>7

LEMMA PutAnsweredKeeps ==
  ASSUME IInv, NEW r \in Requests, PutAnswered(r)
  PROVE  IInv'
<1> USE DEF PutAnswered
<1>0. rev \in Nat \ {0} /\ rpc[r] = "put" /\ RequestOk(r) /\ AuthorOk(r)
  BY DEF IInv, StoreInv, RequestInv, AuthorInv
<1>1. Planned(r) /\ plan[r].expect = req[r].base /\ req[r].from \in 0..rev /\ r \notin late
  BY <1>0 DEF RequestOk, AuthorOk, Planned
<1>2. UNCHANGED <<late, up, active, ready, cache, home, req, draft, plan, faults>>
  OBVIOUS
<1>3. \A q \in Requests \ {r} : Untouched(q)
  BY DEF IInv, Types, Untouched
<1>4. CASE plan[r].expect = rev
  <2>1. Grown(r) /\ plan[r].new = NextDoc(log, rev, Entry(r))
    BY <1>0, <1>4, WriteGrows DEF Grown
  <2>2. target'[r] = [record |-> ActiveOf(plan[r].new), verdict |-> "published"]
    BY <1>4 DEF IInv, Types
  <2>3. ActiveOf(plan[r].new) = [version |-> rev + 1, policy |-> Entry(r).policy]
    BY <1>0, <2>1, ActiveOfNextDoc
  <2>4. target'[r].record \in Served
    BY <1>0, <2>2, <2>3 DEF IInv, Types, Served, Entry
  <2>5. Types'
    <3>1. target' \in [Requests -> [record : Served, verdict : Verdicts]]
      BY <1>4, <2>2, <2>4 DEF IInv, Types, Verdicts
    <3> QED
      BY <1>2, <1>4, <3>1 DEF IInv, Types, Labels
  <2>6. Committed(target[r].record)'
    <3>1. rev' = rev + 1 /\ log'[rev + 1] = Entry(r)
      BY <2>1, GrownKeeps DEF Grown
    <3>2. target'[r].record = [version |-> rev + 1, policy |-> Entry(r).policy]
      BY <2>2, <2>3
    <3> QED
      BY <1>0, <3>1, <3>2 DEF Committed
  <2>7. rpc'[r] = "switch" /\ UNCHANGED answer
    BY <1>4 DEF IInv, Types
  <2>8. Planned(r)'
    BY <1>1, <1>2, <2>1, KnowledgeKept
  <2>9. rev' \in Nat /\ rev <= rev'
    BY <1>0, <2>1 DEF Grown
  <2>10. RequestOk(r)'
    BY <1>0, <1>2, <2>7, <2>8, <2>9 DEF RequestOk
  <2>11. r \in Authors'
    BY <2>1, GrownKeeps
  <2>12. AuthorOk(r)'
    BY <1>0, <1>1, <1>2, <2>2, <2>7, <2>11 DEF AuthorOk, Refused
  <2> QED
    BY <1>2, <1>3, <2>1, <2>5, <2>6, <2>10, <2>12, StepOfRequest
<1>5. CASE plan[r].expect # rev
  <2>1. UNCHANGED <<doc, rev, log, target>>
    BY <1>0, <1>5, WriteGrows
  <2>2. rpc'[r] = "done" /\ answer'[r] = "conflict"
    BY <1>5 DEF IInv, Types
  <2>3. Types'
    BY <1>2, <1>5, <2>1 DEF IInv, Types, Labels, Answers
  <2>4. Planned(r)'
    BY <1>1, <1>2, <2>1, KnowledgeKept
  <2>5. RequestOk(r)'
    BY <1>0, <1>2, <2>1, <2>2, <2>4 DEF RequestOk
  <2>6. AuthorOk(r)'
    BY <1>0, <1>2, <2>1, <2>2 DEF AuthorOk, Refused, Authors
  <2>7. Committed(target[r].record)'
    BY <2>1 DEF IInv, ServedInv, Committed
  <2> QED
    BY <1>2, <1>3, <2>1, <2>3, <2>5, <2>6, <2>7, StepOfRequest
<1> QED
  BY <1>4, <1>5

LEMMA PutUnknownKeeps ==
  ASSUME IInv, NEW r \in Requests, PutUnknown(r)
  PROVE  IInv'
<1> USE DEF PutUnknown
<1>0. rpc[r] = "put" /\ RequestOk(r) /\ AuthorOk(r)
  BY DEF IInv, RequestInv, AuthorInv
<1>1. UNCHANGED <<doc, rev, log, active, cache, home, req, draft, plan, target, answer>>
  OBVIOUS
<1>2. rpc'[r] = "reconcile" /\ late' = late \cup {r}
  BY DEF IInv, Types
<1>3. \A q \in Requests \ {r} : Untouched(q)
  BY DEF IInv, Types, Untouched
<1>4. Types'
  <2>1. faults' \in 0..MaxFaults
    BY DEF IInv, Types
  <2> QED
    BY <2>1 DEF IInv, Types, Labels
<1>5. Planned(r)'
  BY <1>0, <1>1, KnowledgeKept DEF RequestOk
<1>6. RequestOk(r)'
  BY <1>0, <1>1, <1>2, <1>5 DEF RequestOk
<1>7. AuthorOk(r)'
  BY <1>0, <1>1, <1>2 DEF AuthorOk, Refused, Authors
<1>8. Committed(target[r].record)'
  BY <1>1 DEF IInv, ServedInv, Committed
<1> QED
  BY <1>1, <1>3, <1>4, <1>6, <1>7, <1>8, StepOfRequest

LEMMA LateKeeps ==
  ASSUME IInv, NEW r \in Requests, LateArrives(r) \/ LateVanishes(r)
  PROVE  IInv'
<1> USE DEF LateArrives, LateVanishes
<1>0. RequestOk(r) /\ AuthorOk(r) /\ r \in late /\ rev \in Nat
  BY DEF IInv, StoreInv, RequestInv, AuthorInv
<1>1. UNCHANGED <<up, active, ready, cache, rpc, home, req, draft, plan, target, answer, faults>>
  OBVIOUS
<1>2. late' = late \ {r}
  OBVIOUS
<1>3. \A q \in Requests \ {r} : Untouched(q)
  BY <1>1, <1>2 DEF Untouched
<1>4. Types'
  BY <1>1, <1>2 DEF IInv, Types
<1>5. Grown(r) \/ UNCHANGED <<doc, rev, log>>
  BY <1>0, WriteGrows
<1>6. Planned(r)'
  BY <1>0, <1>1, <1>5, KnowledgeKept DEF RequestOk, AuthorOk
<1>7. rev' \in Nat /\ rev <= rev'
  BY <1>0, <1>5 DEF Grown
<1>8. RequestOk(r)'
  BY <1>0, <1>1, <1>6, <1>7 DEF RequestOk, AuthorOk
<1>9. r \in Authors => r \in Authors'
  BY <1>5, GrownKeeps DEF Authors
<1>10. AuthorOk(r)'
  BY <1>0, <1>1, <1>2, <1>9 DEF AuthorOk, Refused
<1>11. Committed(target[r].record)'
  BY <1>1, <1>5, GrownKeeps DEF IInv, ServedInv, Committed
<1> QED
  BY <1>1, <1>3, <1>4, <1>5, <1>8, <1>10, <1>11, StepOfRequest

\* The document a request was about to write is there: it has taken effect.
LEMMA OwnDocument ==
  ASSUME IInv, NEW r \in Requests, Planned(r), doc = plan[r].new
  PROVE  r \in Authors
<1>1. rev \in Nat \ {0} /\ rev = Len(log) /\ doc = DocAt(log, rev)
  BY DEF IInv, StoreInv
<1>2. req[r].base \in Nat /\ doc = NextDoc(log, req[r].base, Entry(r))
  BY <1>1 DEF Planned
<1>3. rev = req[r].base + 1
  <2>1. doc.active = req[r].base + 1
    BY <1>2 DEF NextDoc
  <2> QED
    BY <2>1, DocIsCommitted
<1>4. rev \in Window(rev)
  BY <1>1 DEF Window
<1>5. doc.versions[rev].by = log[rev].by
  BY <1>1, <1>4 DEF DocAt, Stored
<1>6. doc.versions[rev].by = r
  BY <1>2, <1>3, <1>4 DEF NextDoc, Stored, Entry
<1>7. rev \in 1..Len(log) /\ log[rev].by = r
  BY <1>1, <1>5, <1>6
<1> QED
  BY <1>7 DEF Authors

LEMMA ReconcileKeeps ==
  ASSUME IInv, NEW r \in Requests,
         ReconcileFails(r) \/ ReconcileNotCommitted(r) \/ ReconcileActivates(r)
  PROVE  IInv'
<1> USE DEF ReconcileFails, ReconcileNotCommitted, ReconcileActivates
<1>0. rpc[r] = "reconcile" /\ RequestOk(r) /\ AuthorOk(r)
  BY DEF IInv, RequestInv, AuthorInv
<1>1. UNCHANGED <<doc, rev, log, late, up, active, cache, home, req, draft, plan>>
  OBVIOUS
<1>2. \A q \in Requests \ {r} : Untouched(q)
  BY DEF IInv, Types, Untouched
<1>3. home[r] \in Managers /\ Planned(r)
  BY <1>0 DEF RequestOk
<1>4. Planned(r)'
  BY <1>0, <1>1, <1>3, KnowledgeKept DEF RequestOk
<1>5. CASE ReconcileFails(r) \/ ReconcileNotCommitted(r)
  <2>1. rpc'[r] = "done" /\ answer'[r] \in {"unknown", "not_committed"} /\ UNCHANGED target
    BY <1>5 DEF IInv, Types
  <2>2. Types'
    <3>1. faults' \in 0..MaxFaults
      BY <1>5 DEF IInv, Types
    <3>2. rpc' \in [Requests -> Labels]
      BY <1>5 DEF IInv, Types, Labels
    <3>3. answer' \in [Requests -> Answers]
      BY <1>5 DEF IInv, Types, Answers
    <3>4. ready' \in [Managers -> BOOLEAN]
      BY <1>3, <1>5 DEF IInv, Types
    <3> QED
      BY <1>1, <2>1, <3>1, <3>2, <3>3, <3>4 DEF IInv, Types
  <2>3. RequestOk(r)'
    BY <1>0, <1>1, <1>4, <2>1 DEF RequestOk
  <2>4. AuthorOk(r)'
    BY <1>0, <1>1, <2>1 DEF AuthorOk, Refused, Authors
  <2>5. Committed(target[r].record)'
    BY <1>1, <2>1 DEF IInv, ServedInv, Committed
  <2> QED
    BY <1>1, <1>2, <2>2, <2>3, <2>4, <2>5, StepOfRequest
<1>6. CASE ReconcileActivates(r)
  <2>1. rpc'[r] = "switch" /\ UNCHANGED <<answer, faults>>
    BY <1>6 DEF IInv, Types
  <2>2. /\ target'[r].record = ActiveOf(doc)
        /\ target'[r].verdict \in {"published", "superseded"}
        /\ target'[r].verdict = "published" => doc = plan[r].new
    BY <1>6 DEF IInv, Types
  <2>3. ActiveOf(doc) \in Served
    <3>1. rev \in Nat \ {0} /\ log[rev] \in Entries /\ doc = DocAt(log, rev)
      BY DEF IInv, StoreInv
    <3>2. ActiveOf(doc) = [version |-> rev, policy |-> log[rev].policy]
      BY <3>1, ActiveOfDocAt
    <3> QED
      BY <3>1, <3>2 DEF Served, Entries
  <2>4. Types'
    <3>1. target' \in [Requests -> [record : Served, verdict : Verdicts]]
      BY <1>6, <2>3 DEF IInv, Types, Verdicts
    <3>2. ready' \in [Managers -> BOOLEAN]
      BY <1>3, <1>6 DEF IInv, Types
    <3>3. rpc' \in [Requests -> Labels]
      BY <1>6 DEF IInv, Types, Labels
    <3> QED
      BY <1>1, <2>1, <3>1, <3>2, <3>3 DEF IInv, Types
  <2>5. RequestOk(r)'
    BY <1>0, <1>1, <1>4, <2>1 DEF RequestOk
  <2>6. AuthorOk(r)'
    <3>1. target'[r].verdict = "published" => r \in Authors
      BY <1>3, <2>2, OwnDocument
    <3> QED
      BY <1>0, <1>1, <2>1, <2>2, <3>1 DEF AuthorOk, Refused, Authors
  <2>7. Committed(target[r].record)'
    BY <1>1, <2>2, DocIsCommitted DEF Committed
  <2> QED
    BY <1>1, <1>2, <2>4, <2>5, <2>6, <2>7, StepOfRequest
<1> QED
  BY <1>5, <1>6

LEMMA ActivateKeeps ==
  ASSUME IInv, NEW r \in Requests, Switch(r) \/ CachePut(r) \/ CacheFails(r)
  PROVE  IInv'
<1> USE DEF Switch, CachePut, CacheFails
<1>0. rpc[r] \in {"switch", "cache"} /\ RequestOk(r) /\ AuthorOk(r)
  BY DEF IInv, RequestInv, AuthorInv
<1>1. UNCHANGED <<doc, rev, log, late, up, home, req, draft, plan, target>>
  OBVIOUS
<1>2. \A q \in Requests \ {r} : Untouched(q)
  BY DEF IInv, Types, Untouched
<1>3. home[r] \in Managers /\ target[r].record \in Served /\ target[r].verdict \in Verdicts
  BY <1>0 DEF RequestOk, IInv, Types
<1>4. /\ cache' \in {cache, target[r].record}
      /\ \A m \in Managers : active'[m] \in {active[m], target[r].record}
  BY DEF IInv, Types
<1>5. \/ rpc'[r] = "cache" /\ answer' = answer
      \/ rpc'[r] = "done" /\ answer'[r] = target[r].verdict
  BY DEF IInv, Types
<1>6. Types'
  <2>1. faults' \in 0..MaxFaults /\ cache' \in Served
    BY <1>3 DEF IInv, Types
  <2>2. active' \in [Managers -> Served]
    BY <1>3 DEF IInv, Types
  <2>3. ready' \in [Managers -> BOOLEAN]
    BY <1>3 DEF IInv, Types
  <2>4. rpc' \in [Requests -> Labels]
    BY DEF IInv, Types, Labels
  <2>5. answer' \in [Requests -> Answers]
    BY <1>3 DEF IInv, Types, Answers
  <2> QED
    BY <1>1, <2>1, <2>2, <2>3, <2>4, <2>5 DEF IInv, Types
<1>7. Planned(r) => Planned(r)'
  BY <1>0, <1>1, KnowledgeKept DEF RequestOk
<1>8. RequestOk(r)'
  BY <1>0, <1>1, <1>5, <1>7 DEF RequestOk
<1>9. AuthorOk(r)'
  BY <1>0, <1>1, <1>5 DEF AuthorOk, Refused, Authors
<1>10. Committed(target[r].record)'
  BY <1>1 DEF IInv, ServedInv, Committed
<1> QED
  BY <1>1, <1>2, <1>4, <1>6, <1>8, <1>9, <1>10, StepOfRequest

-----------------------------------------------------------------------------
(* Steps of a process *)

LEMMA CrashKeeps ==
  ASSUME IInv, NEW m \in Managers, Crash(m)
  PROVE  IInv'
<1> USE DEF Crash
<1>1. UNCHANGED <<doc, rev, log, active, cache, home, req, draft, plan, target>>
  OBVIOUS
<1>2. PICK sent \in SUBSET {r \in InFlight : home[r] = m /\ rpc[r] = "put"} :
        late' = late \cup sent
  OBVIOUS
<1>3. ASSUME NEW q \in Requests
      PROVE  \/ rpc'[q] = rpc[q] /\ answer'[q] = answer[q] /\ (q \in late' <=> q \in late)
             \/ /\ rpc'[q] = "done" /\ answer'[q] = "lost"
                /\ rpc[q] \notin {"new", "done"}
                /\ q \in late' => q \in late \/ rpc[q] = "put"
  BY <1>2 DEF InFlight
<1>4. Types'
  <2>1. faults' \in 0..MaxFaults /\ up' \in [Managers -> BOOLEAN] /\ UNCHANGED ready
    BY DEF IInv, Types
  <2>2. late' \subseteq Requests
    BY <1>2 DEF IInv, Types, InFlight
  <2>3. rpc' \in [Requests -> Labels] /\ answer' \in [Requests -> Answers]
    BY DEF IInv, Types, Labels, Answers
  <2> QED
    BY <1>1, <2>1, <2>2, <2>3 DEF IInv, Types
<1>5. ASSUME NEW q \in Requests
      PROVE  RequestOk(q)' /\ AuthorOk(q)'
  <2>1. RequestOk(q) /\ AuthorOk(q)
    BY DEF IInv, RequestInv, AuthorInv
  <2>2. Planned(q) => Planned(q)'
    BY <1>1 DEF Planned, Drafted, Entry
  <2>3. Drafted(q) => Drafted(q)'
    BY <1>1 DEF Drafted
  <2>4. RequestOk(q)'
    BY <1>1, <1>3, <2>1, <2>2, <2>3 DEF RequestOk
  <2>5. AuthorOk(q)'
    BY <1>1, <1>3, <2>1 DEF AuthorOk, Refused, Authors
  <2> QED
    BY <2>4, <2>5
<1>6. StoreInv' /\ ServedInv'
  BY <1>1 DEF IInv, StoreInv, ServedInv, Committed
<1> QED
  BY <1>4, <1>5, <1>6 DEF IInv, RequestInv, AuthorInv

LEMMA StartKeeps ==
  ASSUME IInv, NEW m \in Managers, Start(m)
  PROVE  IInv'
<1> USE DEF Start
<1>1. UNCHANGED <<doc, rev, log, late, cache, rpc, home, req, draft, plan, target, answer, faults>>
  OBVIOUS
<1>2. ActiveOf(doc) \in Served /\ Committed(ActiveOf(doc))
  <2>1. rev \in Nat \ {0} /\ log[rev] \in Entries /\ doc = DocAt(log, rev)
    BY DEF IInv, StoreInv
  <2>2. ActiveOf(doc) = [version |-> rev, policy |-> log[rev].policy]
    BY <2>1, ActiveOfDocAt
  <2> QED
    BY <2>1, <2>2, DocIsCommitted DEF Served, Entries
<1>3. Types'
  BY <1>1, <1>2 DEF IInv, Types
<1>4. StoreInv' /\ RequestInv' /\ AuthorInv'
  BY <1>1 DEF IInv, StoreInv, RequestInv, AuthorInv, RequestOk, AuthorOk, Planned, Drafted,
              Refused, Authors, Entry
<1>5. ServedInv'
  <2>1. \A k \in Managers : active'[k] \in {active[k], ActiveOf(doc)}
    BY DEF IInv, Types
  <2> QED
    BY <1>1, <1>2, <2>1 DEF IInv, ServedInv, Committed
<1> QED
  BY <1>3, <1>4, <1>5 DEF IInv

-----------------------------------------------------------------------------
LEMMA InitIInv == Init => IInv
<1> SUFFICES ASSUME Init PROVE IInv
  OBVIOUS
<1> USE DEF Init
<1>1. /\ log \in Seq(Entries) /\ Len(log) = 1 /\ log[1].policy = Baseline
      /\ log[1] = [policy |-> Baseline, from |-> 0, by |-> NoRequest]
  BY DEF Entries
<1>2. Window(1) = {1}
  BY DEF Window
<1>3. doc = DocAt(log, 1)
  BY <1>1, <1>2 DEF DocAt, FirstDocument, Record, Stored
<1>4. ActiveOf(FirstDocument) = [version |-> 1, policy |-> Baseline]
  BY DEF ActiveOf, FirstDocument, Record
<1>5. Types
  BY <1>4 DEF Types, Served, Labels, Answers, Verdicts, NoAsk, NoTarget
<1>6. StoreInv
  BY <1>1, <1>3 DEF StoreInv
<1>7. Authors = {NoRequest}
  BY <1>1 DEF Authors
<1>8. RequestInv
  BY DEF RequestInv, RequestOk
<1>9. AuthorInv
  BY <1>7 DEF AuthorInv, AuthorOk, Refused
<1>10. ServedInv
  BY <1>1, <1>4 DEF ServedInv, Committed, NoTarget
<1> QED
  BY <1>5, <1>6, <1>8, <1>9, <1>10 DEF IInv

LEMMA NextIInv == IInv /\ [Next]_vars => IInv'
<1> SUFFICES ASSUME IInv, [Next]_vars PROVE IInv'
  OBVIOUS
<1>1. ASSUME NEW r \in Requests, NEW m \in Managers, NEW base \in 1..Len(log),
             NEW p \in Policies, SubmitPublish(r, m, base, p)
      PROVE  IInv'
  BY <1>1, SubmitKeeps
<1>2. ASSUME NEW r \in Requests, NEW m \in Managers, NEW base \in 1..Len(log),
             NEW from \in 1..Len(log), SubmitRollback(r, m, base, from)
      PROVE  IInv'
  BY <1>2, SubmitKeeps
<1>3. ASSUME NEW r \in Requests, Handle(r)
      PROVE  IInv'
  BY <1>3, LoadKeeps, PutAnsweredKeeps, PutUnknownKeeps, LateKeeps, ReconcileKeeps, ActivateKeeps
     DEF Handle
<1>4. ASSUME NEW m \in Managers, Crash(m) \/ Start(m)
      PROVE  IInv'
  BY <1>4, CrashKeeps, StartKeeps
<1>5. CASE UNCHANGED vars
  BY <1>5 DEF vars, IInv, Types, StoreInv, RequestInv, AuthorInv, ServedInv, RequestOk, AuthorOk,
              Planned, Drafted, Refused, Authors, Entry, Committed
<1> QED
  BY <1>1, <1>2, <1>3, <1>4, <1>5 DEF Next

LEMMA Invariance == Spec => []IInv
  BY InitIInv, NextIInv, PTL DEF Spec

-----------------------------------------------------------------------------
(* Theorems *)

LEMMA DocAtIsDocument ==
  ASSUME NEW l \in Seq(Entries), NEW n \in 1..Len(l)
  PROVE  IsDocument(DocAt(l, n)) /\ Valid(DocAt(l, n))
<1> DEFINE d == DocAt(l, n)
<1>1. /\ d.active = n
      /\ DOMAIN d.versions = Window(n)
      /\ \A v \in Window(n) :
           d.versions[v] = Stored(l[v], IF v = n THEN "active" ELSE "archived")
      /\ DOMAIN d = {"active", "versions"}
  BY DEF DocAt
<1>2. \A v \in Window(n) : v \in 1..n /\ l[v] \in Entries
  BY DEF Window
<1>3. \A e \in Entries, s \in {"active", "archived"} :
        Stored(e, s) \in Records /\ Stored(e, s).status = s
  BY DEF Stored, Records, Entries
<1>4. n \in Window(n) /\ n \in Nat \ {0}
  BY DEF Window
<1>5. Cardinality(Window(n)) <= MaxVersions
  BY <1>4, WindowIsInterval DEF Low
<1> HIDE DEF d
<1>6. IsDocument(d)
  BY <1>1, <1>2, <1>3, <1>4 DEF IsDocument
<1>7. {v \in DOMAIN d.versions : d.versions[v].status = "active"} = {n}
  BY <1>1, <1>2, <1>3, <1>4
<1>8. Valid(d)
  BY <1>1, <1>2, <1>4, <1>5, <1>7 DEF Valid
<1> QED
  BY <1>6, <1>8 DEF d

\* A planned document is that of a log in which the request comes next.
LEMMA PlannedIsDocument ==
  ASSUME IInv, NEW r \in Requests, Planned(r)
  PROVE  IsDocument(plan[r].new) /\ Valid(plan[r].new)
<1> DEFINE b == req[r].base
           l == [v \in 1..(b + 1) |-> IF v = b + 1 THEN Entry(r) ELSE log[v]]
<1>1. b \in 1..rev /\ rev = Len(log) /\ log \in Seq(Entries) /\ rev \in Nat
  BY DEF IInv, StoreInv, Planned
<1>2. Entry(r) \in Entries
  BY EntryType DEF IInv
<1>3. l \in Seq(Entries) /\ Len(l) = b + 1
  <2>1. b + 1 \in Nat /\ \A v \in 1..(b + 1) : v = b + 1 \/ log[v] \in Entries
    BY <1>1
  <2> HIDE DEF b
  <2>2. l \in [1..(b + 1) -> Entries]
    BY <1>2, <2>1
  <2> HIDE DEF l
  <2> QED
    BY <2>1, <2>2
<1>4. DocAt(l, b + 1) = NextDoc(log, b, Entry(r))
  <2>1. \A v \in Window(b + 1) : l[v] = IF v = b + 1 THEN Entry(r) ELSE log[v]
    BY DEF Window
  <2> HIDE DEF l
  <2> QED
    BY <2>1 DEF DocAt, NextDoc
<1>5. b + 1 \in 1..Len(l)
  BY <1>1, <1>3
<1>6. plan[r].new = NextDoc(log, b, Entry(r))
  BY DEF Planned
<1> HIDE DEF l, b
<1> QED
  BY <1>3, <1>4, <1>5, <1>6, DocAtIsDocument

\* Every variable of the policy service keeps its kind of value, and a stored
\* or planned document its shape (automation/app/policy_manager.py).
THEOREM TypeCorrect == Spec => []TypeOK
<1>1. IInv => TypeOK
  <2> SUFFICES ASSUME IInv PROVE TypeOK
    OBVIOUS
  <2>1. rev \in Nat \ {0} /\ rev = Len(log) /\ log \in Seq(Entries) /\ doc = DocAt(log, rev)
    BY DEF IInv, StoreInv
  <2>2. IsDocument(doc)
    BY <2>1, DocAtIsDocument
  <2>3. \A n \in 1..Len(log) : log[n] \in Entries
    BY <2>1
  <2>4. IsDocument(FirstDocument)
    BY DEF IsDocument, FirstDocument, Record, Records
  <2>5. ASSUME NEW r \in Requests
        PROVE  plan[r].expect \in Nat /\ IsDocument(plan[r].old) /\ IsDocument(plan[r].new)
    <3>1. CASE plan[r] = NoPlan
      BY <2>4, <3>1 DEF NoPlan
    <3>2. CASE Planned(r)
      <4>1. req[r].base \in 1..Len(log)
        BY <2>1, <3>2 DEF Planned
      <4>2. IsDocument(DocAt(log, req[r].base))
        BY <2>1, <4>1, DocAtIsDocument
      <4> QED
        BY <3>2, <4>1, <4>2, PlannedIsDocument DEF Planned
    <3> QED
      BY <3>1, <3>2 DEF IInv, RequestInv, RequestOk
  <2> QED
    BY <2>1, <2>2, <2>3, <2>5 DEF IInv, Types, TypeOK, Entries
<1> QED
  BY <1>1, Invariance, PTL

\* Neither the stored document nor one about to be written would be refused by
\* PolicyStoreDocument's validator (policy_models.py:144, 153-168), for any
\* MAX_VERSIONS.
THEOREM IntegrityAlways == Spec => []DocumentIntegrity
<1>1. IInv => DocumentIntegrity
  <2> SUFFICES ASSUME IInv PROVE DocumentIntegrity
    OBVIOUS
  <2>1. rev \in 1..Len(log) /\ log \in Seq(Entries) /\ doc = DocAt(log, rev)
    BY DEF IInv, StoreInv
  <2>2. Valid(doc)
    BY <2>1, DocAtIsDocument
  <2>3. ASSUME NEW r \in Requests, rpc[r] = "put" \/ r \in late PROVE Valid(plan[r].new)
    BY <2>3, PlannedIsDocument DEF IInv, RequestInv, RequestOk
  <2> QED
    BY <2>2, <2>3 DEF DocumentIntegrity
<1> QED
  BY <1>1, Invariance, PTL

\* The stored document holds exactly the latest versions, as committed:
\* version numbers are never reused (policy_manager.py:11-12).
THEOREM HistoryAlways == Spec => []HistoryIsLatest
<1>1. IInv => HistoryIsLatest
  <2> SUFFICES ASSUME IInv PROVE HistoryIsLatest
    OBVIOUS
  <2>1. rev = Len(log) /\ doc = DocAt(log, rev)
    BY DEF IInv, StoreInv
  <2>2. DOMAIN doc.versions = Window(rev)
    BY <2>1 DEF DocAt
  <2>3. \A v \in Window(rev) : doc.versions[v] = Stored(log[v], IF v = rev THEN "active" ELSE "archived")
    BY <2>1 DEF DocAt
  <2>4. \A e, s : Stored(e, s).policy = e.policy /\ Stored(e, s).from = e.from /\ Stored(e, s).by = e.by
    BY DEF Stored
  <2> QED
    BY <2>1, <2>2, <2>3, <2>4 DEF HistoryIsLatest, Window
<1> QED
  BY <1>1, Invariance, PTL

\* Whatever is served, by any process or from Redis, is a committed version
\* with its own policy, so an ETag stands for one policy (main.py:131).
THEOREM ServedAlways == Spec => []ServedWasCommitted
<1>1. IInv => ServedWasCommitted
  BY DEF IInv, StoreInv, ServedInv, Committed, ServedWasCommitted
<1> QED
  BY <1>1, Invariance, PTL

\* A request refused with a 404 or a 409 for a stale base or revision, or whose
\* first load failed, never takes effect (policy_manager.py:237, 262, 311).
THEOREM RefusedAlways == Spec => []RefusedIsUnpublished
<1>1. IInv => RefusedIsUnpublished
  BY DEF IInv, AuthorInv, AuthorOk, RefusedIsUnpublished
<1> QED
  BY <1>1, Invariance, PTL

-----------------------------------------------------------------------------
(* The store implements the register *)

Acked == {r \in Requests : answer[r] = "published"}

LEMMA GrownCommits ==
  ASSUME IInv, NEW r \in Requests, rpc[r] = "put" \/ r \in late, Grown(r),
         UNCHANGED req, Acked' = Acked
  PROVE  Register!Next
<1>1. RequestOk(r) /\ AuthorOk(r) /\ rev = Len(log)
  BY DEF IInv, StoreInv, RequestInv, AuthorInv
<1>2. Drafted(r) /\ r \notin Authors /\ req[r].base = Len(log)
  BY <1>1 DEF RequestOk, AuthorOk, Planned, Grown
<1>3. log' = Append(log, [policy |-> IF req[r].from = 0 THEN req[r].policy
                                     ELSE log[req[r].from].policy,
                          from |-> req[r].from, by |-> r])
  BY <1>2 DEF Grown, Entry, Drafted
<1>4. r \notin Register!Authors
  BY <1>2 DEF Authors, Register!Authors
<1>5. Register!Commit(r)
  BY <1>2, <1>3, <1>4 DEF Register!Commit, Acked
<1> QED
  BY <1>5 DEF Register!Next

LEMMA WriteImplements ==
  ASSUME IInv, NEW r \in Requests, PutAnswered(r) \/ LateArrives(r)
  PROVE  [Register!Next]_(Register!registerVars)
<1>1. rpc[r] = "put" \/ r \in late
  BY DEF PutAnswered, LateArrives
<1>2. Acked' = Acked /\ UNCHANGED req
  <2>1. answer[r] # "published" \/ UNCHANGED answer
    BY DEF PutAnswered, LateArrives, IInv, AuthorInv, AuthorOk
  <2>2. \A q \in Requests : q # r => answer'[q] = answer[q]
    BY DEF PutAnswered, LateArrives, IInv, Types
  <2>3. answer'[r] # "published" \/ UNCHANGED answer
    BY DEF PutAnswered, LateArrives, IInv, Types
  <2> QED
    BY <2>1, <2>2, <2>3 DEF Acked, PutAnswered, LateArrives
<1>3. CASE plan[r].expect = rev
  <2>1. Grown(r)
    BY <1>1, <1>3, WriteGrows DEF PutAnswered, LateArrives
  <2> QED
    BY <1>1, <1>2, <2>1, GrownCommits
<1>4. CASE plan[r].expect # rev
  <2>1. UNCHANGED log
    BY <1>1, <1>4, WriteGrows DEF PutAnswered, LateArrives
  <2> QED
    BY <1>2, <2>1 DEF Register!registerVars, Acked
<1> QED
  BY <1>3, <1>4

LEMMA SubmitImplements ==
  ASSUME IInv, NEW r \in Requests, NEW m \in Managers, NEW base, NEW p \in Policies, NEW from,
         SubmitPublish(r, m, base, p) \/ SubmitRollback(r, m, base, from)
  PROVE  Register!Next
<1> USE DEF SubmitPublish, SubmitRollback, Submit
<1>1. req[r] = NoAsk /\ doc.active = Len(log) /\ Len(log) \in Nat
  BY DocIsCommitted DEF IInv, StoreInv, RequestInv, RequestOk
<1>2. UNCHANGED <<log, Acked>>
  BY DEF Acked
<1>3. \E b \in 1..Len(log), f \in 0..Len(log), q \in Policies :
        req' = [req EXCEPT ![r] = [base |-> b, policy |-> q, from |-> f]]
  BY <1>1
<1>4. Register!Ask(r)
  BY <1>1, <1>2, <1>3 DEF Register!Ask, Register!NoAsk, NoAsk, Acked
<1> QED
  BY <1>4 DEF Register!Next

LEMMA AnswerImplements ==
  ASSUME IInv, NEW r \in Requests, CachePut(r) \/ CacheFails(r)
  PROVE  [Register!Next]_(Register!registerVars)
<1> USE DEF CachePut, CacheFails
<1>1. AuthorOk(r) /\ rpc[r] = "cache"
  BY DEF IInv, AuthorInv
<1>2. UNCHANGED <<log, req>> /\ answer' = [answer EXCEPT ![r] = target[r].verdict]
  OBVIOUS
<1>3. CASE target[r].verdict = "published"
  <2>1. Acked' = Acked \cup {r}
    BY <1>2, <1>3 DEF Acked, IInv, Types
  <2>2. r \in Register!Authors
    BY <1>1, <1>3 DEF AuthorOk, Authors, Register!Authors
  <2>3. Register!Acknowledge(r)
    BY <1>2, <2>1, <2>2 DEF Register!Acknowledge, Acked
  <2> QED
    BY <2>3 DEF Register!Next
<1>4. CASE target[r].verdict # "published"
  <2>1. answer[r] # "published"
    BY <1>1 DEF AuthorOk
  <2>2. Acked' = Acked
    BY <1>2, <1>4, <2>1 DEF Acked, IInv, Types
  <2> QED
    BY <1>2, <2>2 DEF Register!registerVars, Acked
<1> QED
  BY <1>3, <1>4

\* The steps that write nothing and acknowledge nothing are stuttering steps of
\* the register.
LEMMA QuietImplements ==
  ASSUME IInv, NEW r \in Requests,
         \/ FindTarget(r) \/ TargetMissing(r) \/ LoadCurrent(r) \/ LoadStale(r) \/ LoadFails(r)
         \/ PutUnknown(r) \/ LateVanishes(r) \/ Switch(r)
         \/ ReconcileFails(r) \/ ReconcileNotCommitted(r) \/ ReconcileActivates(r)
  PROVE  UNCHANGED Register!registerVars
<1> USE DEF FindTarget, TargetMissing, LoadCurrent, LoadStale, LoadFails, PutUnknown, LateVanishes,
            Switch, ReconcileFails, ReconcileNotCommitted, ReconcileActivates
<1>1. UNCHANGED <<log, req>>
  OBVIOUS
<1>2. \/ UNCHANGED answer
      \/ /\ rpc[r] # "done"
         /\ \E a \in {"not_found", "conflict", "unavailable", "not_committed", "unknown"} :
              answer' = [answer EXCEPT ![r] = a]
  OBVIOUS
<1>3. rpc[r] # "done" => answer[r] # "published"
  BY DEF IInv, AuthorInv, AuthorOk
<1>4. Acked' = Acked
  BY <1>2, <1>3 DEF Acked, IInv, Types
<1> QED
  BY <1>1, <1>4 DEF Register!registerVars, Acked

LEMMA ProcessImplements ==
  ASSUME IInv, NEW m \in Managers, Crash(m) \/ Start(m)
  PROVE  UNCHANGED Register!registerVars
<1> USE DEF Crash, Start
<1>1. UNCHANGED <<log, req>>
  OBVIOUS
<1>2. ASSUME NEW q \in Requests
      PROVE  answer'[q] = "published" <=> answer[q] = "published"
  <2>1. answer[q] # "none" => rpc[q] = "done"
    BY DEF IInv, AuthorInv, AuthorOk
  <2> QED
    BY <2>1 DEF InFlight
<1>3. Acked' = Acked
  BY <1>2 DEF Acked
<1> QED
  BY <1>1, <1>3 DEF Register!registerVars, Acked

\* PolicyManager over the ConfigMap implements the versioned register, whatever
\* interleaves, crashes, gets lost or arrives late: a request takes effect at
\* most once, on exactly the version it was based on, and is acknowledged only
\* after that (policy_manager.py:248-349).
THEOREM Refinement == Spec => ImplementsRegister
<1>1. Init => Register!Init
  BY DEF Init, Register!Init, Register!NoAsk, NoAsk
<1>2. IInv /\ [Next]_vars => [Register!Next]_(Register!registerVars)
  <2> SUFFICES ASSUME IInv, [Next]_vars
               PROVE  [Register!Next]_(Register!registerVars)
    OBVIOUS
  <2>1. ASSUME NEW r \in Requests, NEW m \in Managers, NEW base \in 1..Len(log),
               NEW p \in Policies, SubmitPublish(r, m, base, p)
        PROVE  Register!Next
    BY <2>1, SubmitImplements
  <2>2. ASSUME NEW r \in Requests, NEW m \in Managers, NEW base \in 1..Len(log),
               NEW from \in 1..Len(log), SubmitRollback(r, m, base, from)
        PROVE  Register!Next
    BY <2>2, SubmitImplements
  <2>3. ASSUME NEW r \in Requests, Handle(r)
        PROVE  [Register!Next]_(Register!registerVars)
    BY <2>3, QuietImplements, WriteImplements, AnswerImplements DEF Handle
  <2>4. ASSUME NEW m \in Managers, Crash(m) \/ Start(m)
        PROVE  UNCHANGED Register!registerVars
    BY <2>4, ProcessImplements
  <2>5. CASE UNCHANGED vars
    BY <2>5 DEF vars, Register!registerVars
  <2> QED
    BY <2>1, <2>2, <2>3, <2>4, <2>5 DEF Next
<1> QED
  BY <1>1, <1>2, Invariance, PTL DEF Spec, ImplementsRegister, Register!Spec

-----------------------------------------------------------------------------
(* What a request is told of its own write *)

\* The steps the thread of request r takes itself, and those among them that
\* come before the write.
Loads(r) == FindTarget(r) \/ TargetMissing(r) \/ LoadCurrent(r) \/ LoadStale(r) \/ LoadFails(r)
Reconciles(r) == ReconcileFails(r) \/ ReconcileNotCommitted(r) \/ ReconcileActivates(r)
Activates(r) == Switch(r) \/ CachePut(r) \/ CacheFails(r)
Proceeds(r) ==
  Loads(r) \/ PutAnswered(r) \/ PutUnknown(r) \/ Reconciles(r) \/ Activates(r)

USE DEF Loads, Reconciles, Activates

LEMMA StepIsOf ==
  ASSUME [Next]_vars
  PROVE  \/ \E r \in Requests, m \in Managers, base \in 1..Len(log) :
              \/ \E p \in Policies : SubmitPublish(r, m, base, p)
              \/ \E from \in 1..Len(log) : SubmitRollback(r, m, base, from)
         \/ \E r \in Requests : Proceeds(r) \/ LateArrives(r) \/ LateVanishes(r)
         \/ \E m \in Managers : Crash(m) \/ Start(m)
         \/ UNCHANGED vars
BY Zenon DEF Next, Handle, Proceeds

\* The n-th version was made by a request based on the version before it.
EntryOk(n) ==
  log[n].by \in Requests => /\ req[log[n].by].base + 1 = n
                            /\ log[n] = Entry(log[n].by)

EntryInv == \A n \in 1..rev : EntryOk(n)

\* The request has been told, or is about to be, that the document it found is
\* of someone else: others have published since, and after it if it did.
Superseded(r) ==
  \/ answer[r] = "superseded"
  \/ rpc[r] \in {"switch", "cache"} /\ target[r].verdict = "superseded"

SupersededOk(r) ==
  Superseded(r) => /\ rev > req[r].base
                   /\ r \in Authors => rev > req[r].base + 1

SupersededInv == \A r \in Requests : SupersededOk(r)

\* An author's request is what it was, and the log grows by writers only.
Grows(r) == /\ rpc[r] = "put" \/ r \in late
            /\ Grown(r)
            /\ UNCHANGED <<req, draft>>

KeepsAuthors ==
  \A q \in Requests : (\E n \in 1..rev : log[n].by = q) => req'[q] = req[q] /\ draft'[q] = draft[q]

LEMMA AuthorsAre ==
  ASSUME IInv, NEW q \in Requests
  PROVE  /\ q \in Authors <=> \E n \in 1..rev : log[n].by = q
         /\ q \in Authors => rpc[q] \notin {"new", "find", "load", "put"} /\ q \notin late
<1>1. rev = Len(log)
  BY DEF IInv, StoreInv
<1>2. AuthorOk(q)
  BY DEF IInv, AuthorInv
<1> QED
  BY <1>1, <1>2 DEF Authors, AuthorOk

LEMMA LogSteps ==
  ASSUME IInv, [Next]_vars
  PROVE  /\ UNCHANGED <<doc, rev, log>> \/ \E r \in Requests : Grows(r)
         /\ KeepsAuthors
<1>1. ASSUME NEW r \in Requests, NEW m \in Managers, NEW base, NEW p, NEW from,
             SubmitPublish(r, m, base, p) \/ SubmitRollback(r, m, base, from)
      PROVE  UNCHANGED <<doc, rev, log>> /\ KeepsAuthors
  <2>1. rpc[r] = "new" /\ UNCHANGED <<doc, rev, log>>
        /\ \A q \in Requests \ {r} : req'[q] = req[q] /\ draft'[q] = draft[q]
    BY <1>1 DEF SubmitPublish, SubmitRollback, Submit, IInv, Types
  <2> QED
    BY <2>1, AuthorsAre DEF KeepsAuthors
<1>2. ASSUME NEW r \in Requests, FindTarget(r)
      PROVE  UNCHANGED <<doc, rev, log>> /\ KeepsAuthors
  <2>1. rpc[r] = "find" /\ UNCHANGED <<doc, rev, log, req>>
        /\ \A q \in Requests \ {r} : draft'[q] = draft[q]
    BY <1>2 DEF FindTarget, IInv, Types
  <2> QED
    BY <2>1, AuthorsAre DEF KeepsAuthors
<1>3. ASSUME NEW r \in Requests, PutAnswered(r) \/ LateArrives(r)
      PROVE  (UNCHANGED <<doc, rev, log>> \/ Grows(r)) /\ KeepsAuthors
  <2>1. (rpc[r] = "put" \/ r \in late) /\ Write(r) /\ UNCHANGED <<req, draft>>
    BY <1>3 DEF PutAnswered, LateArrives
  <2> QED
    BY <2>1, WriteGrows DEF Grows, KeepsAuthors
<1>4. ASSUME NEW r \in Requests,
             \/ TargetMissing(r) \/ LoadCurrent(r) \/ LoadStale(r) \/ LoadFails(r)
             \/ PutUnknown(r) \/ LateVanishes(r) \/ Reconciles(r) \/ Activates(r)
      PROVE  UNCHANGED <<doc, rev, log, req, draft>>
  BY <1>4 DEF TargetMissing, LoadCurrent, LoadStale, LoadFails, PutUnknown, LateVanishes,
              ReconcileFails, ReconcileNotCommitted, ReconcileActivates, Switch, CachePut, CacheFails
<1>5. ASSUME (\E m \in Managers : Crash(m) \/ Start(m)) \/ UNCHANGED vars
      PROVE  UNCHANGED <<doc, rev, log, req, draft>>
  BY <1>5 DEF Crash, Start, vars
<1>6. UNCHANGED <<req, draft>> => KeepsAuthors
  BY DEF KeepsAuthors
<1> QED
  BY <1>1, <1>2, <1>3, <1>4, <1>5, <1>6, StepIsOf DEF Proceeds

LEMMA EntryKept ==
  ASSUME IInv, EntryInv, [Next]_vars
  PROVE  EntryInv'
<1>0. rev \in Nat /\ rev >= 1 /\ KeepsAuthors
  BY LogSteps DEF IInv, StoreInv
<1>1. ASSUME NEW n \in 1..rev, log'[n] = log[n]
      PROVE  EntryOk(n)'
  <2>1. CASE log[n].by \in Requests
    <3>1. req'[log[n].by] = req[log[n].by] /\ draft'[log[n].by] = draft[log[n].by]
      BY <1>0, <2>1 DEF KeepsAuthors
    <3>2. EntryOk(n)
      BY DEF EntryInv
    <3> QED
      BY <1>1, <3>1, <3>2 DEF EntryOk, Entry
  <2> QED
    BY <1>1, <2>1 DEF EntryOk
<1>2. CASE UNCHANGED <<doc, rev, log>>
  BY <1>1, <1>2 DEF EntryInv
<1>3. ASSUME NEW r \in Requests, Grows(r)
      PROVE  EntryInv'
  <2>1. /\ \A v \in 1..rev : log'[v] = log[v]
        /\ log'[rev + 1] = Entry(r)
        /\ rev' = rev + 1
        /\ req[r].base = rev
    BY <1>3, GrownKeeps DEF Grows, Grown
  <2>2. ASSUME NEW n \in 1..rev', n = rev + 1
        PROVE  EntryOk(n)'
    <3>1. log'[n] = Entry(r) /\ Entry(r)' = Entry(r) /\ req'[r] = req[r]
      BY <1>3, <2>1, <2>2 DEF Entry, Grows
    <3>2. Entry(r).by = r
      BY DEF Entry
    <3> QED
      BY <1>0, <2>1, <2>2, <3>1, <3>2 DEF EntryOk
  <2>3. \A n \in 1..rev : EntryOk(n)'
    BY <1>1, <2>1
  <2>4. \A n \in 1..rev' : n \in 1..rev \/ n = rev + 1
    BY <1>0, <2>1
  <2> QED
    BY <2>2, <2>3, <2>4 DEF EntryInv
<1> QED
  BY <1>2, <1>3, LogSteps

\* A request that has taken effect did so right after the version it was based on.
LEMMA AuthorIsAt ==
  ASSUME IInv, EntryInv, NEW q \in Requests, q \in Authors
  PROVE  req[q].base + 1 \in 1..rev /\ log[req[q].base + 1] = Entry(q)
<1>1. PICK n \in 1..rev : log[n].by = q
  BY AuthorsAre
<1>2. EntryOk(n)
  BY DEF EntryInv
<1> QED
  BY <1>1, <1>2 DEF EntryOk

\* Who finds another document than its own, and than the one it read, is not the
\* author of the latest version.
LEMMA FoundAnother ==
  ASSUME IInv, EntryInv, NEW r \in Requests, Planned(r),
         ~ (rev = plan[r].expect /\ doc = plan[r].old)
  PROVE  /\ rev > req[r].base
         /\ doc # plan[r].new /\ r \in Authors => rev > req[r].base + 1
<1>1. rev \in Nat \ {0} /\ doc = DocAt(log, rev) /\ req[r].base \in 1..rev
  BY DEF IInv, StoreInv, Planned
<1>2. /\ plan[r].expect = req[r].base
      /\ plan[r].old = DocAt(log, req[r].base)
      /\ plan[r].new = NextDoc(log, req[r].base, Entry(r))
  BY DEF Planned
<1>3. rev # req[r].base
  BY <1>1, <1>2
<1>4. ASSUME r \in Authors, rev = req[r].base + 1
      PROVE  doc = plan[r].new
  <2>1. log[rev] = Entry(r)
    BY <1>4, AuthorIsAt
  <2>2. \A v \in Window(rev) :
          Stored(log[v], IF v = rev THEN "active" ELSE "archived")
            = IF v = rev THEN Stored(Entry(r), "active") ELSE Stored(log[v], "archived")
    BY <2>1
  <2>3. doc.active = rev /\ doc.versions = plan[r].new.versions
    BY <1>1, <1>2, <1>4, <2>2 DEF DocAt, NextDoc
  <2> QED
    BY <1>1, <1>2, <1>4, <2>2 DEF DocAt, NextDoc
<1>5. r \in Authors => req[r].base + 1 <= rev
  BY <1>1, AuthorIsAt
<1> QED
  BY <1>1, <1>3, <1>4, <1>5

\* The ways to one of the two denials.
LEMMA DeniedBy ==
  ASSUME IInv, [Next]_vars, NEW r \in Requests
  PROVE  /\ Superseded(r)' =>
              \/ Superseded(r)
              \/ /\ ReconcileActivates(r)
                 /\ doc # plan[r].new
         /\ answer'[r] = "not_committed" =>
              answer[r] = "not_committed" \/ ReconcileNotCommitted(r)
<1>0. AuthorOk(r)
  BY DEF IInv, AuthorInv
<1>1. ASSUME UNCHANGED <<target, answer>>, rpc'[r] = rpc[r]
      PROVE  /\ Superseded(r)' => Superseded(r)
             /\ answer'[r] = "not_committed" => answer[r] = "not_committed"
  BY <1>1 DEF Superseded
<1>2. ASSUME NEW k \in Requests, NEW m \in Managers, NEW base, NEW p, NEW from,
             SubmitPublish(k, m, base, p) \/ SubmitRollback(k, m, base, from)
      PROVE  /\ Superseded(r)' => Superseded(r)
             /\ answer'[r] = "not_committed" => answer[r] = "not_committed"
  BY <1>2 DEF SubmitPublish, SubmitRollback, Submit, Superseded, IInv, Types
<1>3. ASSUME NEW k \in Requests, Proceeds(k), k # r
      PROVE  /\ Superseded(r)' => Superseded(r)
             /\ answer'[r] = "not_committed" => answer[r] = "not_committed"
  <2>1. rpc'[r] = rpc[r] /\ target'[r] = target[r] /\ answer'[r] = answer[r]
    BY <1>3 DEF Proceeds, IInv, Types, FindTarget, TargetMissing, LoadCurrent, LoadStale, LoadFails,
           PutAnswered, PutUnknown, ReconcileFails, ReconcileNotCommitted, ReconcileActivates,
           Switch, CachePut, CacheFails
  <2> QED
    BY <2>1 DEF Superseded
<1>4. CASE Loads(r) \/ PutAnswered(r) \/ PutUnknown(r) \/ ReconcileFails(r)
  <2>1. /\ answer'[r] \in {answer[r], "not_found", "conflict", "unavailable", "unknown"}
        /\ rpc'[r] = "switch" => target'[r].verdict = "published"
        /\ rpc'[r] # "cache"
    BY <1>4 DEF IInv, Types, FindTarget, TargetMissing, LoadCurrent, LoadStale, LoadFails,
           PutAnswered, PutUnknown, ReconcileFails
  <2> QED
    BY <2>1 DEF Superseded
<1>5. CASE ReconcileNotCommitted(r)
  <2>1. rpc'[r] = "done" /\ answer'[r] = "not_committed"
    BY <1>5 DEF IInv, Types, ReconcileNotCommitted
  <2> QED
    BY <1>5, <2>1 DEF Superseded
<1>6. CASE ReconcileActivates(r)
  <2>1. /\ UNCHANGED answer /\ rpc'[r] = "switch"
        /\ target'[r].verdict = IF doc = plan[r].new THEN "published" ELSE "superseded"
    BY <1>6 DEF IInv, Types, ReconcileActivates
  <2> QED
    BY <1>6, <2>1 DEF Superseded
<1>7. CASE Activates(r)
  <2>1. /\ rpc[r] \in {"switch", "cache"} /\ UNCHANGED target
        /\ \/ rpc'[r] = "cache" /\ UNCHANGED answer
           \/ rpc'[r] = "done" /\ answer'[r] = target[r].verdict
    BY <1>7 DEF IInv, Types, Switch, CachePut, CacheFails
  <2>2. target[r].verdict # "not_committed"
    BY <1>0, <2>1 DEF AuthorOk
  <2> QED
    BY <2>1, <2>2 DEF Superseded
<1>8. ASSUME NEW k \in Requests, LateArrives(k) \/ LateVanishes(k)
      PROVE  UNCHANGED <<target, answer, rpc>>
  BY <1>8 DEF LateArrives, LateVanishes
<1>9. ASSUME NEW m \in Managers, Crash(m)
      PROVE  /\ Superseded(r)' => Superseded(r)
             /\ answer'[r] = "not_committed" => answer[r] = "not_committed"
  <2>1. \/ rpc'[r] = "done" /\ answer'[r] = "lost"
        \/ rpc'[r] = rpc[r] /\ answer'[r] = answer[r]
    BY <1>9 DEF Crash
  <2>2. UNCHANGED target
    BY <1>9 DEF Crash
  <2> QED
    BY <2>1, <2>2 DEF Superseded
<1>10. ASSUME (\E m \in Managers : Start(m)) \/ UNCHANGED vars
       PROVE  UNCHANGED <<target, answer, rpc>>
  BY <1>10 DEF Start, vars
<1>11. ASSUME NEW k \in Requests, Proceeds(k), k = r
       PROVE  \/ Loads(r) \/ PutAnswered(r) \/ PutUnknown(r) \/ ReconcileFails(r)
              \/ ReconcileNotCommitted(r) \/ ReconcileActivates(r) \/ Activates(r)
  BY <1>11 DEF Proceeds
<1> QED
  BY <1>1, <1>2, <1>3, <1>4, <1>5, <1>6, <1>7, <1>8, <1>9, <1>10, <1>11, StepIsOf

LEMMA SupersededKept ==
  ASSUME IInv, EntryInv, SupersededInv, [Next]_vars
  PROVE  SupersededInv'
<1> SUFFICES ASSUME NEW r \in Requests, Superseded(r)'
             PROVE  /\ rev' > req'[r].base
                    /\ r \in Authors' => rev' > req'[r].base + 1
  BY DEF SupersededInv, SupersededOk
<1>0. rev \in Nat /\ rev >= 1 /\ rev' \in Nat /\ rev' >= rev /\ req[r].base \in Nat
  BY LogSteps DEF IInv, StoreInv, Types, Grows, Grown
<1>1. ASSUME rev > req[r].base, r \in Authors => rev > req[r].base + 1, req'[r] = req[r]
      PROVE  /\ rev' > req'[r].base
             /\ r \in Authors' => rev' > req'[r].base + 1
  <2>1. CASE UNCHANGED <<doc, rev, log>>
    BY <1>1, <2>1 DEF Authors
  <2>2. ASSUME NEW q \in Requests, Grows(q)
        PROVE  r \in Authors' => r \in Authors
    BY <1>0, <1>1, <2>2, GrownKeeps DEF Grows, Grown
  <2> QED
    BY <1>0, <1>1, <2>1, <2>2, LogSteps
<1>2. CASE Superseded(r)
  <2>1. SupersededOk(r) /\ rpc[r] # "new"
    BY <1>2 DEF SupersededInv, Superseded, IInv, AuthorInv, AuthorOk
  <2>2. req'[r] = req[r]
    <3>1. ASSUME NEW k \in Requests, NEW m \in Managers, NEW base, NEW p, NEW from,
                 SubmitPublish(k, m, base, p) \/ SubmitRollback(k, m, base, from)
          PROVE  req'[r] = req[r]
      BY <2>1, <3>1 DEF SubmitPublish, SubmitRollback, Submit, IInv, Types
    <3>2. ASSUME NEW k \in Requests, Proceeds(k) \/ LateArrives(k) \/ LateVanishes(k)
          PROVE  UNCHANGED req
      BY <3>2 DEF Proceeds, FindTarget, TargetMissing, LoadCurrent, LoadStale, LoadFails,
             PutAnswered, PutUnknown, ReconcileFails, ReconcileNotCommitted, ReconcileActivates,
             Switch, CachePut, CacheFails, LateArrives, LateVanishes
    <3>3. (\E m \in Managers : Crash(m) \/ Start(m)) \/ UNCHANGED vars => UNCHANGED req
      BY DEF Crash, Start, vars
    <3> QED
      BY <3>1, <3>2, <3>3, StepIsOf
  <2> QED
    BY <1>1, <1>2, <2>1, <2>2 DEF SupersededOk
<1>3. CASE ReconcileActivates(r) /\ doc # plan[r].new
  <2>1. /\ rpc[r] = "reconcile" /\ UNCHANGED req
        /\ ~ (rev = plan[r].expect /\ doc = plan[r].old)
    BY <1>3 DEF ReconcileActivates
  <2>2. Planned(r)
    BY <2>1 DEF IInv, RequestInv, RequestOk
  <2> QED
    BY <1>1, <1>3, <2>1, <2>2, FoundAnother
<1> QED
  BY <1>2, <1>3, DeniedBy

LEMMA DenialInit == Init => EntryInv /\ SupersededInv
<1>1. Init => EntryInv
  BY DEF Init, EntryInv, EntryOk
<1>2. Init => SupersededInv
  BY DEF Init, SupersededInv, SupersededOk, Superseded
<1> QED
  BY <1>1, <1>2

LEMMA AlwaysEntries == Spec => [](IInv /\ EntryInv)
<1>1. IInv /\ EntryInv /\ [Next]_vars => EntryInv'
  BY EntryKept
<1> QED
  BY <1>1, DenialInit, Invariance, PTL DEF Spec

\* However many processes and requests, and whatever fails, crashes or arrives
\* late: who is told that its write was not committed is no author then, and
\* becomes one only by its own PUT that is still on its way; who is told that
\* another policy was committed never takes effect after that, and if it did,
\* others have published after it (policy_manager.py:321-337).
THEOREM DenialsAlwaysTrue == Spec => DenialsAreTrue
<1>1. IInv /\ EntryInv /\ SupersededInv /\ [Next]_vars => SupersededInv'
  BY SupersededKept
<1>2. IInv /\ EntryInv /\ SupersededInv /\ IInv' /\ EntryInv' /\ SupersededInv' /\ [Next]_vars
        => [\A r \in Requests : DenialIsTrue(r)]_vars
  <2> SUFFICES ASSUME IInv, EntryInv, SupersededInv, IInv', EntryInv', SupersededInv',
                      [Next]_vars, NEW r \in Requests
               PROVE  DenialIsTrue(r)
    OBVIOUS
  <2>1. ASSUME r \in Authors', r \notin Authors
        PROVE  Grows(r)
    BY <2>1, LogSteps, GrownKeeps DEF Authors, Grows
  <2>2. ASSUME answer'[r] = "not_committed", r \in Authors'
        PROVE  answer[r] = "not_committed" /\ (r \in Authors \/ r \in late)
    <3>1. CASE answer[r] = "not_committed"
      <4>1. rpc[r] = "done"
        BY <3>1 DEF IInv, AuthorInv, AuthorOk
      <4> QED
        BY <2>1, <2>2, <3>1, <4>1 DEF Grows
    <3>2. CASE ReconcileNotCommitted(r)
      <4>1. rpc[r] = "reconcile" /\ rev = plan[r].expect /\ UNCHANGED log
        BY <3>2 DEF ReconcileNotCommitted
      <4>2. Planned(r)
        BY <4>1 DEF IInv, RequestInv, RequestOk
      <4>3. rev = req[r].base /\ rev \in Nat
        BY <4>1, <4>2 DEF Planned, IInv, StoreInv
      <4>4. r \notin Authors
        BY <4>3, AuthorIsAt
      <4> QED
        BY <2>2, <4>1, <4>4 DEF Authors
    <3> QED
      BY <2>2, <3>1, <3>2, DeniedBy
  <2>3. ASSUME answer'[r] = "superseded", r \in Authors'
        PROVE  r \in Authors /\ log'[Len(log')].by # r
    <3>1. rev' > req'[r].base + 1 /\ rev' \in Nat /\ rev' = Len(log') /\ rev' >= 1
      BY <2>3 DEF SupersededInv, SupersededOk, Superseded, IInv, StoreInv
    <3>2. log'[rev'].by # r
      <4>1. EntryOk(rev)'
        BY <3>1 DEF EntryInv
      <4> QED
        BY <3>1, <4>1 DEF EntryOk
    <3>3. r \in Authors
      BY <2>1, <2>3, <3>1 DEF Grows, Grown
    <3> QED
      BY <3>1, <3>2, <3>3
  <2> QED
    BY <2>2, <2>3 DEF DenialIsTrue
<1> QED
  BY <1>1, <1>2, DenialInit, AlwaysEntries, PTL DEF Spec, DenialsAreTrue

-----------------------------------------------------------------------------
(* One process that handles requests one at a time *)

\* The next request is taken when the last is done.
OneAtATime == Concurrency <= 1

\* The deployment of one replica, while it is not rolled.
OneProcess == \A m, n \in Managers : m = n

\* At most one request is in flight, in a process that is up.
Alone ==
  /\ \A r, q \in InFlight : r = q
  /\ \A r \in InFlight : up[home[r]]

\* A step of a request leaves the others where they are.
LEMMA ProceedsAlone ==
  ASSUME IInv, NEW r \in Requests, Proceeds(r)
  PROVE  /\ r \in InFlight
         /\ rpc'[r] # "new"
         /\ \A q \in Requests \ {r} : Untouched(q)
         /\ UNCHANGED <<up, home, req>>
         /\ late' \subseteq late \cup {r}
<1>1. rpc[r] \notin {"new", "done"}
  BY DEF Proceeds, FindTarget, TargetMissing, LoadCurrent, LoadStale, LoadFails, PutAnswered,
         PutUnknown, ReconcileFails, ReconcileNotCommitted, ReconcileActivates,
         Switch, CachePut, CacheFails
<1>2. CASE Loads(r)
  BY <1>1, <1>2 DEF IInv, Types, InFlight, Untouched,
         FindTarget, TargetMissing, LoadCurrent, LoadStale, LoadFails
<1>3. CASE PutAnswered(r)
  BY <1>1, <1>3 DEF IInv, Types, InFlight, Untouched, PutAnswered
<1>4. CASE PutUnknown(r)
  BY <1>1, <1>4 DEF IInv, Types, InFlight, Untouched, PutUnknown
<1>5. CASE Reconciles(r)
  BY <1>1, <1>5 DEF IInv, Types, InFlight, Untouched,
         ReconcileFails, ReconcileNotCommitted, ReconcileActivates
<1>6. CASE Activates(r)
  BY <1>1, <1>6 DEF IInv, Types, InFlight, Untouched, Switch, CachePut, CacheFails
<1> QED
  BY <1>2, <1>3, <1>4, <1>5, <1>6 DEF Proceeds

\* While there is at most one request in flight, a new one is only taken when
\* there is none.
LEMMA SubmitsAlone ==
  ASSUME OneAtATime, IInv, Alone,
         NEW r \in Requests, NEW m \in Managers, NEW base, NEW p, NEW from,
         SubmitPublish(r, m, base, p) \/ SubmitRollback(r, m, base, from)
  PROVE  /\ InFlight = {}
         /\ rpc[r] = "new" /\ rpc'[r] \in {"find", "load"}
         /\ home'[r] = m /\ up[m]
         /\ \A q \in Requests \ {r} : Untouched(q)
         /\ UNCHANGED <<doc, rev, late, log, up, active, ready, plan, target, answer, faults>>
<1> USE DEF SubmitPublish, SubmitRollback, Submit
<1>1. IsFiniteSet(InFlight)
  <2>1. CASE InFlight = {}
    BY <2>1, FS_EmptySet
  <2>2. CASE InFlight # {}
    <3>1. PICK q \in InFlight : InFlight = {q}
      BY <2>2 DEF Alone
    <3> QED
      BY <3>1, FS_Singleton
  <2> QED
    BY <2>1, <2>2
<1>2. Cardinality(InFlight) < 1 /\ Cardinality(InFlight) \in Nat
  BY <1>1, FS_CardinalityType DEF OneAtATime
<1>3. InFlight = {}
  BY <1>1, <1>2, FS_EmptySet
<1> QED
  BY <1>3 DEF IInv, Types, Untouched

LEMMA AloneKept ==
  ASSUME OneAtATime, OneProcess, IInv, Alone, [Next]_vars
  PROVE  Alone'
<1>1. ASSUME NEW r \in Requests, NEW m \in Managers, NEW base, NEW p, NEW from,
             SubmitPublish(r, m, base, p) \/ SubmitRollback(r, m, base, from)
      PROVE  Alone'
  <2>1. /\ InFlight = {} /\ \A q \in Requests \ {r} : Untouched(q)
        /\ home'[r] = m /\ up[m] /\ UNCHANGED up
    BY <1>1, SubmitsAlone
  <2>2. \A q \in Requests \ {r} : q \notin InFlight'
    BY <2>1 DEF InFlight, Untouched
  <2> QED
    BY <2>1, <2>2 DEF Alone, InFlight
<1>2. ASSUME NEW r \in Requests, Proceeds(r)
      PROVE  Alone'
  BY <1>2, ProceedsAlone DEF Alone, InFlight, Untouched
<1>3. ASSUME NEW r \in Requests, LateArrives(r) \/ LateVanishes(r)
      PROVE  Alone'
  BY <1>3 DEF LateArrives, LateVanishes, Alone, InFlight
<1>4. ASSUME NEW m \in Managers, Crash(m)
      PROVE  Alone'
  <2>1. InFlight' = {}
    BY <1>4 DEF Crash, OneProcess, InFlight, IInv, RequestInv, RequestOk
  <2> QED
    BY <2>1 DEF Alone
<1>5. ASSUME NEW m \in Managers, Start(m)
      PROVE  Alone'
  BY <1>5 DEF Start, Alone, InFlight, IInv, Types
<1>6. CASE UNCHANGED vars
  BY <1>6 DEF vars, Alone, InFlight
<1> QED
  BY <1>1, <1>2, <1>3, <1>4, <1>5, <1>6, StepIsOf

\* It takes two failed calls to leave a process that is not ready or a request
\* that does not know its outcome, and a third to reconcile another write in that
\* process or to stop it.
FaultsSeen ==
  /\ \A m \in Managers : ~ ready[m] => faults >= 2
  /\ \A r \in Requests : rpc[r] = "reconcile" =>
       faults >= 1 /\ (~ ready[home[r]] => faults >= 3)
  /\ \A q \in Requests : answer[q] = "unknown" =>
       faults >= 2 /\ \A m \in Managers : ~ up[m] => faults >= 3

LEMMA FaultsSeenKept ==
  ASSUME OneAtATime, OneProcess, IInv, Alone, FaultsSeen, [Next]_vars
  PROVE  FaultsSeen'
<1>0. faults \in Nat
  BY DEF IInv, Types
<1>1. ASSUME NEW r \in Requests, NEW m \in Managers, NEW base, NEW p, NEW from,
             SubmitPublish(r, m, base, p) \/ SubmitRollback(r, m, base, from)
      PROVE  FaultsSeen'
  <2>1. /\ InFlight = {} /\ rpc'[r] \in {"find", "load"}
        /\ \A k \in Requests \ {r} : Untouched(k)
        /\ UNCHANGED <<ready, up, answer, faults>>
    BY <1>1, SubmitsAlone
  <2>2. \A q \in Requests : rpc'[q] # "reconcile"
    BY <2>1 DEF InFlight, Untouched
  <2> QED
    BY <2>1, <2>2 DEF FaultsSeen
<1>2. ASSUME NEW r \in Requests, Proceeds(r)
      PROVE  FaultsSeen'
  <2>1. /\ r \in InFlight /\ home[r] \in Managers
        /\ \A q \in Requests \ {r} : Untouched(q)
        /\ UNCHANGED <<up, home>>
    BY <1>2, ProceedsAlone DEF IInv, RequestInv, RequestOk, InFlight
  <2>2. \A m \in Managers : up'[m]
    BY <2>1 DEF Alone, OneProcess
  <2>3. \A q \in Requests \ {r} : rpc'[q] # "reconcile" /\ answer'[q] = answer[q]
    BY <2>1 DEF Alone, InFlight, Untouched
  <2>4. CASE PutUnknown(r)
    <3>1. /\ faults' = faults + 1 /\ rpc'[r] = "reconcile"
          /\ UNCHANGED <<ready, answer>>
      BY <2>4 DEF PutUnknown, IInv, Types
    <3> QED
      BY <1>0, <2>1, <2>2, <2>3, <3>1 DEF FaultsSeen
  <2>5. CASE ReconcileFails(r)
    <3>1. faults' = faults + 1 /\ rpc[r] = "reconcile" /\ rpc'[r] = "done"
      BY <2>5 DEF ReconcileFails, IInv, Types
    <3> QED
      BY <1>0, <2>1, <2>2, <2>3, <3>1 DEF FaultsSeen
  <2>6. CASE ~ PutUnknown(r) /\ ~ ReconcileFails(r)
    <3>1. \A m \in Managers : ready[m] => ready'[m]
      BY <1>2, <2>6 DEF Proceeds, IInv, Types, FindTarget, TargetMissing, LoadCurrent, LoadStale,
             LoadFails, PutAnswered, ReconcileNotCommitted, ReconcileActivates,
             Switch, CachePut, CacheFails
    <3>2. faults' \in {faults, faults + 1}
      BY <1>2, <2>6 DEF Proceeds, FindTarget, TargetMissing, LoadCurrent, LoadStale,
             LoadFails, PutAnswered, ReconcileNotCommitted, ReconcileActivates,
             Switch, CachePut, CacheFails
    <3>3. rpc'[r] # "reconcile"
      BY <1>2, <2>6 DEF Proceeds, IInv, Types, FindTarget, TargetMissing, LoadCurrent, LoadStale,
             LoadFails, PutAnswered, ReconcileNotCommitted, ReconcileActivates,
             Switch, CachePut, CacheFails
    <3>4. answer'[r] = "unknown" => answer[r] = "unknown"
      <4>1. target[r].verdict \in Verdicts
        BY DEF IInv, Types
      <4> QED
        BY <1>2, <2>6, <4>1 DEF Proceeds, IInv, Types, FindTarget, TargetMissing, LoadCurrent,
             LoadStale, LoadFails, PutAnswered, ReconcileNotCommitted, ReconcileActivates,
             Switch, CachePut, CacheFails, Verdicts
    <3> QED
      BY <1>0, <2>2, <2>3, <3>1, <3>2, <3>3, <3>4 DEF FaultsSeen
  <2> QED
    BY <2>4, <2>5, <2>6
<1>3. ASSUME NEW r \in Requests, LateArrives(r) \/ LateVanishes(r)
      PROVE  FaultsSeen'
  BY <1>3 DEF LateArrives, LateVanishes, FaultsSeen
<1>4. ASSUME NEW m \in Managers, Crash(m)
      PROVE  FaultsSeen'
  <2>1. faults' = faults + 1 /\ UNCHANGED ready
    BY <1>4 DEF Crash
  <2>2. \A q \in Requests : rpc'[q] # "reconcile" /\ (answer'[q] = "unknown" => answer[q] = "unknown")
    BY <1>4 DEF Crash, OneProcess, InFlight, IInv, RequestInv, RequestOk
  <2> QED
    BY <1>0, <2>1, <2>2 DEF FaultsSeen
<1>5. ASSUME NEW m \in Managers, Start(m)
      PROVE  FaultsSeen'
  BY <1>5 DEF Start, FaultsSeen, IInv, Types
<1>6. CASE UNCHANGED vars
  BY <1>6 DEF vars, FaultsSeen
<1> QED
  BY <1>1, <1>2, <1>3, <1>4, <1>5, <1>6, StepIsOf

\* The request has not been told that it is published, and knows or will be told
\* that its write is in doubt.
Excused(q, m) == Unconfirmed(q, m) \/ rpc[q] = "reconcile"

\* A write on its way is on no later version than the one a request writes on;
\* what a process is about to activate is stored, and no write on its way can
\* replace it.
OrderOk(r) ==
  /\ rpc[r] \in {"put", "reconcile"} => \A q \in late : req[q].base <= req[r].base
  /\ rpc[r] = "switch" => /\ target[r].record = ActiveOf(doc)
                          /\ \A q \in late : req[q].base < rev

\* A write on its way that would be accepted.
LateExcused == \A q \in late : req[q].base = rev => \A m \in Managers : Excused(q, m)

LagOk(m) ==
  up[m] /\ (\A r \in Requests : rpc[r] # "switch") =>
    \/ active[m] = ActiveOf(doc)
    \/ \E a \in Requests : a = log[rev].by /\ Excused(a, m)

LagInv ==
  /\ Alone
  /\ FaultsSeen
  /\ \A r \in Requests : OrderOk(r)
  /\ LateExcused
  /\ \A m \in Managers : LagOk(m)

\* While a request is at a label, no other is at one of a handler.
LEMMA OthersIdle ==
  ASSUME Alone, NEW r \in InFlight, NEW q \in Requests, q # r
  PROVE  rpc[q] \in {"new", "done"}
BY DEF Alone, InFlight

\* What is to be shown of a step of the only request in flight that neither
\* writes nor switches: that it excuses itself and those it can tell of.
LEMMA QuietLags ==
  ASSUME OneProcess, IInv, LagInv, NEW r \in InFlight,
         \A q \in Requests \ {r} : Untouched(q),
         UNCHANGED <<doc, rev, log, req, up, active>>,
         Alone', FaultsSeen', OrderOk(r)',
         rpc[r] # "switch",
         late' \subseteq late \cup {r},
         r \in late' /\ rpc'[r] # "switch" => \A m \in Managers : Excused(r, m)',
         r \in Authors /\ rpc'[r] # "switch" /\ (\E m \in Managers : Excused(r, m)) =>
           \A m \in Managers : Excused(r, m)',
         rpc'[r] # "switch" =>
           \A m \in Managers : \A q \in Requests \ {r} :
             Unconfirmed(q, m) => Unconfirmed(q, m)'
  PROVE  LagInv'
<1>0. r \in Requests
  BY DEF InFlight
<1>1. \A q \in Requests \ {r} : rpc[q] \in {"new", "done"} /\ rpc'[q] = rpc[q]
  BY OthersIdle DEF LagInv, Untouched
<1>2. \A q \in Requests : OrderOk(q)'
  BY <1>1 DEF OrderOk
<1>3. rev = Len(log) /\ rev >= 1 /\ rev \in Nat
  BY DEF IInv, StoreInv
<1>4. LateExcused'
  <2> SUFFICES ASSUME NEW q \in late', req'[q].base = rev', NEW m \in Managers
               PROVE  Excused(q, m)'
    BY DEF LateExcused
  <2>0. q \in Requests /\ r \in Requests
    BY DEF InFlight, IInv, Types
  <2>1. CASE rpc'[r] = "switch"
    <3>1. req'[q].base < rev'
      BY <2>0, <2>1 DEF OrderOk
    <3> QED
      BY <1>3, <3>1
  <2>2. CASE rpc'[r] # "switch" /\ q # r
    <3>1. q \in late /\ Excused(q, m)
      BY <2>2 DEF LagInv, LateExcused
    <3>2. Unconfirmed(q, m)
      BY <1>1, <2>0, <2>2, <3>1 DEF Excused
    <3> QED
      BY <2>0, <2>2, <3>2 DEF Excused
  <2>3. CASE rpc'[r] # "switch" /\ q = r
    BY <2>3
  <2> QED
    BY <2>1, <2>2, <2>3
<1>5. ASSUME NEW m \in Managers, rpc'[r] # "switch", up'[m]
      PROVE  \/ active'[m] = ActiveOf(doc')
             \/ \E a \in Requests : a = log'[rev'].by /\ Excused(a, m)'
  <2>1. \A q \in Requests : rpc[q] # "switch"
    BY <1>1
  <2>2. CASE active[m] = ActiveOf(doc)
    BY <2>2
  <2>3. CASE active[m] # ActiveOf(doc)
    <3>1. PICK a \in Requests : a = log[rev].by /\ Excused(a, m)
      BY <1>5, <2>1, <2>3 DEF LagInv, LagOk
    <3>2. CASE a = r
      <4>1. rev \in 1..rev /\ log[rev].by = r
        BY <1>3, <3>1, <3>2
      <4>2. r \in Authors
        BY <1>0, <4>1, AuthorsAre
      <4> QED
        BY <1>5, <3>1, <3>2, <4>2
    <3>3. CASE a # r
      <4>1. Unconfirmed(a, m)
        BY <1>1, <3>1, <3>3 DEF Excused
      <4> QED
        BY <1>5, <3>1, <3>3, <4>1 DEF Excused
    <3> QED
      BY <3>2, <3>3
  <2> QED
    BY <2>2, <2>3
<1>6. \A m \in Managers : LagOk(m)'
  BY <1>0, <1>5 DEF LagOk, ActiveOf
<1> QED
  BY <1>2, <1>4, <1>6 DEF LagInv

\* What excuses a request that a step leaves alone.
LEMMA ExcuseKept ==
  ASSUME IInv, NEW q \in Requests, answer'[q] = answer[q], faults' >= faults, faults' \in Nat,
         NEW m \in Managers, ready'[m] => ready[m] \/ faults' >= 3,
         Unconfirmed(q, m)
  PROVE  Unconfirmed(q, m)'
<1>1. faults \in Nat
  BY DEF IInv, Types
<1> QED
  BY <1>1 DEF Unconfirmed

LEMMA LoadLags ==
  ASSUME OneProcess, IInv, LagInv, Alone', FaultsSeen', NEW r \in Requests, Loads(r)
  PROVE  LagInv'
<1> USE DEF FindTarget, TargetMissing, LoadCurrent, LoadStale, LoadFails
<1>1. /\ r \in InFlight
      /\ \A q \in Requests \ {r} : Untouched(q)
      /\ UNCHANGED <<doc, rev, log, late, req, up, active, ready>>
  BY ProceedsAlone DEF Proceeds
<1>2. /\ rpc[r] \in {"find", "load"} /\ rpc'[r] \in {"load", "put", "done"}
      /\ rpc'[r] = "put" => rev = req[r].base
  BY DocIsCommitted DEF IInv, Types
<1>3. faults' \in {faults, faults + 1} /\ faults \in Nat
  BY DEF IInv, Types
<1>4. r \notin late /\ r \notin Authors
  BY <1>2 DEF IInv, AuthorInv, AuthorOk
<1>5. \A q \in late : req[q].base \in 1..rev
  BY DEF IInv, Types, RequestInv, RequestOk, Planned
<1>6. OrderOk(r)'
  BY <1>1, <1>2, <1>5 DEF OrderOk, IInv, StoreInv
<1>7. \A m \in Managers : \A q \in Requests \ {r} : Unconfirmed(q, m) => Unconfirmed(q, m)'
  BY <1>1, <1>3, ExcuseKept DEF Untouched
<1> HIDE DEF Loads, FindTarget, TargetMissing, LoadCurrent, LoadStale, LoadFails
<1> QED
  BY <1>1, <1>2, <1>4, <1>6, <1>7, QuietLags

LEMMA PutAnsweredLags ==
  ASSUME OneProcess, IInv, LagInv, Alone', FaultsSeen', NEW r \in Requests, PutAnswered(r)
  PROVE  LagInv'
<1> USE DEF PutAnswered
<1>1. /\ r \in InFlight
      /\ \A q \in Requests \ {r} : Untouched(q)
      /\ UNCHANGED <<late, req, up, active, ready, faults>>
      /\ rpc[r] = "put"
  BY ProceedsAlone DEF Proceeds
<1>2. r \notin late /\ r \notin Authors /\ plan[r].expect = req[r].base /\ rev \in Nat
  <2>1. AuthorOk(r) /\ RequestOk(r) /\ rev \in Nat
    BY DEF IInv, AuthorInv, RequestInv, StoreInv
  <2> QED
    BY <1>1, <2>1 DEF AuthorOk, RequestOk, Planned
<1>3. \A q \in late : req[q].base <= req[r].base /\ req[q].base \in Nat /\ q \in Requests
  BY <1>1 DEF LagInv, OrderOk, IInv, Types
<1>4. CASE plan[r].expect = rev
  <2>1. Grown(r) /\ plan[r].new = doc'
    BY <1>1, <1>4, WriteGrows
  <2>2. rpc'[r] = "switch" /\ target'[r].record = ActiveOf(doc')
    BY <1>1, <1>4, <2>1 DEF IInv, Types, ActiveOf
  <2>3. \A q \in late : req[q].base < rev'
    BY <1>2, <1>3, <2>1 DEF Grown
  <2>4. \A q \in Requests \ {r} : rpc'[q] \in {"new", "done"}
    BY <1>1, OthersIdle DEF LagInv, Untouched
  <2>5. \A q \in Requests : OrderOk(q)'
    BY <1>1, <2>2, <2>3, <2>4 DEF OrderOk, ActiveOf
  <2>6. LateExcused'
    BY <1>1, <1>2, <1>3, <2>1, <2>3 DEF LateExcused, Grown
  <2>7. \A m \in Managers : LagOk(m)'
    BY <2>2 DEF LagOk
  <2> QED
    BY <2>5, <2>6, <2>7 DEF LagInv
<1>5. CASE plan[r].expect # rev
  <2>1. UNCHANGED <<doc, rev, log>> /\ rpc'[r] = "done"
    BY <1>1, <1>5, WriteGrows DEF IInv, Types
  <2>2. OrderOk(r)'
    BY <2>1 DEF OrderOk
  <2>3. faults \in Nat
    BY DEF IInv, Types
  <2>4. \A m \in Managers : \A q \in Requests \ {r} : Unconfirmed(q, m) => Unconfirmed(q, m)'
    BY <1>1, <2>3, ExcuseKept DEF Untouched
  <2> HIDE DEF PutAnswered
  <2> QED
    BY <1>1, <1>2, <2>1, <2>2, <2>4, QuietLags
<1> QED
  BY <1>4, <1>5

LEMMA PutUnknownLags ==
  ASSUME OneProcess, IInv, LagInv, Alone', FaultsSeen', NEW r \in Requests, PutUnknown(r)
  PROVE  LagInv'
<1> USE DEF PutUnknown
<1>1. /\ r \in InFlight
      /\ \A q \in Requests \ {r} : Untouched(q)
      /\ UNCHANGED <<doc, rev, log, req, up, active, ready>>
      /\ rpc[r] = "put" /\ rpc'[r] = "reconcile"
      /\ late' = late \cup {r}
      /\ faults' = faults + 1 /\ faults \in Nat
  <2>1. r \in InFlight /\ \A q \in Requests \ {r} : Untouched(q)
    BY ProceedsAlone DEF Proceeds
  <2> QED
    BY <2>1 DEF IInv, Types
<1>2. r \notin Authors /\ req[r].base \in Nat
  BY <1>1 DEF IInv, Types, AuthorInv, AuthorOk
<1>3. OrderOk(r)'
  BY <1>1, <1>2 DEF LagInv, OrderOk
<1>4. \A m \in Managers : Excused(r, m)'
  BY <1>1 DEF Excused
<1>5. \A m \in Managers : \A q \in Requests \ {r} : Unconfirmed(q, m) => Unconfirmed(q, m)'
  BY <1>1, ExcuseKept DEF Untouched
<1> HIDE DEF PutUnknown
<1> QED
  BY <1>1, <1>2, <1>3, <1>4, <1>5, QuietLags

LEMMA ReconcileLags ==
  ASSUME OneProcess, IInv, EntryInv, LagInv, Alone', FaultsSeen', NEW r \in Requests, Reconciles(r)
  PROVE  LagInv'
<1> USE DEF ReconcileFails, ReconcileNotCommitted, ReconcileActivates
<1>1. /\ r \in InFlight
      /\ \A q \in Requests \ {r} : Untouched(q)
      /\ UNCHANGED <<doc, rev, log, late, req, up, active>>
      /\ rpc[r] = "reconcile" /\ home[r] \in Managers
  BY ProceedsAlone DEF Proceeds, IInv, RequestInv, RequestOk
<1>2. Planned(r) /\ rev \in Nat /\ faults \in Nat
  BY <1>1 DEF IInv, RequestInv, RequestOk, StoreInv, Types
<1>3. \A m \in Managers : m = home[r]
  BY <1>1 DEF OneProcess
<1>4. CASE ReconcileFails(r)
  <2>1. /\ rpc'[r] = "done" /\ answer'[r] = "unknown"
        /\ \A m \in Managers : ~ ready'[m]
        /\ faults' = faults + 1
    BY <1>1, <1>3, <1>4 DEF IInv, Types
  <2>2. OrderOk(r)'
    BY <2>1 DEF OrderOk
  <2>3. \A m \in Managers : Excused(r, m)'
    BY <2>1 DEF Excused, Unconfirmed
  <2>4. \A m \in Managers : \A q \in Requests \ {r} : Unconfirmed(q, m) => Unconfirmed(q, m)'
    BY <1>1, <1>2, <2>1, ExcuseKept DEF Untouched
  <2> HIDE DEF Reconciles, ReconcileFails, ReconcileNotCommitted, ReconcileActivates
  <2> QED
    BY <1>1, <2>1, <2>2, <2>3, <2>4, QuietLags
<1>5. CASE ReconcileNotCommitted(r)
  <2>1. rpc'[r] = "done" /\ answer'[r] = "not_committed" /\ UNCHANGED faults
    BY <1>1, <1>5 DEF IInv, Types
  <2>2. \A m \in Managers : ready[m] \/ faults >= 3
    BY <1>1, <1>3 DEF LagInv, FaultsSeen
  <2>3. OrderOk(r)'
    BY <2>1 DEF OrderOk
  <2>4. \A m \in Managers : Excused(r, m)'
    BY <2>1 DEF Excused, Unconfirmed
  <2>5. \A m \in Managers : \A q \in Requests \ {r} : Unconfirmed(q, m) => Unconfirmed(q, m)'
    BY <1>1, <1>2, <2>1, <2>2, ExcuseKept DEF Untouched
  <2> HIDE DEF Reconciles, ReconcileFails, ReconcileNotCommitted, ReconcileActivates
  <2> QED
    BY <1>1, <2>1, <2>3, <2>4, <2>5, QuietLags
<1>6. CASE ReconcileActivates(r)
  <2>1. /\ rpc'[r] = "switch" /\ target'[r].record = ActiveOf(doc)
        /\ ~ (rev = plan[r].expect /\ doc = plan[r].old)
    BY <1>6 DEF IInv, Types
  <2>2. rev > req[r].base /\ req[r].base \in Nat
    BY <1>2, <2>1, FoundAnother DEF IInv, Types
  <2>3. \A q \in late : req[q].base <= req[r].base /\ req[q].base \in Nat
    BY <1>1 DEF LagInv, OrderOk, IInv, Types
  <2>4. OrderOk(r)'
    BY <1>1, <1>2, <2>1, <2>2, <2>3 DEF OrderOk, ActiveOf
  <2> HIDE DEF Reconciles, ReconcileFails, ReconcileNotCommitted, ReconcileActivates
  <2> QED
    BY <1>1, <2>1, <2>4, QuietLags
<1> QED
  BY <1>4, <1>5, <1>6

LEMMA ActivateLags ==
  ASSUME OneProcess, IInv, LagInv, Alone', FaultsSeen', NEW r \in Requests, Activates(r)
  PROVE  LagInv'
<1> USE DEF Switch, CachePut, CacheFails
<1>1. /\ r \in InFlight /\ home[r] \in Managers
      /\ \A q \in Requests \ {r} : Untouched(q)
      /\ UNCHANGED <<doc, rev, log, late, req, up>>
      /\ rpc'[r] \in {"cache", "done"}
  BY ProceedsAlone DEF Proceeds, IInv, Types, RequestInv, RequestOk, InFlight
<1>2. OrderOk(r)'
  BY <1>1 DEF OrderOk
<1>3. faults' \in {faults, faults + 1} /\ faults \in Nat /\ rev \in Nat
  BY DEF IInv, Types, StoreInv
<1>4. CASE Switch(r)
  <2>1. /\ \A q \in late : req[q].base < rev /\ q \in Requests /\ req[q].base \in Nat
        /\ target[r].record = ActiveOf(doc)
    BY <1>4 DEF LagInv, OrderOk, IInv, Types
  <2>2. \A m \in Managers : active'[m] = ActiveOf(doc)
    <3>1. active'[home[r]] = target[r].record
      BY <1>1, <1>4 DEF IInv, Types
    <3> QED
      BY <1>1, <2>1, <3>1 DEF OneProcess
  <2>3. \A q \in Requests \ {r} : rpc'[q] \in {"new", "done"}
    BY <1>1, OthersIdle DEF LagInv, Untouched
  <2>4. \A q \in Requests : OrderOk(q)'
    BY <1>2, <2>3 DEF OrderOk
  <2>5. LateExcused'
    BY <1>1, <1>3, <2>1 DEF LateExcused
  <2>6. \A m \in Managers : LagOk(m)'
    BY <1>1, <2>2 DEF LagOk, ActiveOf
  <2> QED
    BY <2>4, <2>5, <2>6 DEF LagInv
<1>5. CASE CachePut(r) \/ CacheFails(r)
  <2>1. rpc[r] = "cache" /\ UNCHANGED <<active, ready>>
    BY <1>5
  <2>2. \A m \in Managers : ~ Excused(r, m)
    BY <2>1 DEF Excused, Unconfirmed, IInv, AuthorInv, AuthorOk
  <2>3. r \notin late \/ req[r].base # rev \/ Managers = {}
    BY <2>2 DEF LagInv, LateExcused
  <2>4. \A q \in Requests \ {r} : rpc[q] \in {"new", "done"} /\ rpc'[q] = rpc[q]
    BY <1>1, OthersIdle DEF LagInv, Untouched
  <2>5. \A q \in Requests : OrderOk(q)'
    BY <1>2, <2>4 DEF OrderOk
  <2>6. ASSUME NEW q \in Requests, NEW m \in Managers, Excused(q, m)
        PROVE  Excused(q, m)'
    <3>1. q # r /\ Unconfirmed(q, m)
      BY <2>1, <2>2, <2>4, <2>6 DEF Excused
    <3>2. Unconfirmed(q, m)'
      BY <1>1, <1>3, <2>1, <3>1, ExcuseKept DEF Untouched
    <3> QED
      BY <3>2 DEF Excused
  <2>7. LateExcused'
    BY <1>1, <2>6 DEF LagInv, LateExcused, IInv, Types
  <2>8. \A q \in Requests : rpc[q] # "switch"
    BY <2>1, <2>4
  <2>9. \A m \in Managers : LagOk(m)'
    BY <1>1, <2>1, <2>6, <2>8 DEF LagInv, LagOk, ActiveOf
  <2> QED
    BY <2>5, <2>7, <2>9 DEF LagInv
<1> QED
  BY <1>4, <1>5

\* A write that arrives late and is accepted is excused already.
LEMMA LateLags ==
  ASSUME OneProcess, IInv, LagInv, Alone', FaultsSeen', NEW r \in Requests,
         LateArrives(r) \/ LateVanishes(r)
  PROVE  LagInv'
<1>1. /\ r \in late /\ late' = late \ {r}
      /\ UNCHANGED <<up, active, ready, rpc, req, target, answer, faults>>
  BY DEF LateArrives, LateVanishes
<1>2. \A q \in Requests, m \in Managers : Excused(q, m)' <=> Excused(q, m)
  BY <1>1 DEF Excused, Unconfirmed
<1>3. CASE UNCHANGED <<doc, rev, log>>
  <2>1. \A q \in Requests : OrderOk(q)'
    BY <1>1, <1>3 DEF LagInv, OrderOk, ActiveOf
  <2>2. LateExcused'
    BY <1>1, <1>2, <1>3 DEF LagInv, LateExcused, IInv, Types
  <2>3. \A m \in Managers : LagOk(m)'
    BY <1>1, <1>2, <1>3 DEF LagInv, LagOk, ActiveOf
  <2> QED
    BY <2>1, <2>2, <2>3 DEF LagInv
<1>4. CASE Grown(r)
  <2>1. /\ req[r].base = rev /\ rev' = rev + 1 /\ rev \in Nat
        /\ log'[rev'] = Entry(r)
    BY <1>4, GrownKeeps DEF Grown, IInv, StoreInv
  <2>2. \A q \in late : q \in Requests /\ req[q].base \in 1..rev
    BY DEF IInv, Types, RequestInv, RequestOk, Planned
  <2>3. \A q \in Requests : rpc[q] # "switch"
    BY <1>1, <2>1 DEF LagInv, OrderOk
  <2>4. \A q \in Requests : OrderOk(q)'
    BY <1>1, <2>3 DEF LagInv, OrderOk
  <2>5. LateExcused'
    BY <1>1, <2>1, <2>2 DEF LateExcused
  <2>6. \A m \in Managers : Excused(r, m)
    BY <1>1, <2>1 DEF LagInv, LateExcused
  <2>7. Entry(r).by = r
    BY DEF Entry
  <2>8. \A m \in Managers : LagOk(m)'
    BY <1>2, <2>1, <2>6, <2>7 DEF LagOk
  <2> QED
    BY <2>4, <2>5, <2>8 DEF LagInv
<1> QED
  BY <1>1, <1>3, <1>4, WriteGrows DEF LateArrives, LateVanishes

LEMMA CrashLags ==
  ASSUME OneProcess, IInv, LagInv, Alone', FaultsSeen', NEW m \in Managers, Crash(m)
  PROVE  LagInv'
<1> USE DEF Crash
<1>1. /\ UNCHANGED <<doc, rev, log, ready, req>>
      /\ faults' = faults + 1 /\ faults \in Nat
  BY DEF IInv, Types
<1>2. \A n \in Managers : ~ up'[n]
  BY DEF OneProcess, IInv, Types
<1>3. \A q \in InFlight : home[q] = m
  BY DEF OneProcess, IInv, RequestInv, RequestOk, InFlight
<1>4. ASSUME NEW q \in Requests
      PROVE  \/ q \in InFlight /\ rpc'[q] = "done" /\ answer'[q] = "lost"
             \/ q \notin InFlight /\ rpc'[q] = rpc[q] /\ answer'[q] = answer[q]
  BY <1>3
<1>5. late' \subseteq late \cup InFlight /\ late' \subseteq Requests
  BY DEF IInv, Types, InFlight
<1>6. \A q \in Requests : rpc'[q] \in {"new", "done"}
  BY <1>4 DEF InFlight
<1>7. \A q \in Requests : OrderOk(q)'
  BY <1>6 DEF OrderOk
<1>8. LateExcused'
  <2> SUFFICES ASSUME NEW q \in late', req[q].base = rev, NEW n \in Managers
               PROVE  Unconfirmed(q, n)'
    BY <1>1 DEF LateExcused, Excused
  <2>1. CASE q \in InFlight
    BY <1>4, <1>5, <2>1 DEF Unconfirmed
  <2>2. CASE q \notin InFlight
    <3>1. q \in Requests /\ Excused(q, n) /\ rpc[q] # "reconcile"
      BY <1>5, <2>2 DEF LagInv, LateExcused, InFlight
    <3>2. answer'[q] = answer[q]
      BY <1>4, <2>2, <3>1
    <3> QED
      BY <1>1, <3>1, <3>2, ExcuseKept DEF Excused
  <2> QED
    BY <2>1, <2>2
<1>9. \A n \in Managers : LagOk(n)'
  BY <1>2 DEF LagOk
<1> QED
  BY <1>7, <1>8, <1>9 DEF LagInv

LEMMA StartLags ==
  ASSUME OneProcess, IInv, LagInv, Alone', FaultsSeen', NEW m \in Managers, Start(m)
  PROVE  LagInv'
<1> USE DEF Start
<1>1. UNCHANGED <<doc, rev, log, late, rpc, home, req, target, answer, faults>>
  OBVIOUS
<1>2. \A n \in Managers : n = m /\ ~ up[n] /\ active'[n] = ActiveOf(doc)
  BY DEF OneProcess, IInv, Types
<1>3. \A q \in Requests : rpc[q] # "reconcile"
  BY <1>2 DEF LagInv, Alone, InFlight, IInv, RequestInv, RequestOk
<1>4. \A q \in Requests : OrderOk(q)'
  BY <1>1 DEF LagInv, OrderOk, ActiveOf
<1>5. LateExcused'
  <2> SUFFICES ASSUME NEW q \in late, req[q].base = rev, NEW n \in Managers
               PROVE  Unconfirmed(q, n)'
    BY <1>1 DEF LateExcused, Excused
  <2>1. q \in Requests /\ Unconfirmed(q, n)
    BY <1>3 DEF LagInv, LateExcused, Excused, IInv, Types
  <2>2. answer[q] = "unknown" => faults >= 3
    BY <1>2, <2>1 DEF LagInv, FaultsSeen
  <2> QED
    BY <1>1, <2>1, <2>2 DEF Unconfirmed
<1>6. \A n \in Managers : LagOk(n)'
  BY <1>1, <1>2 DEF LagOk, ActiveOf
<1> QED
  BY <1>4, <1>5, <1>6 DEF LagInv

LEMMA SubmitLags ==
  ASSUME OneAtATime, OneProcess, IInv, LagInv, Alone', FaultsSeen',
         NEW r \in Requests, NEW m \in Managers, NEW base, NEW p, NEW from,
         SubmitPublish(r, m, base, p) \/ SubmitRollback(r, m, base, from)
  PROVE  LagInv'
<1>1. /\ InFlight = {}
      /\ rpc[r] = "new" /\ rpc'[r] \in {"find", "load"}
      /\ \A q \in Requests \ {r} : Untouched(q)
      /\ UNCHANGED <<doc, rev, log, late, up, active, ready, faults>>
  BY SubmitsAlone DEF LagInv
<1>2. r \notin late /\ r \notin Authors
  BY <1>1 DEF IInv, AuthorInv, AuthorOk
<1>3. \A q \in Requests \ {r} : rpc'[q] \in {"new", "done"}
  BY <1>1 DEF InFlight, Untouched
<1>4. \A q \in Requests : OrderOk(q)'
  BY <1>1, <1>3 DEF OrderOk
<1>5. \A q \in Requests \ {r}, n \in Managers : Excused(q, n) => Excused(q, n)'
  BY <1>1 DEF Excused, Unconfirmed, Untouched
<1>6. LateExcused'
  BY <1>1, <1>2, <1>5 DEF LagInv, LateExcused, Untouched, IInv, Types
<1>7. \A q \in Requests : rpc[q] # "switch"
  BY <1>1 DEF InFlight
<1>8. \A a \in Requests : a = log[rev].by => a # r
  BY <1>2, AuthorsAre DEF IInv, StoreInv
<1>9. \A n \in Managers : LagOk(n)'
  BY <1>1, <1>5, <1>7, <1>8 DEF LagInv, LagOk, ActiveOf
<1> QED
  BY <1>4, <1>6, <1>9 DEF LagInv

LEMMA LagInit == Init => LagInv
<1> SUFFICES ASSUME Init PROVE LagInv
  OBVIOUS
<1> QED
  BY DEF Init, LagInv, Alone, InFlight, FaultsSeen, OrderOk, LateExcused, LagOk

LEMMA LagKept ==
  ASSUME OneAtATime, OneProcess, IInv, EntryInv, LagInv, [Next]_vars
  PROVE  LagInv'
<1>0. Alone' /\ FaultsSeen'
  BY AloneKept, FaultsSeenKept DEF LagInv
<1>1. ASSUME NEW r \in Requests, NEW m \in Managers, NEW base, NEW p, NEW from,
             SubmitPublish(r, m, base, p) \/ SubmitRollback(r, m, base, from)
      PROVE  LagInv'
  BY <1>0, <1>1, SubmitLags
<1>2. ASSUME NEW r \in Requests, Proceeds(r)
      PROVE  LagInv'
  BY <1>0, <1>2, LoadLags, PutAnsweredLags, PutUnknownLags, ReconcileLags, ActivateLags
     DEF Proceeds
<1>3. ASSUME NEW r \in Requests, LateArrives(r) \/ LateVanishes(r)
      PROVE  LagInv'
  BY <1>0, <1>3, LateLags
<1>4. ASSUME NEW m \in Managers, Crash(m) \/ Start(m)
      PROVE  LagInv'
  BY <1>0, <1>4, CrashLags, StartLags
<1>5. CASE UNCHANGED vars
  BY <1>0, <1>5 DEF vars, LagInv, OrderOk, LateExcused, LagOk, Excused, Unconfirmed, ActiveOf
<1> QED
  BY <1>1, <1>2, <1>3, <1>4, <1>5, StepIsOf

\* When one process handles one request at a time, then whatever fails or
\* crashes, however often, and whenever a write arrives that was given up:
\* between requests the process serves the stored version, or that version is
\* one its author was never told is published (policy_manager.py:8-9, 312-341).
THEOREM LagsOnlyUnconfirmedAlways ==
  ASSUME OneAtATime, OneProcess
  PROVE  Spec => []LagsOnlyUnconfirmed
<1>1. IInv /\ EntryInv /\ LagInv /\ [Next]_vars => LagInv'
  BY LagKept
<1>2. IInv /\ LagInv => LagsOnlyUnconfirmed
  <2> SUFFICES ASSUME IInv, LagInv, InFlight = {}, NEW m \in Managers,
                      up[m], active[m] # ActiveOf(doc)
               PROVE  \E r \in Requests : r = log[Len(log)].by /\ Unconfirmed(r, m)
    BY DEF LagsOnlyUnconfirmed
  <2>1. \A r \in Requests : rpc[r] \notin {"switch", "reconcile"}
    BY DEF InFlight
  <2>2. rev = Len(log)
    BY DEF IInv, StoreInv
  <2> QED
    BY <2>1, <2>2 DEF LagInv, LagOk, Excused
<1> QED
  BY <1>1, <1>2, LagInit, AlwaysEntries, PTL DEF Spec

=============================================================================
