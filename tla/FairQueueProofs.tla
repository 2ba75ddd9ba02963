--------------------------- MODULE FairQueueProofs ---------------------------
(***************************************************************************)
(* FairQueue, for any number of jobs, any scores and any policies: claims  *)
(* keep the order of arrival among equals, and there is always one choice. *)
(***************************************************************************)
EXTENDS FairQueue, FiniteSetTheorems, WellFoundedInduction, TLAPS

-----------------------------------------------------------------------------
(* Waiting longer never earns less, whatever the parameters. *)

LEMMA TimesMonotone ==
  ASSUME NEW n \in Nat, NEW a \in Int, NEW b \in Int, a <= b
  PROVE  n * a <= n * b
  BY SMT

LEMMA DivMonotone ==
  ASSUME NEW n \in Nat \ {0}, NEW a \in Nat, NEW b \in Nat, a <= b
  PROVE  /\ a \div n \in Nat
         /\ b \div n \in Nat
         /\ a \div n <= b \div n
  BY SMT

LEMMA BonusMonotone ==
  ASSUME NEW p \in QueuePolicy, NEW a \in Nat, NEW b \in Nat, a <= b
  PROVE  /\ WaitingBonus(a, p) \in Int
         /\ WaitingBonus(b, p) \in Int
         /\ WaitingBonus(a, p) <= WaitingBonus(b, p)
<1>1. p.interval \in Nat \ {0} /\ p.points \in Nat /\ p.cap \in Nat
  BY DEF QueuePolicy
<1>. DEFINE m == a \div p.interval
            n == b \div p.interval
<1>2. m \in Nat /\ n \in Nat /\ m <= n
  BY <1>1, DivMonotone
<1>. HIDE DEF m, n
<1>3. p.points * m \in Int /\ p.points * n \in Int /\ p.points * m <= p.points * n
  BY <1>1, <1>2, TimesMonotone
<1>4. /\ WaitingBonus(a, p) = IF p.points * m < p.cap THEN p.points * m ELSE p.cap
      /\ WaitingBonus(b, p) = IF p.points * n < p.cap THEN p.points * n ELSE p.cap
  BY DEF WaitingBonus, m, n
<1>. QED  BY <1>1, <1>3, <1>4

-----------------------------------------------------------------------------
(* Types *)

LEMMA NoMatterIsKind == NoMatter \in Kinds
  BY FairQueueAssumption DEF NoMatter

LEMMA GoneTypes ==
  ASSUME TypeOK, NEW j \in Jobs, Gone(j)
  PROVE  /\ status' \in [Jobs -> {"none", "queued", "running"}]
         /\ kind' \in [Jobs -> Kinds]
         /\ waited' \in [Jobs -> 0..Horizon]
         /\ before' \in SUBSET (Jobs \X Jobs)
<1>1. 0 \in 0..Horizon
  BY FairQueueAssumption
<1>. QED  BY <1>1, NoMatterIsKind DEF TypeOK, Gone

LEMMA TypeStep == TypeOK /\ [Next]_vars => TypeOK'
<1>. SUFFICES ASSUME TypeOK, [Next]_vars
              PROVE  TypeOK'
  OBVIOUS
<1>0. Horizon \in Nat /\ Quantum \in Nat /\ MaxStreak \in Nat
  BY FairQueueAssumption
<1>1. ASSUME NEW j \in Jobs, NEW k \in Kinds, Enqueue(j, k)
      PROVE  TypeOK'
  BY <1>1 DEF TypeOK, Enqueue, Unfinished
<1>2. ASSUME NEW j \in Jobs, Claim(j)
      PROVE  TypeOK'
  <2>1. streak' \in 0..MaxStreak
    BY <1>0, <1>2 DEF TypeOK, Claim
  <2>. QED  BY <1>2, <2>1 DEF TypeOK, Claim
<1>3. ASSUME NEW j \in Jobs, ClaimLost(j)
      PROVE  TypeOK'
  BY <1>3, GoneTypes DEF TypeOK, ClaimLost
<1>4. ASSUME NEW j \in Jobs, Finish(j)
      PROVE  TypeOK'
  BY <1>4, GoneTypes DEF TypeOK, Finish
<1>5. ASSUME NEW j \in Jobs, Requeue(j)
      PROVE  TypeOK'
  BY <1>5 DEF TypeOK, Requeue
<1>6. CASE Tick
  <2>1. waited' \in [Jobs -> 0..Horizon]
    BY <1>0, <1>6 DEF TypeOK, Tick
  <2>. QED  BY <1>6, <2>1 DEF TypeOK, Tick
<1>7. ASSUME NEW p \in Policies, Reload(p)
      PROVE  TypeOK'
  BY <1>7 DEF TypeOK, Reload
<1>8. CASE UNCHANGED vars
  BY <1>8 DEF TypeOK, vars
<1>. QED  BY <1>1, <1>2, <1>3, <1>4, <1>5, <1>6, <1>7, <1>8 DEF Next

LEMMA TypeInit == Init => TypeOK
  BY FairQueueAssumption, NoMatterIsKind DEF Init, TypeOK

\* Every variable keeps its type, however many jobs and policies there are.
THEOREM TypeCorrect == Spec => []TypeOK
  BY TypeInit, TypeStep, PTL DEF Spec

-----------------------------------------------------------------------------
(* Order *)

\* Who came first has waited at least as long, and who is not there has not
\* waited: what makes "oldest" and "highest priority" agree.
AgesAgree ==
  \A i, j \in Jobs : <<i, j>> \in before =>
    /\ status[i] # "none"
    /\ status[j] # "none"
    /\ waited[i] >= waited[j]

VacantIsNew == \A j \in Jobs : status[j] = "none" => waited[j] = 0

Order == TypeOK /\ AgesAgree /\ VacantIsNew

LEMMA OrderGone ==
  ASSUME Order, NEW j \in Jobs, Gone(j)
  PROVE  AgesAgree' /\ VacantIsNew'
  BY DEF Order, AgesAgree, VacantIsNew, Gone, TypeOK

LEMMA OrderStep == Order /\ [Next]_vars => Order'
<1>. SUFFICES ASSUME Order, [Next]_vars
              PROVE  AgesAgree' /\ VacantIsNew'
  BY TypeStep DEF Order
<1>. USE DEF Order
<1>0. Horizon \in Nat /\ Quantum \in Nat
  BY FairQueueAssumption
<1>1. ASSUME NEW j \in Jobs, NEW k \in Kinds, Enqueue(j, k)
      PROVE  AgesAgree' /\ VacantIsNew'
  <2>1. VacantIsNew'
    BY <1>1 DEF TypeOK, VacantIsNew, Enqueue
  <2>2. ASSUME NEW h \in Jobs, NEW i \in Jobs, <<h, i>> \in before'
        PROVE  status'[h] # "none" /\ status'[i] # "none" /\ waited'[h] >= waited'[i]
    <3>1. CASE <<h, i>> \in before
      BY <1>1, <3>1 DEF TypeOK, AgesAgree, Enqueue
    <3>2. CASE h \in Unfinished /\ i = j
      <4>1. waited[i] = 0 /\ waited[h] \in 0..Horizon
        BY <1>1, <3>2 DEF TypeOK, VacantIsNew, Enqueue
      <4>. QED  BY <1>0, <1>1, <3>2, <4>1 DEF TypeOK, Enqueue, Unfinished
    <3>. QED  BY <1>1, <2>2, <3>1, <3>2 DEF Enqueue
  <2>. QED  BY <2>1, <2>2 DEF AgesAgree
<1>2. ASSUME NEW j \in Jobs, Claim(j)
      PROVE  AgesAgree' /\ VacantIsNew'
  BY <1>2 DEF TypeOK, AgesAgree, VacantIsNew, Claim
<1>3. ASSUME NEW j \in Jobs, ClaimLost(j)
      PROVE  AgesAgree' /\ VacantIsNew'
  BY <1>3, OrderGone DEF ClaimLost
<1>4. ASSUME NEW j \in Jobs, Finish(j)
      PROVE  AgesAgree' /\ VacantIsNew'
  BY <1>4, OrderGone DEF Finish
<1>5. ASSUME NEW j \in Jobs, Requeue(j)
      PROVE  AgesAgree' /\ VacantIsNew'
  BY <1>5 DEF TypeOK, AgesAgree, VacantIsNew, Requeue
<1>6. CASE Tick
  <2>1. VacantIsNew'
    BY <1>6 DEF TypeOK, VacantIsNew, Tick
  <2>2. ASSUME NEW h \in Jobs, NEW i \in Jobs, <<h, i>> \in before'
        PROVE  status'[h] # "none" /\ status'[i] # "none" /\ waited'[h] >= waited'[i]
    <3>1. status[h] # "none" /\ status[i] # "none" /\ waited[h] >= waited[i]
      BY <1>6, <2>2 DEF AgesAgree, Tick
    <3>2. waited[h] \in Nat /\ waited[i] \in Nat
      BY <1>0 DEF TypeOK
    <3>. QED  BY <1>0, <1>6, <3>1, <3>2 DEF Tick
  <2>. QED  BY <2>1, <2>2 DEF AgesAgree
<1>7. ASSUME NEW p \in Policies, Reload(p)
      PROVE  AgesAgree' /\ VacantIsNew'
  BY <1>7 DEF AgesAgree, VacantIsNew, Reload
<1>8. CASE UNCHANGED vars
  BY <1>8 DEF AgesAgree, VacantIsNew, vars
<1>. QED  BY <1>1, <1>2, <1>3, <1>4, <1>5, <1>6, <1>7, <1>8 DEF Next

LEMMA OrderInit == Init => Order
  BY TypeInit DEF Init, Order, AgesAgree, VacantIsNew

-----------------------------------------------------------------------------
(* The choice *)

\* Whoever is chosen, no older waiting job has the same class and score.
LEMMA ChosenIsFirst ==
  ASSUME Order, NEW i \in Pending, NEW j \in Chosen,
         kind[i] = kind[j], <<i, j>> \in before
  PROVE  FALSE
<1>1. i \in Jobs /\ policy \in QueuePolicy
  BY FairQueueAssumption DEF Order, TypeOK, Pending
<1>2. CASE streak >= policy.threshold /\ Starved # {}
  <2>1. j \in Starved /\ \A h \in Starved : <<h, j>> \notin before
    BY <1>2 DEF Chosen, Oldest
  <2>2. waited[i] >= waited[j] /\ waited[j] >= policy.wait
    BY <1>1, <2>1 DEF Order, AgesAgree, Starved, Pending
  <2>3. waited[i] \in Int /\ waited[j] \in Int /\ policy.wait \in Int
    BY <1>1, <2>1, FairQueueAssumption DEF Order, TypeOK, Starved, Pending, QueuePolicy
  <2>4. waited[i] >= policy.wait
    BY <2>2, <2>3
  <2>5. ~Urgent(kind[i])
    BY <2>1 DEF Starved
  <2>. QED  BY <2>1, <2>4, <2>5 DEF Starved
<1>3. CASE ~(streak >= policy.threshold /\ Starved # {})
  <2>. DEFINE highest == {h \in Pending : \A g \in Pending : Effective(g) <= Effective(h)}
  <2>1. j \in highest /\ \A h \in highest : <<h, j>> \notin before
    BY <1>3 DEF Chosen, Best, Oldest
  <2>2. j \in Jobs /\ waited[i] >= waited[j]
    BY <1>1, <2>1 DEF Order, AgesAgree, Pending
  <2>3. waited[i] \in Nat /\ waited[j] \in Nat /\ kind[j].score \in Nat
    BY <1>1, <2>2, FairQueueAssumption DEF Order, TypeOK
  <2>4. /\ WaitingBonus(waited[j], policy) \in Int
        /\ WaitingBonus(waited[i], policy) \in Int
        /\ WaitingBonus(waited[j], policy) <= WaitingBonus(waited[i], policy)
    BY <1>1, <2>2, <2>3, BonusMonotone
  <2>5. Effective(j) <= Effective(i) /\ Effective(j) \in Int /\ Effective(i) \in Int
    BY <2>3, <2>4 DEF Effective
  <2>6. \A g \in Pending : Effective(g) \in Int
    <3>1. SUFFICES ASSUME NEW g \in Pending
                   PROVE  Effective(g) \in Int
      OBVIOUS
    <3>2. waited[g] \in Nat /\ kind[g].score \in Nat
      BY FairQueueAssumption DEF Order, TypeOK, Pending
    <3>3. WaitingBonus(waited[g], policy) \in Int
      BY <1>1, <3>2, BonusMonotone
    <3>. QED  BY <3>2, <3>3 DEF Effective
  <2>7. \A g \in Pending : Effective(g) <= Effective(i)
    BY <2>1, <2>5, <2>6
  <2>8. i \in highest
    BY <2>7
  <2>. QED  BY <2>1, <2>8
<1>. QED  BY <1>2, <1>3

LEMMA FirstComeStep ==
  ASSUME Order, [Next]_vars, NEW i \in Jobs, NEW j \in Jobs,
         {i, j} \subseteq Pending, kind[i] = kind[j], <<i, j>> \in before
  PROVE  status'[j] = "queued"
<1>0. status[j] = "queued" /\ status[i] = "queued" /\ j \notin Chosen
  BY ChosenIsFirst DEF Pending
<1>. USE DEF Order, TypeOK
<1>1. ASSUME NEW h \in Jobs, NEW k \in Kinds, Enqueue(h, k)
      PROVE  status'[j] = "queued"
  BY <1>0, <1>1 DEF Enqueue
<1>2. ASSUME NEW h \in Jobs, Claim(h)
      PROVE  status'[j] = "queued"
  BY <1>0, <1>2 DEF Claim
<1>3. ASSUME NEW h \in Jobs, ClaimLost(h)
      PROVE  status'[j] = "queued"
  BY <1>0, <1>3 DEF ClaimLost, Gone
<1>4. ASSUME NEW h \in Jobs, Finish(h)
      PROVE  status'[j] = "queued"
  BY <1>0, <1>4 DEF Finish, Gone
<1>5. ASSUME NEW h \in Jobs, Requeue(h)
      PROVE  status'[j] = "queued"
  BY <1>0, <1>5 DEF Requeue
<1>6. CASE Tick
  BY <1>0, <1>6 DEF Tick
<1>7. ASSUME NEW p \in Policies, Reload(p)
      PROVE  status'[j] = "queued"
  BY <1>0, <1>7 DEF Reload
<1>8. CASE UNCHANGED vars
  BY <1>0, <1>8 DEF vars
<1>. QED  BY <1>1, <1>2, <1>3, <1>4, <1>5, <1>6, <1>7, <1>8 DEF Next

\* claim_next_job never overtakes: of two waiting jobs of one class and score
\* the older goes first, through requeues, reloads and forced choices.
THEOREM FirstComeAlways == Spec => FirstComeFirstServed
<1>1. Order /\ [Next]_vars =>
        [\A i, j \in Jobs :
           /\ {i, j} \subseteq Pending
           /\ kind[i] = kind[j]
           /\ <<i, j>> \in before
           => status'[j] = "queued"]_vars
  BY FirstComeStep
<1>. QED  BY <1>1, OrderInit, OrderStep, PTL DEF Spec, FirstComeFirstServed

-----------------------------------------------------------------------------
(* The choice is always one job *)

\* A finite set that is not empty has a first element in any strict order.
LEMMA SomeoneIsFirst ==
  ASSUME NEW S, IsFiniteSet(S), S # {}, NEW R,
         \A x, y \in S : <<x, y>> \in R => <<y, x>> \notin R,
         \A x, y, z \in S : <<x, y>> \in R /\ <<y, z>> \in R => <<x, z>> \in R
  PROVE  \E x \in S : \A y \in S : <<y, x>> \notin R
<1>. DEFINE Firsts(U) == {x \in U : \A y \in U : <<y, x>> \notin R}
            Bad == {U \in SUBSET S : U # {} /\ Firsts(U) = {}}
<1>1. SUFFICES ASSUME Bad # {} PROVE FALSE
  BY DEF Bad
<1>2. Bad \subseteq FiniteSubsetsOf(S)
  BY FS_FiniteSubsetsOfFinite
<1>3. \E U \in Bad : \A V \in Bad : <<V, U>> \notin StrictSubsetOrdering(S)
  <2>. HIDE DEF Bad
  <2>. QED  BY <1>1, <1>2, FS_StrictSubsetOrderingWellFounded, WFMin
<1>4. PICK U \in Bad : \A V \in Bad : <<V, U>> \notin StrictSubsetOrdering(S)
  BY <1>3
<1>5. PICK x : x \in U
  BY <1>4 DEF Bad
<1>6. U \ {x} \notin Bad
  <2>1. U \in SUBSET S
    BY <1>4
  <2>2. <<U \ {x}, U>> \in StrictSubsetOrdering(S)
    BY <1>5, <2>1 DEF StrictSubsetOrdering
  <2>. HIDE DEF Bad
  <2>. QED  BY <1>4, <2>2
<1>7. U \subseteq S /\ Firsts(U) = {} /\ <<x, x>> \notin R
  BY <1>4, <1>5 DEF Bad
<1>8. CASE U \ {x} = {}
  <2>1. x \in Firsts(U)
    BY <1>5, <1>7, <1>8
  <2>. QED  BY <1>7, <2>1
<1>9. CASE U \ {x} # {}
  <2>1. PICK m : m \in Firsts(U \ {x})
    BY <1>6, <1>9 DEF Bad
  <2>2. m \in U /\ \A y \in U \ {x} : <<y, m>> \notin R
    BY <2>1
  <2>3. CASE <<x, m>> \notin R
    <3>1. m \in Firsts(U)
      BY <2>2, <2>3
    <3>. QED  BY <1>7, <3>1
  <2>4. CASE <<x, m>> \in R
    <3>1. x \in Firsts(U)
      BY <1>5, <1>7, <2>2, <2>4
    <3>. QED  BY <1>7, <3>1
  <2>. QED  BY <2>3, <2>4
<1>. QED  BY <1>8, <1>9

\* The jobs that have not ended stand in one line.
Line ==
  /\ \A i, j \in Jobs : <<i, j>> \in before => status[i] # "none" /\ status[j] # "none"
  /\ \A i, j \in Jobs : <<i, j>> \in before => <<j, i>> \notin before
  /\ \A i, j, k \in Jobs : <<i, j>> \in before /\ <<j, k>> \in before => <<i, k>> \in before
  /\ \A i, j \in Unfinished : i = j \/ <<i, j>> \in before \/ <<j, i>> \in before

LEMMA LineStep ==
  ASSUME TypeOK, Line, [Next]_vars
  PROVE  Line'
<1>. USE DEF TypeOK
<1>1. ASSUME NEW j \in Jobs, Gone(j)
      PROVE  Line'
  <2>1. \A i \in Jobs : (status'[i] # "none") <=> (status[i] # "none" /\ i # j)
    BY <1>1 DEF Gone
  <2>2. \A h, i \in Jobs : <<h, i>> \in before' <=> <<h, i>> \in before /\ h # j /\ i # j
    BY <1>1 DEF Gone
  <2>. QED  BY <2>1, <2>2 DEF Line, Unfinished
<1>2. ASSUME NEW j \in Jobs, NEW k \in Kinds, Enqueue(j, k)
      PROVE  Line'
  <2>1. \A i \in Jobs : (status'[i] # "none") <=> (status[i] # "none" \/ i = j)
    BY <1>2 DEF Enqueue
  <2>2. /\ status[j] = "none"
        /\ \A h, i \in Jobs :
             <<h, i>> \in before' <=> <<h, i>> \in before \/ (status[h] # "none" /\ i = j)
    BY <1>2 DEF Enqueue, Unfinished
  <2>. QED  BY <2>1, <2>2 DEF Line, Unfinished
<1>3. ASSUME NEW j \in Jobs, Claim(j) \/ Requeue(j)
      PROVE  Line'
  <2>1. status[j] # "none"
    BY <1>3 DEF Claim, Requeue, Chosen, Oldest, Best, Starved, Pending
  <2>2. UNCHANGED before /\ \A i \in Jobs : (status'[i] # "none") <=> (status[i] # "none")
    BY <1>3, <2>1 DEF Claim, Requeue
  <2>. QED  BY <2>2 DEF Line, Unfinished
<1>4. ASSUME Tick \/ (\E p \in Policies : Reload(p)) \/ UNCHANGED vars
      PROVE  Line'
  BY <1>4 DEF Tick, Reload, vars, Line, Unfinished
<1>. QED  BY <1>1, <1>2, <1>3, <1>4 DEF Next, ClaimLost, Finish

LEMMA LineInit == Init => Line
  BY DEF Init, Line, Unfinished

\* Of any waiting jobs exactly one is the oldest.
LEMMA OneIsOldest ==
  ASSUME IsFiniteSet(Jobs), TypeOK, Line, NEW S \in SUBSET Pending, S # {}
  PROVE  \E j \in S : Oldest(S) = {j}
<1>1. S \subseteq Jobs /\ S \subseteq Unfinished
  BY DEF Pending, Unfinished
<1>2. IsFiniteSet(S)
  BY <1>1, FS_Subset
<1>3. \A x, y \in S : <<x, y>> \in before => <<y, x>> \notin before
  BY <1>1 DEF Line
<1>4. \A x, y, z \in S : <<x, y>> \in before /\ <<y, z>> \in before => <<x, z>> \in before
  BY <1>1 DEF Line
<1>5. PICK j \in S : \A y \in S : <<y, j>> \notin before
  BY <1>2, <1>3, <1>4, SomeoneIsFirst
<1>6. \A i \in S : i = j \/ <<j, i>> \in before
  BY <1>1, <1>5 DEF Line
<1>. QED  BY <1>5, <1>6 DEF Oldest

\* Some waiting job has the highest effective priority.
LEMMA SomeoneIsBest ==
  ASSUME IsFiniteSet(Jobs), TypeOK, Pending # {}
  PROVE  \E j \in Pending : \A i \in Pending : Effective(i) <= Effective(j)
<1>. DEFINE R == {q \in Pending \X Pending : Effective(q[1]) > Effective(q[2])}
<1>1. \A g \in Pending : Effective(g) \in Int
  <2>. SUFFICES ASSUME NEW g \in Pending PROVE Effective(g) \in Int
    OBVIOUS
  <2>1. waited[g] \in Nat /\ kind[g].score \in Nat /\ policy \in QueuePolicy
    BY FairQueueAssumption DEF TypeOK, Pending
  <2>2. WaitingBonus(waited[g], policy) \in Int
    BY <2>1, BonusMonotone
  <2>. QED  BY <2>1, <2>2 DEF Effective
<1>2. IsFiniteSet(Pending)
  BY FS_Subset DEF Pending
<1>3. \A x, y \in Pending : <<x, y>> \in R <=> Effective(x) > Effective(y)
  OBVIOUS
<1>. HIDE DEF R
<1>4. \A x, y \in Pending : <<x, y>> \in R => <<y, x>> \notin R
  BY <1>1, <1>3
<1>5. \A x, y, z \in Pending : <<x, y>> \in R /\ <<y, z>> \in R => <<x, z>> \in R
  BY <1>1, <1>3
<1>6. PICK j \in Pending : \A y \in Pending : <<y, j>> \notin R
  BY <1>2, <1>4, <1>5, SomeoneIsFirst
<1>7. ASSUME NEW y \in Pending PROVE Effective(y) <= Effective(j)
  <2>1. ~ (Effective(y) > Effective(j))
    BY <1>3, <1>6
  <2>2. Effective(y) \in Int /\ Effective(j) \in Int
    BY <1>1
  <2>. QED  BY <2>1, <2>2
<1>. QED  BY <1>7

\* claim_next_job (redis_store.py:190-255) never comes back empty-handed while
\* a job waits, and what it picks is determined: however many jobs wait, of
\* whatever scores and ages, exactly one may be claimed next.
OneIsChosen == Pending # {} => \E j \in Pending : Chosen = {j}

THEOREM ChoiceIsOne ==
  ASSUME IsFiniteSet(Jobs)
  PROVE  Spec => []OneIsChosen
<1>1. TypeOK /\ Line => OneIsChosen
  <2>. SUFFICES ASSUME TypeOK, Line, Pending # {}
                PROVE  \E j \in Pending : Chosen = {j}
    BY DEF OneIsChosen
  <2>1. CASE streak >= policy.threshold /\ Starved # {}
    <3>1. Starved \in SUBSET Pending
      BY DEF Starved
    <3>. QED  BY <2>1, <3>1, OneIsOldest DEF Chosen
  <2>2. CASE ~(streak >= policy.threshold /\ Starved # {})
    <3>. DEFINE highest == {j \in Pending : \A i \in Pending : Effective(i) <= Effective(j)}
    <3>1. highest \in SUBSET Pending /\ highest # {}
      BY SomeoneIsBest
    <3>2. Chosen = Oldest(highest)
      BY <2>2 DEF Chosen, Best
    <3>. HIDE DEF highest
    <3>. QED  BY <3>1, <3>2, OneIsOldest
  <2>. QED  BY <2>1, <2>2
<1>2. TypeOK /\ Line /\ [Next]_vars => Line'
  BY LineStep
<1>. QED  BY <1>1, <1>2, LineInit, TypeCorrect, PTL DEF Spec

=============================================================================
