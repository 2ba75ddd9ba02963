----------------------------- MODULE MCJobQueue -----------------------------
(* Instances of JobQueue for TLC. *)
EXTENDS JobQueue, TLC

\* Every worker gets a pool thread; with one worker, it gets all of them.
MCOwner == CHOOSE f \in [Executors -> Workers] : \A w \in Workers : \E e \in Executors : f[e] = w

\* Job ids and requests are interchangeable.
Symmetry == Permutations(Jobs) \cup Permutations(Handlers)

\* With a single worker its pool threads are interchangeable too.
PoolSymmetry == Symmetry \cup Permutations(Executors)

=============================================================================
