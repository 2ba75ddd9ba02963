--------------------------- MODULE MCPolicyStore ---------------------------
(* Small instances of PolicyStore. *)
EXTENDS PolicyStore, TLC

CONSTANTS p1, p2, r1, r2, r3, m1, m2

ThreeRequests == {r1, r2, r3}
TwoRequests == {r1, r2}
TwoManagers == {m1, m2}
OneManager == {m1}
TwoPolicies == {p1, p2}

\* Requests and processes are interchangeable; these are for safety runs.
Interchangeable == Permutations(Requests) \cup Permutations(Managers)
=============================================================================
