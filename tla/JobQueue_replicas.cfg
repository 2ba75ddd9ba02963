SPECIFICATION Spec
CONSTANTS
  Keys = {k1, k2}
  Jobs = {j1, j2, j3}
  Handlers = {h1}
  Workers = {w1, w2}
  Executors = {e1, e2}
  MaxRetries = 1
  LeaseCoversJob = TRUE
  FaultKinds = {"request", "sigterm"}
  MaxFaults = 1
  Owner <- MCOwner
  NoJob = NoJob
  NoKey = NoKey
SYMMETRY Symmetry
INVARIANT OneLiveExecution
INVARIANT OneJobPerKey
PROPERTY FinalIsFinal
