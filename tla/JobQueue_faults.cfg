SPECIFICATION Spec
CONSTANTS
  Keys = {k1, k2}
  Jobs = {j1, j2}
  Handlers = {h1}
  Workers = {w1}
  Executors = {e1, e2}
  MaxRetries = 1
  LeaseCoversJob = TRUE
  FaultKinds = {"request", "crash", "sigterm", "redis"}
  MaxFaults = 2
  Owner <- MCOwner
  NoJob = NoJob
  NoKey = NoKey
SYMMETRY PoolSymmetry
INVARIANT TypeOK
INVARIANT OneLiveExecution
INVARIANT WaitingJobsAreUnowned
PROPERTY StrandedOnlyInWindow
