SPECIFICATION Spec
CONSTANTS
  Keys = {k1}
  Jobs = {j1, j2}
  Handlers = {h1, h2}
  Workers = {w1}
  Executors = {e1}
  MaxRetries = 1
  LeaseCoversJob = TRUE
  FaultKinds = {}
  MaxFaults = 0
  Owner <- MCOwner
  NoJob = NoJob
  NoKey = NoKey
INVARIANT OneJobPerKey
