SPECIFICATION Spec
CONSTANTS
  p1 = p1
  p2 = p2
  r1 = r1
  r2 = r2
  r3 = r3
  m1 = m1
  m2 = m2
  NoRequest = NoRequest
  NoManager = NoManager
  Baseline = p1
  Policies <- TwoPolicies
  Requests <- TwoRequests
  Managers <- OneManager
  MaxVersions = 2
  Concurrency = 2
  FaultKinds = {}
  MaxFaults = 0
INVARIANT ActiveInSync
CHECK_DEADLOCK FALSE
