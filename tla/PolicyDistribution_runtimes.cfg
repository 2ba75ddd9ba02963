SPECIFICATION FairSpec
CONSTANTS
  Managers = {a1}
  Policies = {pa, pb}
  Baseline = pa
  Gateways = {g1}
  Workers = {w1}
  Default = pb
  Requests = {r1}
  Keys = {words}
  Providers = 2
  MaxVersions = 2
  MaxRestarts = 1
INVARIANTS TypeOK SnapshotsAreGenuine RoutedUnderItsVersion AnswersTheQuestion
PROPERTIES NotModifiedIsCurrent Converges
