SPECIFICATION FairSpec
CONSTANTS
  outside = outside
  house = house
  r1 = r1
  r2 = r2
  NoProvider = NoProvider
  Requests = {r1, r2}
  Automatic = {r1}
  Streaming = {r1}
  Providers = {outside, house}
  Capabilities = {"tools"}
  Catalog <- MCCatalog
  Asks <- Mixed
  Reliable = {house}
  MaxRetries = 1
  FailureThreshold = 2
INVARIANTS TypeOK BreakersConsistent
PROPERTIES BlamedForAReason SlotsAreReturned ImplementsFailover AllAnswered Recovers
