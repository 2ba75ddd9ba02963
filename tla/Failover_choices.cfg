SPECIFICATION Spec
CONSTANTS
  p1 = p1
  p2 = p2
  p3 = p3
  NoProvider = NoProvider
  Providers <- MCProviders
  Capabilities = {"tools"}
  Catalogs <- MCCatalogs
  Requests <- MCRequests
  Policies <- MCPolicies
INVARIANTS TypeOK Guardrails RelaxesOnlyWhenItMust Decides FailoverIsStable PayingMoreHelps
