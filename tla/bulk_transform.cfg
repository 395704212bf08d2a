SPECIFICATION FairSpec
CONSTANTS
  NumSeeds = 4
  Hosts = {"a", "b"}
  Home <- HomeApart
  MaxConcurrency = 3
  MaxPerHost = 4
  MaxEgress = 9
  PerSeedMaxBytes = 2
  RenderUnits = 2
  MaxCost = 4
  PerSeedCost = 1
  MaxRendered = 1
  WantTransform = TRUE
  AllowRender = FALSE
  DocBytes = {0, 2}
  RenderBytes = {0}
  Costs = {0, 1, 4}
  EgressSets <- NoHosts
  MayRetry = TRUE
  MayTimeOut = TRUE
  MayThrow = TRUE
INVARIANTS
  AccountsExact
PROPERTIES
  SlotPoolsImplemented
  CallReturns
