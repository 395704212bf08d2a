SPECIFICATION Spec
CONSTANTS
  NumSeeds = 5
  Hosts = {"a", "b", "c", "d", "victim"}
  Home <- HomeDirect5
  MaxConcurrency = 3
  MaxPerHost = 1
  MaxEgress = 13
  PerSeedMaxBytes = 2
  RenderUnits = 2
  MaxCost = 0
  PerSeedCost = 0
  MaxRendered = 1
  WantTransform = FALSE
  AllowRender = TRUE
  DocBytes = {0, 2}
  RenderBytes = {0, 4}
  Costs = {0}
  EgressSets <- VictimOrNot
  MayRetry = TRUE
  MayTimeOut = FALSE
  MayThrow = FALSE
INVARIANTS
  BudgetBounded
  CallBounds
  DisclosedBreaches
PROPERTIES
  NoDispatchAfterWall
