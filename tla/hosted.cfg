SPECIFICATION FairSpec
CONSTANTS
  Processes = {p1, p2}
  Environments <- MCEnvironments
  Disks <- MCDisks
  CreatedMode = "open"
  MaxBoots = 3
INVARIANTS
  CutoverOnce
  ResourcesOwned
  BrowserApart
PROPERTIES
  UntrustedUntouched
  EveryBootEnds
CHECK_DEADLOCK FALSE
