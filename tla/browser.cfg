SPECIFICATION FairSpec
CONSTANTS
  Renders = {1, 2, 3, 4}
  MaxRenders = 2
  Attempts = {"first", "second"}
  NoAttempt = none
  Repeaters = {4}
INVARIANTS
  BrowserUsable
PROPERTIES
  EveryRenderEnds
