SPECIFICATION RouterFairSpec
CONSTANTS
  Transforms = {1, 2}
  Inputs <- MCInputs
  Candidates <- MCCandidates
  DefaultCap = 1
  MAX_TRANSFORM_ATTEMPTS = 1
  HEALTH_WINDOW = 3
  FAIL_THRESHOLD = 2
  RECOVER_SUCCESSES = 2
  Histories <- MCHistories
  MaxCalls = 2
INVARIANTS
  RequestsAllowed
  BestReturned
PROPERTIES
  DemotionEarned
  LoopEnds
CHECK_DEADLOCK FALSE
