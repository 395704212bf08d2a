SPECIFICATION FairSpec
CONSTANTS
  Requests = {1, 2, 3, 4, 5}
  Kind <- PageKinds
  PostBody <- NoBodies
  FetchPermits = 1
  PostPermits = 1
  EssentialCap = 0
  MaxBytes = 1
  PostMaxBytes = 0
  BodySizes = {0, 1}
  Failures = {"refused", "cut", "truncated"}
PROPERTIES
  FetchSlotsImplemented
  EveryRequestAnswered
