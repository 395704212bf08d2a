SPECIFICATION Spec
CONSTANTS
  Requests = {1, 2, 3, 4, 5, 6, 7}
  Kind <- PoolKinds
  PostBody <- PostBodies
  FetchPermits = 2
  PostPermits = 1
  EssentialCap = 1
  MaxBytes = 2
  PostMaxBytes = 1
  BodySizes = {0, 2}
  Failures = {"refused"}
INVARIANTS
  PoolBounded
  EgressAccounted
PROPERTIES
  NoFetchAfterExceeded
