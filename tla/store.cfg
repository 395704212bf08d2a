SPECIFICATION FairSpec
CONSTANTS
  UserIds = {u1}
  MachineIds = {m1, m2}
  Provisioned = {m1}
  Redirects = {home}
  MaxStored = 2
  MaxInteractive = 1
  MaxActiveMachine = 1
  Retention = 0
  NoRow = NoRow
  Commands = {p1, p2}
  MaxNow = 1
  MaxRestarts = 1
INVARIANTS
  StoreBounded
  AuditTellsState
  ExitTruthful
PROPERTIES
  CompensationExact
  CommandEnds
