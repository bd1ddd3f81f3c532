\* One process running cycles, retention beside it, and an operator.
SPECIFICATION FairSpec
CONSTANTS
  MaxRuns = 2
  Foreign <- OneForeign
  NoId = NoId
  Cycles = {c1}
  Protect = TRUE
  FaultKinds = {"call", "crash", "lose", "put"}
  MaxFaults = 2
  MaxHolds = 1
INVARIANTS
  TypeOK
PROPERTIES
  KeepsPromise
  RunsResolve
  RestorePointReturns
  RemovalsRecorded
