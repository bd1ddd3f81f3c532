\* One process against every kind of fault and the verbs of internal/app.
SPECIFICATION Spec
CONSTANTS
  Workers = {w1}
  Versions = {v1, v2}
  Torn = Torn
  Mangled = Mangled
  None = None
  HashPolicy = "sha256"
  HasValidator = FALSE
  Accepted = {v1, v2}
  CopyBudget = 2
  StallBudget = 2
  Verbs = {"release-quarantined", "retry-failed", "reinstate", "validate", "repair", "read-only"}
  FaultKinds = {"call", "crash", "power", "damage", "producer"}
  MaxFaults = 3
  MaxOps = 3
SYMMETRY Symmetry
INVARIANTS
  TypeOK
  CommittedIsDurable
  CommittedIsWhatWasHashed
  CompleteMeansGone
PROPERTIES
  DeletesUnderIntent
  ReinstatedIsKept
  DistrustIsFounded
  KeepsCustody
