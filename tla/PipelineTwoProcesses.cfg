\* Two processes over one journal.
SPECIFICATION Spec
CONSTANTS
  Workers = {w1, w2}
  Versions = {v1, v2}
  Torn = Torn
  Mangled = Mangled
  None = None
  HashPolicy = "sha256"
  HasValidator = FALSE
  Accepted = {v1, v2}
  CopyBudget = 2
  StallBudget = 2
  Verbs = {"retry-quarantined", "release-quarantined", "retry-failed", "reinstate", "validate", "release-retained", "read-only"}
  FaultKinds = {"call", "crash", "power", "producer"}
  MaxFaults = 1
  MaxOps = 1
SYMMETRY Symmetry
INVARIANTS
  NoLoss
