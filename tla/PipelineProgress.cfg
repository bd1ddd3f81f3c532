\* Progress of one process under fairness; every fault but power loss; no hash to compare, and a validator that accepts one version only.
SPECIFICATION FairSpec
CONSTANTS
  Workers = {w1}
  Versions = {v1, v2}
  Torn = Torn
  Mangled = Mangled
  None = None
  HashPolicy = ""
  HasValidator = TRUE
  Accepted = {v1}
  CopyBudget = 2
  StallBudget = 2
  Verbs = {"release-quarantined", "retry-failed", "reinstate", "validate", "repair", "read-only"}
  FaultKinds = {"call", "crash", "damage", "producer"}
  MaxFaults = 3
  MaxOps = 2
INVARIANTS
  OnlyAcceptedTrusted
PROPERTIES
  Settles
  DeletionResolves
  Reclaims
