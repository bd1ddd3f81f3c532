\* The retry the operator API offers for a quarantined artifact.
SPECIFICATION FairSpec
CONSTANTS
  Workers = {w1}
  Versions = {v1}
  Torn = Torn
  Mangled = Mangled
  None = None
  HashPolicy = "sha256"
  HasValidator = FALSE
  Accepted = {v1}
  CopyBudget = 2
  StallBudget = 2
  Verbs = {"retry-quarantined"}
  FaultKinds = {"call"}
  MaxFaults = 1
  MaxOps = 1
PROPERTIES
  Settles
