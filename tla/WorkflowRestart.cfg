\* One run and a process that dies once.
SPECIFICATION Spec
CONSTANTS
  home = home
  Runs = {1}
  Sets = {home}
  SetOf <- OneRun
  Hooks = {1, 2, 3, 4}
  Stage <- FourHooks
  Bypassing = TRUE
  FaultKinds = {"crash"}
  MaxFaults = 1
  MaxResumes = 0
  MaxAsked = 1
CHECK_DEADLOCK FALSE
INVARIANTS
  NoThirdCase
