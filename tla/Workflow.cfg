\* One run and all that can become of it, with two faults and two resumes.
SPECIFICATION FairSpec
CONSTANTS
  home = home
  Runs = {1}
  Sets = {home}
  SetOf <- OneRun
  Hooks = {1, 2, 3, 4}
  Stage <- FourHooks
  Bypassing = TRUE
  FaultKinds = {"call", "crash"}
  MaxFaults = 2
  MaxResumes = 2
  MaxAsked = 2
CHECK_DEADLOCK FALSE
INVARIANTS
  TypeOK
  HooksRunOnce
  CleanupIsOwed
  SuccessIsEarned
PROPERTIES
  OnlyAPersonClears
  Concludes
