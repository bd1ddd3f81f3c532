\* One engine under fairness, and nobody outside touches the copies.
SPECIFICATION FairSpec
CONSTANTS
  here = here
  store = store
  vault = vault
  Engines = {e1}
  Mediums = {here, store, vault}
  Local = here
  Want <- ThreeWant
  MaxCopies = 2
  MaxMoves = 3
  FaultKinds = {"call", "crash", "miscopy"}
  MaxFaults = 3
  MaxChanges = 2
CHECK_DEADLOCK FALSE
PROPERTIES
  KeepsSafe
  MovesConclude
