\* One engine, with damage to the copies.
SPECIFICATION Spec
CONSTANTS
  here = here
  store = store
  vault = vault
  Engines = {e1}
  Mediums = {here, store, vault}
  Local = here
  Want <- ThreeWant
  MaxCopies = 2
  MaxMoves = 2
  FaultKinds = {"call", "crash", "miscopy", "damage"}
  MaxFaults = 2
  MaxChanges = 3
CHECK_DEADLOCK FALSE
INVARIANTS
  TypeOK
  AlwaysActive
  OneLiveMove
PROPERTIES
  NeverRemovesListed
  DeletesAgainstGood
