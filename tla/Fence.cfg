\* One instance with three passes.
SPECIFICATION FairSpec
CONSTANTS
  here = here
  there = there
  p1 = p1
  p2 = p2
  p3 = p3
  admin1 = admin1
  admin2 = admin2
  NoLease = NoLease
  NoFile = NoFile
  Gates = {here}
  Owners = {here}
  Clients = {p1, p2, p3}
  GateOf <- OneHome
  Deleters = {p1, p2}
  Admins = {}
  Writers <- PassAndAdmin
  MaxRevision = 2
  MaxErrors = 0
  Quick = 1
  Full = 2
  Retry = 1
  MaxTime = 2
  MaxWindows = 2
  MaxMoves = 0
  MaxCrashes = 0
INVARIANTS
  Exclusion
  NoLostGrant
  StillDue
  TypeOK
PROPERTIES
  Served
