\* Two instances with a pass each, and an administrator, over one directory.
SPECIFICATION Spec
CONSTANTS
  here = here
  there = there
  p1 = p1
  p2 = p2
  p3 = p3
  admin1 = admin1
  admin2 = admin2
  NoLease = NoLease
  NoFile = NoFile
  Gates = {here, there}
  Owners = {here, there}
  Clients = {p1, p3}
  GateOf <- TwoHomes
  Deleters = {}
  Admins = {admin1}
  Writers <- PassAndAdmin
  MaxRevision = 3
  MaxErrors = 1
  Quick = 1
  Full = 2
  Retry = 1
  MaxTime = 1
  MaxWindows = 2
  MaxMoves = 1
  MaxCrashes = 1
CHECK_DEADLOCK FALSE
PROPERTIES
  KeepsOneRecord
