\* Three artifacts, a medium, another process at the journal.
SPECIFICATION Spec
CONSTANTS
  local = local
  nas = nas
  Artifacts = {1, 2, 3}
  Horizon = 2
  DayOf <- WholeDays
  FirstDays <- DaysAndPairs
  Policies <- TwoPolicies
  Mediums = {local, nas}
  Local = local
  ProducerTimes <- Stamps
  TTL = 1
  MaxPlans = 1
  Elsewhere = TRUE
  MaxEvents = 1
CHECK_DEADLOCK FALSE
INVARIANTS
  TypeOK
  KeepsPromised
PROPERTIES
  RemovesOnlyAsReviewed
