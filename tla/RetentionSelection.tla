---- MODULE RetentionSelection ----
(***************************************************************************)
(* What retention keeps: grandfather-father-son tiers and the last known   *)
(* good (core/internal/retention: gfs.go, gfs_chain.go, bucketkey.go,      *)
(* lastknowngood.go).                                                      *)
(*                                                                         *)
(* Time is a bounded run of instants, and each falls on a civil day of the *)
(* backup set's timezone.  A granularity is known by the first days of its *)
(* units: all days, the Mondays, the firsts of months, every n-th day from *)
(* the epoch.  That says which days share a bucket and how far back a      *)
(* window of so many units reaches, and nothing here asks more of the      *)
(* calendar.                                                               *)
(*                                                                         *)
(* A policy is [tiers, protect]; a tier is [granularity, unit, keep], its  *)
(* buckets, the unit its window is counted in and how many of them.        *)
(***************************************************************************)
EXTENDS Integers, FiniteSets

CONSTANTS
  Artifacts,     \* the artifacts of one backup set, named by numbers: names are compared
  Horizon,       \* the last instant
  DayOf,         \* the civil day each instant falls on
  FirstDays,     \* for each granularity, the days its units begin on
  Policies       \* the retention settings an operator may have configured

Instants == 0..Horizon
NoTime == -1
Granularities == DOMAIN FirstDays
Tiers == [granularity : Granularities, unit : Granularities, keep : Nat]

ASSUME NamesAssumption == Artifacts \subseteq Nat
ASSUME HorizonAssumption == Horizon \in Nat
\* The civil date does not go back.
ASSUME DayAssumption ==
  /\ DayOf \in [Instants -> Nat]
  /\ \A s, t \in Instants : s <= t => DayOf[s] <= DayOf[t]
ASSUME CalendarAssumption ==
  \A g \in Granularities : FirstDays[g] \subseteq Nat /\ IsFiniteSet(FirstDays[g])
\* A chain in which no tier keeps anything is refused before anything is decided.
ASSUME PolicyAssumption ==
  \A p \in Policies :
    /\ p = [tiers |-> p.tiers, protect |-> p.protect]
    /\ p.tiers \subseteq Tiers
    /\ p.protect \in BOOLEAN
    /\ \E t \in p.tiers : t.keep > 0

----------------------------------------------------------------------------
(* Candidates.  records gives each artifact its journal row; only managed   *)
(* ones are restore points.                                                 *)

Eligible(records) == {a \in Artifacts : records[a].state = "managed"}

\* The two dates an artifact is placed by.  The producer's own timestamp counts
\* unless it is missing or later than the discovery it must have preceded.
\* Mutated: whatever the remote reports counts.
OccurredAsReported(row, by) == IF by = "discovery" THEN row.discovered ELSE row.producer

Occurred(row, by) ==
  IF by = "discovery" THEN row.discovered
  ELSE IF row.producer <= row.discovered THEN row.producer ELSE NoTime

----------------------------------------------------------------------------
(* A tier on a day.                                                         *)

SameBucket(g, d, e) ==
  {f \in FirstDays[g] : f <= d} = {f \in FirstDays[g] : f <= e}

\* From today's unit keep - 1 units back: fewer than keep units begin after d.
UnitsSince(unit, d, today) == {f \in FirstDays[unit] : d < f /\ f <= today}

InSpan(tier, d, today) ==
  d <= today /\ Cardinality(UnitsSince(tier.unit, d, today)) < tier.keep

Placed(records, tier, by, today) ==
  {a \in Eligible(records) :
     /\ Occurred(records[a], by) # NoTime
     /\ InSpan(tier, DayOf[Occurred(records[a], by)], today)}

\* Newest first; of two at one instant, the later name.
IsNewer(records, by, a, b) ==
  LET s == Occurred(records[a], by)
      t == Occurred(records[b], by)
  IN s > t \/ (s = t /\ a > b)

Representatives(records, tier, by, today) ==
  {a \in Placed(records, tier, by, today) :
     \A b \in Placed(records, tier, by, today) :
       SameBucket(tier.granularity, DayOf[Occurred(records[a], by)],
                  DayOf[Occurred(records[b], by)])
         => a = b \/ IsNewer(records, by, a, b)}

GFSDecide(records, policy, today) ==
  UNION {Representatives(records, tier, by, today) :
           tier \in policy.tiers, by \in {"discovery", "producer"}}

----------------------------------------------------------------------------
(* The last known good: the newest restore point, whatever its age.         *)

RetentionInstant(row) ==
  IF Occurred(row, "producer") # NoTime THEN Occurred(row, "producer") ELSE row.discovered

IsNewerRestorePoint(records, a, b) ==
  LET s == RetentionInstant(records[a])
      t == RetentionInstant(records[b])
  IN \/ s > t
     \/ s = t /\ records[a].discovered > records[b].discovered
     \/ s = t /\ records[a].discovered = records[b].discovered /\ a > b

\* One artifact or none.
LastKnownGood(records, policy) ==
  {a \in Eligible(records) :
     /\ policy.protect
     /\ \A b \in Eligible(records) : a = b \/ IsNewerRestorePoint(records, a, b)}

DecideKeep(records, policy, today) ==
  GFSDecide(records, policy, today) \cup LastKnownGood(records, policy)

====
