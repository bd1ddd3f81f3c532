---- MODULE RetentionProofs ----
(***************************************************************************)
(* Theorems about RetentionSelection and RetentionPrune.                   *)
(***************************************************************************)
EXTENDS RetentionPrune, FiniteSetTheorems, TLAPS

----------------------------------------------------------------------------
(* The selection.                                                           *)

\* Rows of which the managed ones were discovered by some day.
DatedBy(records, today) ==
  \A a \in Eligible(records) :
    /\ records[a].discovered \in Instants
    /\ records[a].producer \in Instants \cup {NoTime}
    /\ DayOf[records[a].discovered] <= today

\* Later rows: restore points were added, and those there were kept their dates.
Grown(old, new) ==
  \A a \in Eligible(old) :
    /\ a \in Eligible(new)
    /\ new[a].discovered = old[a].discovered
    /\ new[a].producer = old[a].producer

\* Fewer units begin in the shorter of two stretches of days.
LEMMA FewerUnits ==
  ASSUME NEW g \in Granularities, NEW c \in Nat, NEW d \in Nat, NEW s \in Nat, NEW t \in Nat,
         d <= c, s <= t
  PROVE  /\ Cardinality(UnitsSince(g, c, s)) <= Cardinality(UnitsSince(g, d, t))
         /\ Cardinality(UnitsSince(g, c, s)) \in Nat
         /\ Cardinality(UnitsSince(g, d, t)) \in Nat
<1>1. FirstDays[g] \subseteq Nat /\ IsFiniteSet(FirstDays[g])
  BY CalendarAssumption
<1>2. UnitsSince(g, d, t) \subseteq FirstDays[g]
  BY DEF UnitsSince
<1>3. UnitsSince(g, c, s) \subseteq UnitsSince(g, d, t)
  BY <1>1 DEF UnitsSince
<1>4. IsFiniteSet(UnitsSince(g, d, t))
  BY <1>1, <1>2, FS_Subset
<1>5. IsFiniteSet(UnitsSince(g, c, s))
      /\ Cardinality(UnitsSince(g, c, s)) <= Cardinality(UnitsSince(g, d, t))
  BY <1>3, <1>4, FS_Subset
<1> QED
  BY <1>4, <1>5, FS_CardinalityType

\* Both of an artifact's dates are instants no later than its discovery.
LEMMA OccurredEarly ==
  ASSUME NEW records, NEW today \in Nat, DatedBy(records, today),
         NEW a \in Eligible(records), NEW by \in {"discovery", "producer"},
         Occurred(records[a], by) # NoTime
  PROVE  /\ Occurred(records[a], by) \in Instants
         /\ DayOf[Occurred(records[a], by)] \in Nat
         /\ DayOf[Occurred(records[a], by)] <= today
<1> DEFINE o == Occurred(records[a], by)
           r == records[a].discovered
<1>1. r \in Instants /\ records[a].producer \in Instants \cup {NoTime} /\ DayOf[r] <= today
  BY DEF DatedBy
<1>2. o \in Instants /\ o <= r
  BY <1>1, HorizonAssumption DEF Occurred, Instants, NoTime
<1>3. DayOf[o] \in Nat /\ DayOf[r] \in Nat /\ DayOf[o] <= DayOf[r]
  BY <1>1, <1>2, DayAssumption
<1> QED
  BY <1>1, <1>2, <1>3

\* A representative of a bucket on a later day, among more artifacts, already was
\* one: windows only move on, and newcomers only displace.
LEMMA WasRepresentative ==
  ASSUME NEW old, NEW new, NEW d \in Nat, NEW e \in Nat, d <= e,
         DatedBy(old, d), DatedBy(new, e), Grown(old, new),
         NEW tier \in Tiers, NEW by \in {"discovery", "producer"},
         NEW a \in Eligible(old), a \in Representatives(new, tier, by, e)
  PROVE  a \in Representatives(old, tier, by, d)
<1> DEFINE o(x) == Occurred(old[x], by)
           n(x) == Occurred(new[x], by)
<1>0. tier.keep \in Nat /\ tier.unit \in Granularities
  BY DEF Tiers
<1>1. \A x \in Eligible(old) : n(x) = o(x) /\ x \in Eligible(new)
  BY DEF Grown, Occurred
<1>2. a \in Placed(new, tier, by, e)
  BY DEF Representatives
<1>3. o(a) # NoTime
  BY <1>1, <1>2 DEF Placed
<1>4. o(a) \in Instants /\ DayOf[o(a)] \in Nat /\ DayOf[o(a)] <= d
  BY <1>3, OccurredEarly
<1>5. Cardinality(UnitsSince(tier.unit, DayOf[o(a)], e)) < tier.keep
  BY <1>1, <1>2 DEF Placed, InSpan
<1>6. a \in Placed(old, tier, by, d)
  <2>1. Cardinality(UnitsSince(tier.unit, DayOf[o(a)], d)) < tier.keep
    <3> DEFINE da == DayOf[o(a)]
    <3>1. da \in Nat /\ da <= da
      BY <1>4
    <3> HIDE DEF da
    <3>2. Cardinality(UnitsSince(tier.unit, da, d)) <= Cardinality(UnitsSince(tier.unit, da, e))
          /\ Cardinality(UnitsSince(tier.unit, da, d)) \in Nat
          /\ Cardinality(UnitsSince(tier.unit, da, e)) \in Nat
      BY <1>0, <3>1, FewerUnits
    <3>3. Cardinality(UnitsSince(tier.unit, da, e)) < tier.keep
      BY <1>5 DEF da
    <3>4. Cardinality(UnitsSince(tier.unit, da, d)) < tier.keep
      BY <1>0, <3>2, <3>3
    <3> QED
      BY <3>4 DEF da
  <2> QED
    BY <1>3, <1>4, <2>1 DEF Placed, InSpan
<1>7. ASSUME NEW b \in Placed(old, tier, by, d),
             SameBucket(tier.granularity, DayOf[o(a)], DayOf[o(b)])
      PROVE  a = b \/ IsNewer(old, by, a, b)
  <2>1. b \in Eligible(old) /\ o(b) # NoTime
    BY DEF Placed
  <2>2. o(b) \in Instants /\ DayOf[o(b)] \in Nat /\ DayOf[o(b)] <= d
    BY <2>1, OccurredEarly
  <2>3. CASE b \in Placed(new, tier, by, e)
    <3>1. SameBucket(tier.granularity, DayOf[n(a)], DayOf[n(b)])
      BY <1>1, <1>7, <2>1
    <3>2. a = b \/ IsNewer(new, by, a, b)
      BY <2>3, <3>1 DEF Representatives
    <3> QED
      BY <1>1, <2>1, <3>2 DEF IsNewer
  <2>4. CASE b \notin Placed(new, tier, by, e)
    <3>1. ~ (Cardinality(UnitsSince(tier.unit, DayOf[o(b)], e)) < tier.keep)
      BY <1>1, <2>1, <2>2, <2>4 DEF Placed, InSpan
    <3>2. ASSUME o(a) <= o(b)
          PROVE  FALSE
      <4>1. DayOf[o(a)] <= DayOf[o(b)]
        BY <1>4, <2>2, <3>2, DayAssumption
      <4>2. Cardinality(UnitsSince(tier.unit, DayOf[o(b)], e))
              <= Cardinality(UnitsSince(tier.unit, DayOf[o(a)], e))
            /\ Cardinality(UnitsSince(tier.unit, DayOf[o(b)], e)) \in Nat
            /\ Cardinality(UnitsSince(tier.unit, DayOf[o(a)], e)) \in Nat
        <5> DEFINE da == DayOf[o(a)]
                   db == DayOf[o(b)]
        <5>1. da \in Nat /\ db \in Nat /\ da <= db /\ e <= e
          BY <1>4, <2>2, <4>1
        <5> HIDE DEF da, db
        <5>2. Cardinality(UnitsSince(tier.unit, db, e)) <= Cardinality(UnitsSince(tier.unit, da, e))
              /\ Cardinality(UnitsSince(tier.unit, db, e)) \in Nat
              /\ Cardinality(UnitsSince(tier.unit, da, e)) \in Nat
          BY <1>0, <5>1, FewerUnits
        <5> QED
          BY <5>2 DEF da, db
      <4> QED
        BY <1>0, <1>5, <3>1, <4>2
    <3>3. o(a) > o(b)
      BY <1>4, <2>2, <3>2, HorizonAssumption DEF Instants
    <3> QED
      BY <3>3 DEF IsNewer
  <2> QED
    BY <2>3, <2>4
<1> QED
  BY <1>6, <1>7 DEF Representatives

\* What retention lets go it never wants back: an artifact no tier selects and the
\* protection does not hold is not selected on any later day, whatever was committed
\* since (gfs.go, GFSDecide; lastknowngood.go, LastKnownGoodDecide).
THEOREM LetGoForGood ==
  ASSUME NEW old, NEW new, NEW d \in Nat, NEW e \in Nat, d <= e,
         DatedBy(old, d), DatedBy(new, e), Grown(old, new),
         NEW pol \in Policies,
         NEW a \in Eligible(old), a \notin DecideKeep(old, pol, d)
  PROVE  a \notin DecideKeep(new, pol, e)
<1>1. pol.tiers \subseteq Tiers
  BY PolicyAssumption
<1>2. a \notin GFSDecide(new, pol, e)
  <2>1. ASSUME NEW tier \in pol.tiers, NEW by \in {"discovery", "producer"},
               a \in Representatives(new, tier, by, e)
        PROVE  FALSE
    <3>1. a \in Representatives(old, tier, by, d)
      BY <1>1, <2>1, WasRepresentative
    <3> QED
      BY <3>1 DEF DecideKeep, GFSDecide
  <2> QED
    BY <2>1 DEF GFSDecide
<1>3. a \notin LastKnownGood(new, pol)
  <2>1. SUFFICES ASSUME pol.protect
                 PROVE  \E b \in Eligible(new) :
                          a # b /\ ~IsNewerRestorePoint(new, a, b)
    BY DEF LastKnownGood
  <2>2. a \notin LastKnownGood(old, pol)
    BY DEF DecideKeep
  <2>3. PICK b \in Eligible(old) : a # b /\ ~IsNewerRestorePoint(old, a, b)
    BY <2>1, <2>2 DEF LastKnownGood
  <2>4. b \in Eligible(new)
    BY DEF Grown
  <2>5. RetentionInstant(new[a]) = RetentionInstant(old[a])
        /\ RetentionInstant(new[b]) = RetentionInstant(old[b])
    BY DEF Grown, RetentionInstant, Occurred
  <2>6. ~IsNewerRestorePoint(new, a, b)
    BY <2>3, <2>5 DEF IsNewerRestorePoint, Grown
  <2> QED
    BY <2>3, <2>4, <2>6
<1> QED
  BY <1>2, <1>3 DEF DecideKeep

----------------------------------------------------------------------------
(* Pruning.                                                                 *)

\* What the argument needs of the types, and that nothing is distrusted before
\* there is trouble.
TInv ==
  /\ now \in Instants /\ policy \in Policies
  /\ trouble \in Nat /\ moves \in Nat
  /\ stored \in [Artifacts -> SUBSET Mediums]
  /\ journal \in [Artifacts -> Rows]
  /\ \A a \in Artifacts :
       /\ journal[a].state # "absent" => journal[a].discovered \in 0..now
       /\ trouble = 0 => journal[a].state # "quarantined"
  /\ apply = [pc |-> apply.pc, plan |-> apply.plan, day |-> apply.day, going |-> apply.going]

Removing == apply.pc \in {"decide", "confirm", "remove"}

\* The rows an apply holds on to are rows of the past, under the same settings, and
\* none of what it is about to remove would be kept.
PinnedInv ==
  trouble = 0 /\ Removing =>
    \A plan \in apply.plan :
      /\ plan.pol = policy
      /\ apply.day \in Nat /\ apply.day <= Today
      /\ DatedBy(plan.records, apply.day)
      /\ Grown(plan.records, AsIfNothingPruned)
      /\ \A a \in apply.going :
           a \in Eligible(plan.records)
           /\ a \notin DecideKeep(plan.records, policy, apply.day)

IInv == TInv /\ KeepsPromised /\ PinnedInv

LEMMA InitIInv == Init => IInv
<1> SUFFICES ASSUME Init PROVE IInv
  OBVIOUS
<1>1. TInv
  BY HorizonAssumption DEF Init, TInv, Absent, Idle, Instants, Rows
<1>2. Eligible(AsIfNothingPruned) = {}
  BY DEF Init, Eligible, AsIfNothingPruned, Absent
<1>3. DecideKeep(AsIfNothingPruned, policy, Today) = {}
  BY <1>2 DEF DecideKeep, GFSDecide, Representatives, Placed, LastKnownGood
<1>4. KeepsPromised
  BY <1>3 DEF KeepsPromised
<1>5. PinnedInv
  BY DEF Init, PinnedInv, Removing, Idle
<1> QED
  BY <1>1, <1>4, <1>5 DEF IInv

\* Whoever is kept is a restore point.
LEMMA KeptAreEligible ==
  ASSUME NEW records, NEW pol, NEW today
  PROVE  DecideKeep(records, pol, today) \subseteq Eligible(records)
BY DEF DecideKeep, GFSDecide, Representatives, Placed, LastKnownGood

LEMMA TodayIsADay ==
  TInv => Today \in Nat /\ DatedBy(AsIfNothingPruned, Today)
<1> SUFFICES ASSUME TInv PROVE Today \in Nat /\ DatedBy(AsIfNothingPruned, Today)
  OBVIOUS
<1>1. Today \in Nat
  BY DayAssumption DEF TInv, Today
<1>2. ASSUME NEW a \in Eligible(AsIfNothingPruned)
      PROVE  /\ AsIfNothingPruned[a].discovered \in Instants
             /\ AsIfNothingPruned[a].producer \in Instants \cup {NoTime}
             /\ DayOf[AsIfNothingPruned[a].discovered] <= Today
  <2>1. a \in Artifacts /\ journal[a] \in Rows
    BY <1>2 DEF Eligible, TInv
  <2>2. /\ AsIfNothingPruned[a].discovered = journal[a].discovered
        /\ AsIfNothingPruned[a].producer = journal[a].producer
    BY <2>1 DEF AsIfNothingPruned, Rows
  <2>3. journal[a].state # "absent"
    BY <1>2, <2>1 DEF Eligible, AsIfNothingPruned, Rows
  <2>4. now \in Instants /\ journal[a].discovered \in 0..now
    BY <2>1, <2>3 DEF TInv
  <2>5. journal[a].discovered \in Instants /\ journal[a].discovered <= now
    BY <2>4, HorizonAssumption DEF Instants
  <2>6. DayOf[journal[a].discovered] <= DayOf[now]
    BY <2>4, <2>5, DayAssumption
  <2> QED
    BY <2>1, <2>2, <2>5, <2>6 DEF Today, Rows
<1> QED
  BY <1>1, <1>2 DEF DatedBy

\* What the policy would keep is there.
Good(a) ==
  /\ journal[a].state = "managed"
  /\ journal[a].active # {} /\ journal[a].active \subseteq stored[a]

\* A step under one policy that adds restore points that are there, and takes nothing
\* from one that is to be kept.
Harmless ==
  /\ policy' = policy /\ Today <= Today'
  /\ Grown(AsIfNothingPruned, AsIfNothingPruned')
  /\ \A a \in Eligible(AsIfNothingPruned') :
       \/ Good(a)'
       \/ /\ a \in Eligible(AsIfNothingPruned)
          /\ a \in DecideKeep(AsIfNothingPruned, policy, Today) /\ Good(a) => Good(a)'

LEMMA StillPromised ==
  ASSUME TInv, TInv', KeepsPromised, trouble = 0, Harmless
  PROVE  KeepsPromised'
<1> DEFINE old == AsIfNothingPruned
           new == AsIfNothingPruned'
           d == Today
           e == Today'
<1>1. d \in Nat /\ DatedBy(old, d)
  BY TodayIsADay
<1>2. e \in Nat /\ DatedBy(new, e)
  <2>1. (TInv => Today \in Nat /\ DatedBy(AsIfNothingPruned, Today))'
    BY TodayIsADay, PTL
  <2> QED
    BY <2>1
<1>3. policy \in Policies /\ policy' = policy /\ d <= e /\ Grown(old, new)
  BY DEF Harmless, TInv
<1>4. ASSUME NEW a \in DecideKeep(new, policy, e)
      PROVE  Good(a)'
  <2>1. a \in Eligible(new)
    BY <1>4, KeptAreEligible
  <2>2. CASE /\ a \in Eligible(old)
             /\ a \in DecideKeep(old, policy, d) /\ Good(a) => Good(a)'
    <3>1. a \in DecideKeep(old, policy, d)
      <4> HIDE DEF old, new, d, e
      <4> QED BY <1>1, <1>2, <1>3, <1>4, <2>2, LetGoForGood
    <3>2. Good(a)
      BY <3>1 DEF KeepsPromised, Good
    <3> QED
      BY <2>2, <3>1, <3>2
  <2> QED
    BY <2>1, <2>2 DEF Harmless
<1> QED
  BY <1>3, <1>4 DEF KeepsPromised, Good

\* What an apply holds on to is still past.
LEMMA PinnedLasts ==
  ASSUME TInv, TInv', PinnedInv, Harmless, trouble = 0, UNCHANGED apply
  PROVE  PinnedInv'
<1>1. Today \in Nat /\ Today' \in Nat
  <2>1. (TInv => Today \in Nat /\ DatedBy(AsIfNothingPruned, Today))'
    BY TodayIsADay, PTL
  <2> QED
    BY <2>1, TodayIsADay
<1>2. ASSUME Removing, NEW plan \in apply.plan
      PROVE  /\ plan.pol = policy'
             /\ apply.day \in Nat /\ apply.day <= Today'
             /\ DatedBy(plan.records, apply.day)
             /\ Grown(plan.records, AsIfNothingPruned')
             /\ \A a \in apply.going :
                  a \in Eligible(plan.records)
                  /\ a \notin DecideKeep(plan.records, policy', apply.day)
  <2>1. /\ plan.pol = policy
        /\ apply.day \in Nat /\ apply.day <= Today
        /\ DatedBy(plan.records, apply.day)
        /\ Grown(plan.records, AsIfNothingPruned)
        /\ \A a \in apply.going :
             a \in Eligible(plan.records)
             /\ a \notin DecideKeep(plan.records, policy, apply.day)
    BY <1>2 DEF PinnedInv
  <2>2. policy' = policy /\ Today <= Today' /\ Grown(AsIfNothingPruned, AsIfNothingPruned')
    BY DEF Harmless
  <2>3. apply.day <= Today'
    BY <1>1, <2>1, <2>2
  <2>4. Grown(plan.records, AsIfNothingPruned')
    BY <2>1, <2>2 DEF Grown
  <2> QED
    BY <2>1, <2>2, <2>3, <2>4
<1> QED
  BY <1>2 DEF PinnedInv, Removing

\* Rows that are the same are what they were.
LEMMA GrownSame == \A records : Grown(records, records)
BY DEF Grown

\* What is decided for deletion is a restore point that would not be kept.
LEMMA DeletionsAreUnkept ==
  ASSUME NEW records, NEW pol, NEW today, NEW disk,
         NEW a \in Deletions(PruneDecide(records, pol, today, disk))
  PROVE  a \in Eligible(records) /\ a \notin DecideKeep(records, pol, today)
<1> DEFINE keep == DecideKeep(records, pol, today)
           held == Unconfirmed(records, pol, disk)
<1>1. a \in Eligible(records)
  BY DEF Deletions, PruneDecide
<1>2. Evaluate(records, keep, disk, held, a).action = "delete"
  BY <1>1 DEF Deletions, PruneDecide
<1>3. a \notin keep
  <2> HIDE DEF keep, held
  <2> QED BY <1>2 DEF Evaluate, Verdict
<1> QED
  BY <1>1, <1>3

\* An apply keeps its four fields.
Apply == [pc |-> apply.pc, plan |-> apply.plan, day |-> apply.day, going |-> apply.going]

LEMMA ApplyShape == apply = Apply /\ [Next]_vars => (apply = Apply)'
<1> SUFFICES ASSUME apply = Apply, [Next]_vars PROVE (apply = Apply)'
  OBVIOUS
<1>1. CASE ServiceStep
  <2>1. CASE PreviewRetention
    BY <2>1 DEF PreviewRetention, Apply
  <2>2. ASSUME NEW plan \in plans, ApplyRetentionPlan(plan)
        PROVE  (apply = Apply)'
    BY <2>2 DEF ApplyRetentionPlan, Apply, Idle
  <2>3. ASSUME NEW plan \in apply.plan, Decide(plan)
        PROVE  (apply = Apply)'
    <3> DEFINE going == Deletions(PruneDecide(plan.records, plan.pol, apply.day, stored))
    <3>1. apply' = [apply EXCEPT !.pc = "confirm", !.going = going]
      BY <2>3 DEF Decide
    <3> HIDE DEF going
    <3> QED BY <3>1 DEF Apply
  <2>4. ASSUME NEW plan \in apply.plan, Confirm(plan)
        PROVE  (apply = Apply)'
    <3>1. apply' = [apply EXCEPT !.going = {}] \/ apply' = [apply EXCEPT !.pc = "remove"]
      BY <2>4 DEF Confirm
    <3> QED BY <3>1 DEF Apply
  <2>5. ASSUME NEW plan \in apply.plan, NEW a \in apply.going, Remove(plan, a)
        PROVE  (apply = Apply)'
    <3>1. apply' = [apply EXCEPT !.pc = "confirm", !.going = @ \ {a}]
      BY <2>5 DEF Remove
    <3> QED BY <3>1 DEF Apply
  <2>6. CASE Finish \/ Restart
    BY <2>6 DEF Finish, Restart, Apply, Idle
  <2> QED
    BY <1>1, <2>1, <2>2, <2>3, <2>4, <2>5, <2>6 DEF ServiceStep
<1>2. CASE UNCHANGED apply
  BY <1>2 DEF Apply
<1>3. ASSUME NEW a \in Artifacts, ArtifactStep(a)
      PROVE  UNCHANGED apply
  BY <1>3 DEF ArtifactStep, Commit, ReconcileMissing, Quarantine, Reinstate, MoveCopied,
              MoveEnded, Lose
<1> QED
  BY <1>1, <1>2, <1>3 DEF Next, ChangeConfig, Tick, vars

\* Types.
LEMMA TypeStep == TInv /\ [Next]_vars => TInv'
<1> SUFFICES ASSUME TInv, [Next]_vars PROVE TInv'
  OBVIOUS
<1>0. (apply = Apply)'
  BY ApplyShape DEF TInv, Apply
<1>1. ASSUME UNCHANGED <<now, policy, journal, stored, trouble, moves>>
      PROVE  TInv'
  BY <1>0, <1>1 DEF TInv, Apply
<1>2. CASE ServiceStep
  <2>1. ASSUME NEW plan \in apply.plan, NEW a \in apply.going, Remove(plan, a)
        PROVE  TInv'
    BY <1>0, <2>1 DEF Remove, TInv, Apply, bounds
  <2>2. CASE PreviewRetention
    BY <1>1, <2>2 DEF PreviewRetention, bounds
  <2>3. ASSUME NEW plan \in plans, ApplyRetentionPlan(plan)
        PROVE  TInv'
    BY <1>1, <2>3 DEF ApplyRetentionPlan, bounds
  <2>4. ASSUME NEW plan \in apply.plan, Decide(plan) \/ Confirm(plan)
        PROVE  TInv'
    BY <1>1, <2>4 DEF Decide, Confirm, bounds
  <2>5. CASE Finish \/ Restart
    BY <1>1, <2>5 DEF Finish, Restart, bounds
  <2> QED
    BY <1>2, <2>1, <2>2, <2>3, <2>4, <2>5 DEF ServiceStep
<1>3. ASSUME NEW a \in Artifacts, ArtifactStep(a)
      PROVE  TInv'
  <2>1. CASE Commit(a)
    <3>1. PICK d \in 0..now, t \in ProducerTimes[a] :
            journal' = [journal EXCEPT ![a] = [state |-> "managed", discovered |-> d,
                                               producer |-> t, active |-> {Local}]]
      BY <2>1 DEF Commit
    <3>2. d \in Instants /\ t \in Instants \cup {NoTime}
      <4>1. d \in Instants
        BY <3>1, HorizonAssumption DEF TInv, Instants
      <4>2. ProducerTimes[a] \subseteq Instants \cup {NoTime}
        BY ProducerAssumption
      <4> QED
        BY <3>1, <4>1, <4>2
    <3>3. [state |-> "managed", discovered |-> d, producer |-> t, active |-> {Local}] \in Rows
      BY <3>2, PlaceAssumption DEF Rows
    <3>4. journal' \in [Artifacts -> Rows]
      BY <3>1, <3>3 DEF TInv
    <3>5. stored' \in [Artifacts -> SUBSET Mediums]
      BY <2>1, PlaceAssumption DEF Commit, TInv
    <3>6. UNCHANGED <<now, policy, trouble, moves>>
      BY <2>1 DEF Commit, bounds
    <3>7. ASSUME NEW b \in Artifacts
          PROVE  /\ journal'[b].state # "absent" => journal'[b].discovered \in 0..now
                 /\ trouble = 0 => journal'[b].state # "quarantined"
      <4>1. CASE b = a
        BY <3>1, <4>1 DEF TInv
      <4>2. CASE b # a
        BY <3>1, <4>2 DEF TInv
      <4> QED
        BY <4>1, <4>2
    <3> QED
      BY <1>0, <3>4, <3>5, <3>6, <3>7 DEF TInv, Apply
  <2>2. CASE ReconcileMissing(a)
    BY <1>0, <2>2 DEF ReconcileMissing, TInv, Apply, Rows, bounds
  <2>3. CASE Quarantine(a)
    BY <1>0, <2>3 DEF Quarantine, TInv, Apply, Rows, bounds
  <2>4. CASE Reinstate(a)
    BY <1>0, <2>4 DEF Reinstate, TInv, Apply, Rows, bounds
  <2>5. CASE MoveCopied(a)
    BY <1>0, <2>5 DEF MoveCopied, TInv, Apply, Rows, bounds
  <2>6. CASE MoveEnded(a)
    BY <1>0, <2>6 DEF MoveEnded, TInv, Apply, Rows, bounds
  <2>7. CASE Lose(a)
    BY <1>0, <2>7 DEF Lose, TInv, Apply
  <2> QED
    BY <1>3, <2>1, <2>2, <2>3, <2>4, <2>5, <2>6, <2>7 DEF ArtifactStep
<1>4. CASE ChangeConfig
  BY <1>0, <1>4 DEF ChangeConfig, TInv, Apply
<1>5. CASE Tick
  BY <1>0, <1>5, HorizonAssumption DEF Tick, TInv, Apply, Instants, bounds
<1>6. CASE UNCHANGED vars
  BY <1>1, <1>6 DEF vars, bounds
<1> QED
  BY <1>2, <1>3, <1>4, <1>5, <1>6 DEF Next

\* One artifact changes: it keeps its dates if it is a restore point, or would be
\* one had nothing been pruned, and is there afterwards, or was not before.
LEMMA OneArtifact ==
  ASSUME TInv, UNCHANGED <<now, policy>>, NEW a \in Artifacts,
         \A b \in Artifacts \ {a} : journal'[b] = journal[b] /\ stored'[b] = stored[b],
         a \in Eligible(AsIfNothingPruned) =>
           /\ a \in Eligible(AsIfNothingPruned')
           /\ AsIfNothingPruned'[a].discovered = AsIfNothingPruned[a].discovered
           /\ AsIfNothingPruned'[a].producer = AsIfNothingPruned[a].producer,
         Good(a)' \/ (a \in Eligible(AsIfNothingPruned) /\ ~Good(a))
  PROVE  Harmless
<1>1. Today' = Today /\ Today \in Nat
  BY TodayIsADay DEF Today
<1>2. ASSUME NEW b \in Artifacts \ {a}
      PROVE  AsIfNothingPruned'[b] = AsIfNothingPruned[b]
  BY DEF AsIfNothingPruned
<1>3. Grown(AsIfNothingPruned, AsIfNothingPruned')
  BY <1>2 DEF Grown, Eligible
<1>4. ASSUME NEW b \in Eligible(AsIfNothingPruned')
      PROVE  \/ Good(b)'
             \/ /\ b \in Eligible(AsIfNothingPruned)
                /\ b \in DecideKeep(AsIfNothingPruned, policy, Today) /\ Good(b) => Good(b)'
  <2>1. CASE b = a
    BY <2>1
  <2>2. CASE b # a
    <3>1. b \in Artifacts \ {a}
      BY <2>2, <1>4 DEF Eligible
    <3>2. b \in Eligible(AsIfNothingPruned)
      BY <1>2, <1>4, <3>1 DEF Eligible
    <3>3. Good(b) => Good(b)'
      BY <3>1 DEF Good
    <3> QED
      BY <3>2, <3>3
  <2> QED
    BY <2>1, <2>2
<1> QED
  BY <1>1, <1>3, <1>4 DEF Harmless

\* What a journal holds of an artifact, and what would be had nothing been pruned.
LEMMA AsIfRow ==
  ASSUME TInv, NEW a \in Artifacts
  PROVE  /\ AsIfNothingPruned[a].discovered = journal[a].discovered
         /\ AsIfNothingPruned[a].producer = journal[a].producer
         /\ a \in Eligible(AsIfNothingPruned) <=> journal[a].state \in {"managed", "missing"}
<1>1. journal[a] \in Rows
  BY DEF TInv
<1> QED
  BY <1>1 DEF AsIfNothingPruned, Eligible, Rows

\* An artifact's own steps.
LEMMA ArtifactHarmless ==
  ASSUME TInv, TInv', trouble' = 0, NEW a \in Artifacts, ArtifactStep(a)
  PROVE  Harmless /\ UNCHANGED apply
<1>0. trouble \in Nat /\ journal \in [Artifacts -> Rows] /\ stored \in [Artifacts -> SUBSET Mediums]
  BY DEF TInv
<1>1. /\ AsIfNothingPruned[a].discovered = journal[a].discovered
      /\ AsIfNothingPruned[a].producer = journal[a].producer
      /\ a \in Eligible(AsIfNothingPruned) <=> journal[a].state \in {"managed", "missing"}
  BY AsIfRow
<1>2. /\ AsIfNothingPruned'[a].discovered = journal'[a].discovered
      /\ AsIfNothingPruned'[a].producer = journal'[a].producer
      /\ a \in Eligible(AsIfNothingPruned') <=> journal'[a].state \in {"managed", "missing"}
  <2>1. journal'[a] \in Rows
    BY DEF TInv
  <2> QED
    BY <2>1 DEF AsIfNothingPruned, Eligible, Rows
<1>3. CASE Commit(a)
  <2>1. /\ journal[a].state = "absent"
        /\ UNCHANGED <<now, policy, apply>>
        /\ stored' = [stored EXCEPT ![a] = {Local}]
        /\ \A b \in Artifacts \ {a} : journal'[b] = journal[b]
        /\ journal'[a].state = "managed" /\ journal'[a].active = {Local}
    BY <1>0, <1>3 DEF Commit
  <2>2. Good(a)' /\ \A b \in Artifacts \ {a} : stored'[b] = stored[b]
    BY <1>0, <2>1 DEF Good
  <2>3. a \notin Eligible(AsIfNothingPruned)
    BY <1>1, <2>1
  <2> QED
    BY <2>1, <2>2, <2>3, OneArtifact
<1>4. CASE ReconcileMissing(a)
  <2>1. /\ UNCHANGED <<now, policy, apply, stored>>
        /\ journal[a].state = "managed" /\ journal[a].active = {Local} /\ Local \notin stored[a]
        /\ journal' = [journal EXCEPT ![a].state = "missing"]
    BY <1>4 DEF ReconcileMissing
  <2>2. /\ journal'[a].state = "missing"
        /\ journal'[a].discovered = journal[a].discovered
        /\ journal'[a].producer = journal[a].producer
        /\ \A b \in Artifacts \ {a} : journal'[b] = journal[b]
    BY <1>0, <2>1 DEF Rows
  <2>3. ~Good(a)
    BY <2>1 DEF Good
  <2> QED
    BY <1>1, <1>2, <2>1, <2>2, <2>3, OneArtifact
<1>5. CASE Quarantine(a) \/ Lose(a)
  BY <1>0, <1>5 DEF Quarantine, Lose
<1>6. CASE Reinstate(a)
  BY <1>6 DEF Reinstate, TInv, bounds
<1>7. CASE MoveCopied(a)
  <2>1. /\ UNCHANGED <<now, policy, apply>>
        /\ journal[a].state = "managed" /\ journal[a].active \subseteq stored[a]
    BY <1>7 DEF MoveCopied
  <2>2. PICK m \in Mediums \ journal[a].active :
          /\ journal' = [journal EXCEPT ![a].active = @ \cup {m}]
          /\ stored' = [stored EXCEPT ![a] = @ \cup {m}]
    BY <1>7 DEF MoveCopied
  <2>3. /\ journal'[a].state = "managed"
        /\ journal'[a].active = journal[a].active \cup {m}
        /\ journal'[a].discovered = journal[a].discovered
        /\ journal'[a].producer = journal[a].producer
        /\ \A b \in Artifacts \ {a} : journal'[b] = journal[b]
    BY <1>0, <2>1, <2>2 DEF Rows
  <2>4. /\ stored'[a] = stored[a] \cup {m}
        /\ \A b \in Artifacts \ {a} : stored'[b] = stored[b]
    BY <1>0, <2>2
  <2>5. Good(a)'
    BY <2>1, <2>3, <2>4 DEF Good
  <2> QED
    BY <1>1, <1>2, <2>1, <2>3, <2>4, <2>5, OneArtifact
<1>8. CASE MoveEnded(a)
  <2>1. /\ UNCHANGED <<now, policy, apply>>
        /\ journal[a].state = "managed"
    BY <1>8 DEF MoveEnded
  <2>2. PICK m \in journal[a].active \cap stored[a] :
          /\ journal' = [journal EXCEPT ![a].active = {m}]
          /\ stored' = [stored EXCEPT ![a] = @ \cap {m}]
    BY <1>8 DEF MoveEnded
  <2>3. /\ journal'[a].state = "managed"
        /\ journal'[a].active = {m}
        /\ journal'[a].discovered = journal[a].discovered
        /\ journal'[a].producer = journal[a].producer
        /\ \A b \in Artifacts \ {a} : journal'[b] = journal[b]
    BY <1>0, <2>1, <2>2 DEF Rows
  <2>4. /\ stored'[a] = stored[a] \cap {m}
        /\ \A b \in Artifacts \ {a} : stored'[b] = stored[b]
    BY <1>0, <2>2
  <2>5. Good(a)'
    BY <2>2, <2>3, <2>4 DEF Good
  <2> QED
    BY <1>1, <1>2, <2>1, <2>3, <2>4, <2>5, OneArtifact
<1> QED
  BY <1>3, <1>4, <1>5, <1>6, <1>7, <1>8 DEF ArtifactStep

\* What is removed would not be kept today either.
LEMMA RemovedIsUnkept ==
  ASSUME TInv, PinnedInv, trouble = 0, Removing,
         NEW plan \in apply.plan, NEW a \in apply.going
  PROVE  a \notin DecideKeep(AsIfNothingPruned, policy, Today)
<1>1. /\ apply.day \in Nat /\ apply.day <= Today
      /\ DatedBy(plan.records, apply.day)
      /\ Grown(plan.records, AsIfNothingPruned)
      /\ a \in Eligible(plan.records)
      /\ a \notin DecideKeep(plan.records, policy, apply.day)
  BY DEF PinnedInv
<1>2. Today \in Nat /\ DatedBy(AsIfNothingPruned, Today) /\ policy \in Policies
  BY TodayIsADay DEF TInv
<1> DEFINE old == plan.records
           new == AsIfNothingPruned
           d == apply.day
           e == Today
<1> HIDE DEF old, new, d, e
<1>3. a \notin DecideKeep(new, policy, e)
  BY <1>1, <1>2, LetGoForGood DEF old, new, d, e
<1> QED
  BY <1>3 DEF new, e

\* The service's own steps, but for the removal, touch no copy.
LEMMA NothingMoved ==
  ASSUME KeepsPromised, UNCHANGED <<now, policy, journal, stored, trouble>>
  PROVE  KeepsPromised'
BY DEF KeepsPromised, AsIfNothingPruned, Today

\* An apply goes on, with no more to remove than it had.
LEMMA GoesOn ==
  ASSUME PinnedInv, UNCHANGED <<now, policy, journal, trouble>>, trouble = 0, Removing,
         apply'.plan = apply.plan, apply'.day = apply.day,
         \A plan \in apply.plan : \A a \in apply'.going :
           \/ a \in apply.going
           \/ /\ a \in Eligible(plan.records)
              /\ a \notin DecideKeep(plan.records, plan.pol, apply.day)
  PROVE  PinnedInv'
<1>1. AsIfNothingPruned' = AsIfNothingPruned /\ Today' = Today
  BY DEF AsIfNothingPruned, Today
<1> QED
  BY <1>1 DEF PinnedInv

LEMMA ServiceKeeps ==
  ASSUME TInv, TInv', KeepsPromised, PinnedInv, trouble = 0, ServiceStep
  PROVE  KeepsPromised' /\ PinnedInv'
<1>0. apply = [pc |-> apply.pc, plan |-> apply.plan, day |-> apply.day, going |-> apply.going]
  BY DEF TInv
<1>1. CASE PreviewRetention
  <2>1. UNCHANGED <<now, policy, journal, stored, trouble, apply>>
    BY <1>1 DEF PreviewRetention, bounds
  <2>2. AsIfNothingPruned' = AsIfNothingPruned /\ Today' = Today
    BY <2>1 DEF AsIfNothingPruned, Today
  <2> QED
    BY <2>1, <2>2, NothingMoved DEF PinnedInv, Removing
<1>2. ASSUME NEW plan \in plans, ApplyRetentionPlan(plan)
      PROVE  KeepsPromised' /\ PinnedInv'
  <2>1. UNCHANGED <<now, policy, journal, stored, trouble>>
    BY <1>2 DEF ApplyRetentionPlan, bounds
  <2>2. AsIfNothingPruned' = AsIfNothingPruned /\ Today' = Today
    BY <2>1 DEF AsIfNothingPruned, Today
  <2>3. KeepsPromised'
    BY <2>1, NothingMoved
  <2>4. CASE Unchanged(plan)
    <3>1. apply' = [pc |-> "decide", plan |-> {plan}, day |-> Today, going |-> {}]
          /\ policy = plan.pol /\ journal = plan.records
      BY <1>2, <2>4 DEF ApplyRetentionPlan, Unchanged
    <3>2. Today \in Nat /\ DatedBy(AsIfNothingPruned, Today)
      BY TodayIsADay
    <3>3. Grown(journal, AsIfNothingPruned)
      BY AsIfRow DEF Grown, Eligible
    <3>4. DatedBy(journal, Today)
      BY <3>2, <3>3 DEF DatedBy, Grown
    <3> QED
      BY <2>1, <2>2, <2>3, <3>1, <3>2, <3>3, <3>4 DEF PinnedInv
  <2>5. CASE ~Unchanged(plan)
    BY <1>2, <2>3, <2>5 DEF ApplyRetentionPlan, PinnedInv, Removing, Idle
  <2> QED
    BY <2>4, <2>5
<1>3. ASSUME NEW plan \in apply.plan, Decide(plan)
      PROVE  KeepsPromised' /\ PinnedInv'
  <2> DEFINE going == Deletions(PruneDecide(plan.records, plan.pol, apply.day, stored))
  <2>1. /\ UNCHANGED <<now, policy, journal, stored, trouble>>
        /\ apply.pc = "decide" /\ apply.plan = {plan}
        /\ apply' = [apply EXCEPT !.pc = "confirm", !.going = going]
    BY <1>3 DEF Decide, bounds
  <2>2. apply'.plan = apply.plan /\ apply'.day = apply.day /\ apply'.going = going
    <3> HIDE DEF going
    <3> QED BY <1>0, <2>1
  <2>3. \A a \in going : /\ a \in Eligible(plan.records)
                         /\ a \notin DecideKeep(plan.records, plan.pol, apply.day)
    BY DeletionsAreUnkept
  <2> HIDE DEF going
  <2> QED
    BY <2>1, <2>2, <2>3, NothingMoved, GoesOn DEF Removing
<1>4. ASSUME NEW plan \in apply.plan, Confirm(plan)
      PROVE  KeepsPromised' /\ PinnedInv'
  <2>1. /\ UNCHANGED <<now, policy, journal, stored, trouble>>
        /\ apply.pc = "confirm"
        /\ apply' = [apply EXCEPT !.going = {}] \/ apply' = [apply EXCEPT !.pc = "remove"]
    BY <1>4 DEF Confirm, bounds
  <2>2. apply'.plan = apply.plan /\ apply'.day = apply.day /\ apply'.going \subseteq apply.going
    BY <1>0, <2>1
  <2> QED
    BY <2>1, <2>2, NothingMoved, GoesOn DEF Removing
<1>5. ASSUME NEW plan \in apply.plan, NEW a \in apply.going, Remove(plan, a)
      PROVE  KeepsPromised' /\ PinnedInv'
  <2>1. /\ UNCHANGED <<now, policy, journal, trouble>>
        /\ apply.pc = "remove"
        /\ apply' = [apply EXCEPT !.pc = "confirm", !.going = @ \ {a}]
        /\ stored' = [stored EXCEPT ![a] = @ \ Where(plan.records[a])] \/ stored' = stored
    BY <1>5 DEF Remove, bounds
  <2>2. apply'.plan = apply.plan /\ apply'.day = apply.day /\ apply'.going \subseteq apply.going
    BY <1>0, <2>1
  <2>3. PinnedInv'
    BY <2>1, <2>2, GoesOn DEF Removing
  <2>4. a \notin DecideKeep(AsIfNothingPruned, policy, Today)
    BY <2>1, RemovedIsUnkept DEF Removing
  <2>5. AsIfNothingPruned' = AsIfNothingPruned /\ Today' = Today
    BY <2>1 DEF AsIfNothingPruned, Today
  <2>6. ASSUME NEW b \in DecideKeep(AsIfNothingPruned, policy, Today)
        PROVE  /\ journal'[b].state = "managed"
               /\ journal'[b].active # {} /\ journal'[b].active \subseteq stored'[b]
    <3>1. b # a /\ b \in Artifacts
      BY <2>4, <2>6, KeptAreEligible DEF Eligible
    <3>2. stored'[b] = stored[b]
      BY <2>1, <3>1 DEF TInv
    <3>3. /\ journal[b].state = "managed"
          /\ journal[b].active # {} /\ journal[b].active \subseteq stored[b]
      BY <2>6 DEF KeepsPromised
    <3> QED
      BY <2>1, <3>2, <3>3
  <2>7. KeepsPromised'
    BY <2>1, <2>5, <2>6 DEF KeepsPromised
  <2> QED
    BY <2>3, <2>7
<1>6. CASE Finish \/ Restart
  <2>1. UNCHANGED <<now, policy, journal, stored, trouble>> /\ apply' = Idle
    BY <1>6 DEF Finish, Restart, bounds
  <2> QED
    BY <2>1, NothingMoved DEF PinnedInv, Removing, Idle
<1> QED
  BY <1>1, <1>2, <1>3, <1>4, <1>5, <1>6 DEF ServiceStep

LEMMA KeepStep ==
  ASSUME TInv, TInv', KeepsPromised, PinnedInv, [Next]_vars
  PROVE  KeepsPromised' /\ PinnedInv'
<1>0. trouble \in Nat /\ trouble' \in Nat
  BY DEF TInv
<1>1. CASE trouble' # 0
  BY <1>1 DEF KeepsPromised, PinnedInv
<1>2. CASE trouble' = 0
  <2>1. ASSUME Harmless, UNCHANGED apply, trouble = 0
        PROVE  KeepsPromised' /\ PinnedInv'
    BY <2>1, StillPromised, PinnedLasts
  <2>2. CASE ServiceStep
    <3>1. trouble = 0
      BY <1>2, <2>2 DEF ServiceStep, PreviewRetention, ApplyRetentionPlan, Decide, Confirm,
                        Remove, Finish, Restart, bounds
    <3> QED
      BY <2>2, <3>1, ServiceKeeps
  <2>3. ASSUME NEW a \in Artifacts, ArtifactStep(a)
        PROVE  KeepsPromised' /\ PinnedInv'
    <3>1. trouble = 0
      BY <1>0, <1>2, <2>3 DEF ArtifactStep, Commit, ReconcileMissing, Quarantine, Reinstate,
                              MoveCopied, MoveEnded, Lose, bounds
    <3> QED
      BY <1>2, <2>1, <2>3, <3>1, ArtifactHarmless
  <2>4. CASE ChangeConfig
    BY <1>0, <1>2, <2>4 DEF ChangeConfig
  <2>5. CASE Tick
    <3>1. /\ now' = now + 1 /\ trouble = 0
          /\ UNCHANGED <<policy, journal, stored, apply>>
      BY <1>2, <2>5 DEF Tick, bounds
    <3>2. now \in Instants /\ now' \in Instants /\ now <= now'
      BY <3>1, HorizonAssumption DEF TInv, Instants
    <3>3. Today <= Today'
      BY <3>2, DayAssumption DEF Today
    <3>4. AsIfNothingPruned' = AsIfNothingPruned
      BY <3>1 DEF AsIfNothingPruned
    <3>5. Harmless
      BY <3>1, <3>3, <3>4, GrownSame DEF Harmless, Good
    <3> QED
      BY <2>1, <3>1, <3>5
  <2>6. CASE UNCHANGED vars
    <3>1. UNCHANGED <<now, policy, journal, stored, trouble, apply>>
      BY <2>6 DEF vars, bounds
    <3>2. AsIfNothingPruned' = AsIfNothingPruned /\ Today' = Today
      BY <3>1 DEF AsIfNothingPruned, Today
    <3> QED
      BY <3>1, <3>2, NothingMoved DEF PinnedInv, Removing
  <2> QED
    BY <2>2, <2>3, <2>4, <2>5, <2>6 DEF Next
<1> QED
  BY <1>1, <1>2

\* Pruning does not depend on when it is done: what the policy would keep today had
\* nothing ever been pruned is there, whatever was previewed, applied, cut short and
\* applied again before (prune.go, PruneApply; gfs.go, GFSDecide).
THEOREM PromiseKept == Spec => []KeepsPromised
<1>1. Init => IInv
  BY InitIInv
<1>2. IInv /\ [Next]_vars => IInv'
  <2> SUFFICES ASSUME IInv, [Next]_vars PROVE IInv'
    OBVIOUS
  <2>1. TInv /\ KeepsPromised /\ PinnedInv
    BY DEF IInv
  <2>2. TInv'
    BY <2>1, TypeStep
  <2>3. KeepsPromised' /\ PinnedInv'
    BY <2>1, <2>2, KeepStep
  <2> QED
    BY <2>2, <2>3 DEF IInv
<1>3. IInv => KeepsPromised
  BY DEF IInv
<1> QED
  BY <1>1, <1>2, <1>3, PTL DEF Spec

----------------------------------------------------------------------------
(* Removals are those the operator was shown.                               *)

\* An artifact whose only place is the directory, and is not there, does not come back.
Gone(a) ==
  journal[a].state # "absent" /\ journal[a].active \subseteq {Local} /\ Local \notin stored[a]

\* The verdicts of an apply are those of its records over some disk of the past, and
\* what was missing there is missing for good.
ReviewedInv ==
  Removing =>
    \A plan \in apply.plan :
      /\ \E disk \in [Artifacts -> SUBSET Mediums] :
           /\ plan.verdicts = PruneDecide(plan.records, plan.pol, apply.day, disk)
           /\ \A a \in Eligible(plan.records) :
                Where(plan.records[a]) = {Local} /\ Local \notin disk[a] => Gone(a)
      /\ apply.going \subseteq Deletions(plan.verdicts)

\* What is deleted over a disk that has no more than another is deleted over that one.
LEMMA FewerDeletions ==
  ASSUME NEW records, NEW pol, NEW day, NEW disk, NEW later,
         \A a \in Eligible(records) :
           Where(records[a]) = {Local} /\ Local \notin disk[a] => Local \notin later[a]
  PROVE  Deletions(PruneDecide(records, pol, day, later))
           \subseteq Deletions(PruneDecide(records, pol, day, disk))
<1> DEFINE keep == DecideKeep(records, pol, day)
<1>1. Unconfirmed(records, pol, disk) => Unconfirmed(records, pol, later)
  BY DEF Unconfirmed, LastKnownGood
<1>2. ASSUME NEW a \in Deletions(PruneDecide(records, pol, day, later))
      PROVE  a \in Deletions(PruneDecide(records, pol, day, disk))
  <2> DEFINE before == Unconfirmed(records, pol, disk)
             after == Unconfirmed(records, pol, later)
  <2>1. a \in Eligible(records) /\ Evaluate(records, keep, later, after, a).action = "delete"
    BY <1>2 DEF Deletions, PruneDecide
  <2> HIDE DEF keep, before, after
  <2>2. /\ a \notin keep /\ ~after /\ ~Contested(records[a])
        /\ ~(Where(records[a]) = {Local} /\ Local \notin later[a])
    BY <2>1 DEF Evaluate, Verdict
  <2>3. ~before
    BY <1>1, <2>2 DEF before, after
  <2>4. ~(Where(records[a]) = {Local} /\ Local \notin disk[a])
    BY <2>1, <2>2
  <2>5. Evaluate(records, keep, disk, before, a).action = "delete"
    BY <2>2, <2>3, <2>4 DEF Evaluate, Verdict
  <2> QED
    BY <2>1, <2>5 DEF Deletions, PruneDecide, keep, before
<1> QED
  BY <1>2

\* A deletion is from where the records say the copy is.
LEMMA DeletionIs ==
  ASSUME NEW records, NEW pol, NEW day, NEW disk,
         NEW a \in Deletions(PruneDecide(records, pol, day, disk))
  PROVE  /\ a \in Eligible(records)
         /\ PruneDecide(records, pol, day, disk)[a] = Verdict("delete", Where(records[a]))
<1> DEFINE keep == DecideKeep(records, pol, day)
           held == Unconfirmed(records, pol, disk)
<1>1. /\ a \in Eligible(records) /\ Evaluate(records, keep, disk, held, a).action = "delete"
      /\ PruneDecide(records, pol, day, disk)[a] = Evaluate(records, keep, disk, held, a)
  BY DEF Deletions, PruneDecide
<1> HIDE DEF keep, held
<1>2. Evaluate(records, keep, disk, held, a) = Verdict("delete", Where(records[a]))
  BY <1>1 DEF Evaluate, Verdict
<1> QED
  BY <1>1, <1>2

LEMMA WhereIsLocal ==
  ASSUME NEW r, Where(r) = {Local} PROVE r.active \subseteq {Local}
BY DEF Where

LEMMA OnlyLocal ==
  ASSUME NEW r, r.active \subseteq {Local}
  PROVE  ~Contested(r) /\ (Cardinality(r.active) = 1 => r.active = {Local})
<1>1. r.active = {} \/ r.active = {Local}
  OBVIOUS
<1>2. Cardinality({}) = 0 /\ Cardinality({Local}) = 1
  BY FS_EmptySet, FS_Singleton
<1> QED
  BY <1>1, <1>2 DEF Contested

LEMMA GoneStays ==
  ASSUME TInv, NEW a \in Artifacts, Gone(a), [Next]_vars PROVE Gone(a)'
<1>0. /\ journal \in [Artifacts -> Rows] /\ stored \in [Artifacts -> SUBSET Mediums]
      /\ journal[a].state # "absent" /\ journal[a].active \subseteq {Local}
      /\ Local \notin stored[a] /\ journal[a] \in Rows
  BY DEF TInv, Gone
<1>1. CASE ServiceStep
  <2>1. journal' = journal /\ stored'[a] \subseteq stored[a]
    BY <1>0, <1>1 DEF ServiceStep, PreviewRetention, ApplyRetentionPlan, Decide, Confirm, Remove,
                      Finish, Restart
  <2> QED
    BY <1>0, <2>1 DEF Gone
<1>2. ASSUME NEW b \in Artifacts, ArtifactStep(b) PROVE Gone(a)'
  <2>1. CASE b # a
    <3>1. journal'[a] = journal[a] /\ stored'[a] = stored[a]
      BY <1>0, <1>2, <2>1 DEF ArtifactStep, Commit, ReconcileMissing, Quarantine, Reinstate,
                              MoveCopied, MoveEnded, Lose
    <3> QED
      BY <1>0, <3>1 DEF Gone
  <2>2. CASE b = a
    <3>1. ~Commit(a) /\ ~MoveCopied(a) /\ ~MoveEnded(a)
      BY <1>0, OnlyLocal DEF Commit, MoveCopied, MoveEnded
    <3>2. CASE ReconcileMissing(a) \/ Quarantine(a) \/ Reinstate(a)
      <4>1. PICK s \in {"managed", "missing", "quarantined"} :
              journal' = [journal EXCEPT ![a].state = s] /\ stored' = stored
        BY <3>2 DEF ReconcileMissing, Quarantine, Reinstate
      <4>2. journal'[a] = [journal[a] EXCEPT !.state = s]
        BY <1>0, <4>1
      <4>3. journal'[a].state = s /\ journal'[a].active = journal[a].active
        BY <1>0, <4>2 DEF Rows
      <4> QED
        BY <1>0, <4>1, <4>3 DEF Gone
    <3>3. CASE Lose(a)
      BY <1>0, <3>3 DEF Lose, Gone
    <3> QED
      BY <1>2, <2>2, <3>1, <3>2, <3>3 DEF ArtifactStep
  <2> QED
    BY <2>1, <2>2
<1>3. CASE ChangeConfig \/ Tick \/ UNCHANGED vars
  BY <1>0, <1>3 DEF ChangeConfig, Tick, vars, Gone
<1> QED
  BY <1>1, <1>2, <1>3 DEF Next

\* An apply goes on, with deletions that were reviewed.
LEMMA ReviewedGoesOn ==
  ASSUME TInv, ReviewedInv, [Next]_vars, Removing, apply'.plan = apply.plan,
         apply'.day = apply.day,
         \A plan \in apply.plan : apply'.going \subseteq Deletions(plan.verdicts)
  PROVE  ReviewedInv'
<1>1. ASSUME NEW plan \in apply.plan
      PROVE  \E disk \in [Artifacts -> SUBSET Mediums] :
               /\ plan.verdicts = PruneDecide(plan.records, plan.pol, apply.day, disk)
               /\ \A a \in Eligible(plan.records) :
                    Where(plan.records[a]) = {Local} /\ Local \notin disk[a] => Gone(a)'
  <2>1. PICK disk \in [Artifacts -> SUBSET Mediums] :
          /\ plan.verdicts = PruneDecide(plan.records, plan.pol, apply.day, disk)
          /\ \A a \in Eligible(plan.records) :
               Where(plan.records[a]) = {Local} /\ Local \notin disk[a] => Gone(a)
    BY DEF ReviewedInv
  <2>2. \A a \in Eligible(plan.records) : a \in Artifacts
    BY DEF Eligible
  <2> QED
    BY <2>1, <2>2, GoneStays
<1> QED
  BY <1>1 DEF ReviewedInv

LEMMA ReviewedStep == ASSUME TInv, ReviewedInv, [Next]_vars PROVE ReviewedInv'
<1>0. apply = [pc |-> apply.pc, plan |-> apply.plan, day |-> apply.day, going |-> apply.going]
  BY DEF TInv
<1>1. CASE UNCHANGED apply
  <2>1. CASE Removing
    <3>1. \A plan \in apply.plan : apply.going \subseteq Deletions(plan.verdicts)
      BY <2>1 DEF ReviewedInv
    <3> QED
      BY <1>1, <2>1, <3>1, ReviewedGoesOn
  <2>2. CASE ~Removing
    BY <1>1, <2>2 DEF ReviewedInv, Removing
  <2> QED
    BY <2>1, <2>2
<1>2. ASSUME NEW plan \in plans, ApplyRetentionPlan(plan) PROVE ReviewedInv'
  <2>1. UNCHANGED <<journal, stored>>
    BY <1>2 DEF ApplyRetentionPlan
  <2>2. CASE Unchanged(plan)
    <3>1. /\ apply'.plan = {plan} /\ apply'.day = Today /\ apply'.going = {}
          /\ plan.pol = policy /\ plan.records = journal
          /\ plan.verdicts = PruneDecide(plan.records, plan.pol, Today, stored)
      BY <1>2, <2>2 DEF ApplyRetentionPlan, Unchanged
    <3>2. ASSUME NEW a \in Eligible(plan.records), Where(plan.records[a]) = {Local},
                 Local \notin stored[a]
          PROVE  Gone(a)'
      BY <2>1, <3>1, <3>2, WhereIsLocal DEF Gone, Eligible
    <3>3. stored \in [Artifacts -> SUBSET Mediums]
      BY DEF TInv
    <3> HIDE DEF Today
    <3> QED
      BY <3>1, <3>2, <3>3 DEF ReviewedInv
  <2>3. CASE ~Unchanged(plan)
    BY <1>2, <2>3 DEF ApplyRetentionPlan, ReviewedInv, Removing, Idle
  <2> QED
    BY <2>2, <2>3
<1>3. ASSUME NEW plan \in apply.plan, Decide(plan) PROVE ReviewedInv'
  <2> DEFINE going == Deletions(PruneDecide(plan.records, plan.pol, apply.day, stored))
  <2>1. /\ apply.pc = "decide" /\ apply.plan = {plan}
        /\ apply' = [apply EXCEPT !.pc = "confirm", !.going = going]
    BY <1>3 DEF Decide
  <2>2. PICK disk \in [Artifacts -> SUBSET Mediums] :
          /\ plan.verdicts = PruneDecide(plan.records, plan.pol, apply.day, disk)
          /\ \A a \in Eligible(plan.records) :
               Where(plan.records[a]) = {Local} /\ Local \notin disk[a] => Gone(a)
    BY <2>1 DEF ReviewedInv, Removing
  <2>3. going \subseteq Deletions(plan.verdicts)
    BY <2>2, FewerDeletions DEF Gone
  <2> HIDE DEF going
  <2>4. apply'.plan = apply.plan /\ apply'.day = apply.day /\ apply'.going = going
    BY <1>0, <2>1
  <2> QED
    BY <2>1, <2>3, <2>4, ReviewedGoesOn DEF Removing
<1>4. ASSUME NEW plan \in apply.plan, \/ Confirm(plan)
                                      \/ \E a \in apply.going : Remove(plan, a)
      PROVE  ReviewedInv'
  <2>1. /\ apply.pc \in {"confirm", "remove"} /\ apply.plan = {plan}
        /\ \/ apply' = [apply EXCEPT !.going = {}]
           \/ apply' = [apply EXCEPT !.pc = "remove"]
           \/ \E a \in apply.going : apply' = [apply EXCEPT !.pc = "confirm", !.going = @ \ {a}]
    BY <1>4 DEF Confirm, Remove
  <2>2. apply'.plan = apply.plan /\ apply'.day = apply.day /\ apply'.going \subseteq apply.going
    BY <1>0, <2>1
  <2>3. apply.going \subseteq Deletions(plan.verdicts)
    BY <2>1 DEF ReviewedInv, Removing
  <2> QED
    BY <2>1, <2>2, <2>3, ReviewedGoesOn DEF Removing
<1>5. CASE Finish \/ Restart
  BY <1>5 DEF Finish, Restart, ReviewedInv, Removing, Idle
<1> QED
  BY <1>1, <1>2, <1>3, <1>4, <1>5
     DEF Next, ServiceStep, PreviewRetention, ArtifactStep, Commit, ReconcileMissing, Quarantine,
         Reinstate, MoveCopied, MoveEnded, Lose, ChangeConfig, Tick, vars

\* What removed a copy, of the steps that are nobody's trouble and leave the rows alone.
LEMMA OnlyRemoveTakes ==
  ASSUME TInv, Next, NEW a \in Artifacts, stored'[a] # stored[a], trouble' = trouble,
         journal' = journal
  PROVE  \E plan \in apply.plan : \E b \in apply.going : Remove(plan, b)
<1>0. /\ stored \in [Artifacts -> SUBSET Mediums] /\ journal \in [Artifacts -> Rows]
      /\ trouble \in Nat
  BY DEF TInv
<1>1. ASSUME NEW b \in Artifacts, ArtifactStep(b) PROVE FALSE
  <2>1. ~Lose(b)
    BY <1>0 DEF Lose
  <2>2. ~Commit(b)
    BY <1>0 DEF Commit
  <2>3. ~MoveCopied(b)
    <3>1. ASSUME NEW m \in Mediums \ journal[b].active,
                 journal' = [journal EXCEPT ![b].active = @ \cup {m}]
          PROVE  FALSE
      <4>1. journal'[b] = [journal[b] EXCEPT !.active = @ \cup {m}]
        BY <1>0, <3>1
      <4>2. m \in journal'[b].active
        BY <1>0, <4>1 DEF Rows
      <4> QED
        BY <4>2
    <3> QED
      BY <3>1 DEF MoveCopied
  <2>4. ~MoveEnded(b)
    <3>1. ASSUME NEW m, Contested(journal[b]),
                 journal' = [journal EXCEPT ![b].active = {m}]
          PROVE  FALSE
      <4>1. journal'[b] = [journal[b] EXCEPT !.active = {m}]
        BY <1>0, <3>1
      <4>2. journal[b].active = {m}
        BY <1>0, <4>1 DEF Rows
      <4>3. Cardinality({m}) = 1
        BY FS_Singleton
      <4> QED
        BY <3>1, <4>2, <4>3 DEF Contested
    <3> QED
      BY <3>1 DEF MoveEnded
  <2> QED
    BY <1>1, <2>1, <2>2, <2>3, <2>4 DEF ArtifactStep, ReconcileMissing, Quarantine, Reinstate
<1> QED
  BY <1>1 DEF Next, ServiceStep, PreviewRetention, ApplyRetentionPlan, Decide, Confirm,
              Finish, Restart, ChangeConfig, Tick, vars

LEMMA RemovedAsReviewed ==
  ASSUME TInv, ReviewedInv, Next, NEW a \in Artifacts, apply.pc = "remove",
         stored'[a] # stored[a], trouble' = trouble, journal' = journal
  PROVE  \E plan \in apply.plan :
           /\ a \in DOMAIN plan.verdicts
           /\ plan.verdicts[a] = Verdict("delete", stored[a] \ stored'[a])
<1>0. stored \in [Artifacts -> SUBSET Mediums]
  BY DEF TInv
<1>1. PICK plan \in apply.plan, b \in apply.going : Remove(plan, b)
  BY OnlyRemoveTakes
<1>2. b = a /\ Where(plan.records[a]) \subseteq stored[a]
      /\ stored'[a] = stored[a] \ Where(plan.records[a]) /\ a \in apply.going
  BY <1>0, <1>1 DEF Remove
<1>3. stored[a] \ stored'[a] = Where(plan.records[a])
  BY <1>2
<1>4. PICK disk \in [Artifacts -> SUBSET Mediums] :
        plan.verdicts = PruneDecide(plan.records, plan.pol, apply.day, disk)
  BY DEF ReviewedInv, Removing
<1>5. a \in Deletions(plan.verdicts)
  BY <1>2 DEF ReviewedInv, Removing
<1>6. plan.verdicts[a] = Verdict("delete", Where(plan.records[a])) /\ a \in DOMAIN plan.verdicts
  BY <1>4, <1>5, DeletionIs DEF Deletions
<1> QED
  BY <1>3, <1>6

\* A step that ends in fewer copies because of an apply removes what its operator was
\* shown as a deletion, from the place he was shown, whatever another process commits,
\* moves or loses between the preview and the removal (retention.go, ApplyRetentionPlan;
\* prune.go, PruneApply).
THEOREM RemovalsAreReviewed == Spec => RemovesOnlyAsReviewed
<1>1. Init => TInv /\ ReviewedInv
  <2>1. Init => TInv
    BY InitIInv DEF IInv
  <2>2. Init => ReviewedInv
    BY DEF Init, ReviewedInv, Removing, Idle
  <2> QED
    BY <2>1, <2>2
<1>2. TInv /\ ReviewedInv /\ [Next]_vars => TInv' /\ ReviewedInv'
  BY TypeStep, ReviewedStep
<1>3. TInv /\ ReviewedInv /\ [Next]_vars =>
        [\A a \in Artifacts : apply.pc = "remove" /\ stored'[a] # stored[a] /\ trouble' = trouble
                              /\ journal' = journal =>
           \E plan \in apply.plan :
             a \in DOMAIN plan.verdicts /\ plan.verdicts[a] = Verdict("delete", stored[a] \ stored'[a])]_vars
  BY RemovedAsReviewed
<1> QED
  BY <1>1, <1>2, <1>3, PTL DEF Spec, RemovesOnlyAsReviewed

----------------------------------------------------------------------------
(* Types, with the table of plans and the apply.                            *)

\* The table never holds more plans than it may, each previewed at some instant, and
\* an apply is of at most one plan and of this set's artifacts.
PlansInv ==
  /\ IsFiniteSet(plans) /\ Cardinality(plans) <= MaxPlans
  /\ \A p \in plans : p.created \in Nat
  /\ apply.pc \in {"idle", "decide", "confirm", "remove"}
  /\ apply.going \subseteq Artifacts
  /\ apply.plan = {} \/ \E p : apply.plan = {p}

\* Among numbers there is a least one.
LEMMA Least ==
  ASSUME NEW S, S \subseteq Nat, S # {}
  PROVE  \E n \in S : \A m \in S : n <= m
<1> DEFINE R == OpToRel(<, Nat)
<1>1. IsWellFoundedOn(R, Nat)
  BY NatLessThanWellFounded
<1>2. \A n, m \in Nat : m < n => <<m, n>> \in R
  BY DEF OpToRel
<1> HIDE DEF R
<1>3. PICK n \in S : \A m \in S : <<m, n>> \notin R
  BY <1>1, WFMin
<1>4. ASSUME NEW m \in S PROVE n <= m
  <2>1. m \in Nat /\ n \in Nat
    OBVIOUS
  <2>2. ~(m < n)
    BY <1>2, <1>3, <2>1
  <2> QED
    BY <2>1, <2>2
<1> QED
  BY <1>4

\* Making room leaves room for one more plan.
LEMMA RoomForOne ==
  ASSUME PlansInv
  PROVE  /\ Evicted(plans) \subseteq plans /\ IsFiniteSet(Evicted(plans))
         /\ Cardinality(Evicted(plans)) + 1 <= MaxPlans
<1> DEFINE live == {p \in plans : ~Expired(p, now)}
           IsOldest(p) == \A q \in live : p.created <= q.created
           oldest == CHOOSE p \in live : IsOldest(p)
<1>1. live \subseteq plans /\ IsFiniteSet(plans) /\ Cardinality(plans) <= MaxPlans
      /\ MaxPlans \in Nat \ {0}
  BY PruneBounds DEF PlansInv
<1>2. /\ IsFiniteSet(live) /\ Cardinality(live) <= Cardinality(plans)
      /\ Cardinality(live) \in Nat /\ Cardinality(plans) \in Nat
  BY <1>1, FS_Subset, FS_CardinalityType
<1>3. Evicted(plans) = IF Cardinality(live) < MaxPlans THEN live ELSE live \ {oldest}
  BY DEF Evicted
<1>4. \A p \in live : p.created \in Nat
  BY <1>1 DEF PlansInv
<1> HIDE DEF live
<1>5. CASE Cardinality(live) < MaxPlans
  BY <1>1, <1>2, <1>3, <1>5
<1>6. CASE ~(Cardinality(live) < MaxPlans)
  <2>1. live # {}
    <3>1. Cardinality({}) = 0
      BY FS_EmptySet
    <3> QED
      BY <1>1, <1>6, <3>1
  <2>2. \E p \in live : IsOldest(p)
    <3> DEFINE dates == {p.created : p \in live}
    <3>1. dates \subseteq Nat /\ dates # {}
      BY <1>4, <2>1
    <3>2. PICK n \in dates : \A m \in dates : n <= m
      BY <3>1, Least
    <3>3. PICK p \in live : n = p.created
      BY <3>2
    <3>4. \A q \in live : q.created \in dates
      OBVIOUS
    <3> QED
      BY <3>2, <3>3, <3>4
  <2> HIDE DEF IsOldest
  <2>3. oldest \in live
    BY <2>2
  <2> HIDE DEF oldest
  <2>4. IsFiniteSet(live \ {oldest}) /\ Cardinality(live \ {oldest}) = Cardinality(live) - 1
    BY <1>2, <2>3, FS_RemoveElement
  <2> QED
    BY <1>1, <1>2, <1>3, <1>6, <2>4
<1> QED
  BY <1>5, <1>6

LEMMA DeletionsAreArtifacts ==
  ASSUME NEW records, NEW pol, NEW day, NEW disk
  PROVE  Deletions(PruneDecide(records, pol, day, disk)) \subseteq Artifacts
BY DEF Deletions, PruneDecide, Eligible

LEMMA PlansStep == ASSUME TInv, PlansInv, [Next]_vars PROVE PlansInv'
<1>0. /\ apply = [pc |-> apply.pc, plan |-> apply.plan, day |-> apply.day, going |-> apply.going]
      /\ now \in Nat
  BY HorizonAssumption DEF TInv, Instants
<1>1. CASE UNCHANGED <<plans, apply>>
  BY <1>1 DEF PlansInv
<1>2. CASE PreviewRetention
  <2> DEFINE new == [created |-> now, pol |-> policy, records |-> journal,
                     verdicts |-> PruneDecide(journal, policy, Today, stored)]
  <2>1. plans' = Evicted(plans) \cup {new} /\ apply' = apply
    BY <1>2 DEF PreviewRetention
  <2>2. new.created = now
    OBVIOUS
  <2> HIDE DEF new
  <2>3. /\ Evicted(plans) \subseteq plans /\ IsFiniteSet(Evicted(plans))
        /\ Cardinality(Evicted(plans)) + 1 <= MaxPlans
    BY RoomForOne
  <2>4. IsFiniteSet(plans') /\ Cardinality(plans') <= MaxPlans
    <3>1. /\ IsFiniteSet(Evicted(plans) \cup {new})
          /\ \/ Cardinality(Evicted(plans) \cup {new}) = Cardinality(Evicted(plans))
             \/ Cardinality(Evicted(plans) \cup {new}) = Cardinality(Evicted(plans)) + 1
      BY <2>3, FS_AddElement
    <3>2. Cardinality(Evicted(plans)) \in Nat /\ MaxPlans \in Nat
      BY <2>3, FS_CardinalityType, PruneBounds
    <3> QED
      BY <2>1, <2>3, <3>1, <3>2
  <2>5. \A p \in plans' : p.created \in Nat
    BY <1>0, <2>1, <2>2, <2>3 DEF PlansInv
  <2> QED
    BY <2>1, <2>4, <2>5 DEF PlansInv
<1>3. ASSUME NEW plan \in plans, ApplyRetentionPlan(plan) PROVE PlansInv'
  <2>1. plans' = plans \ {plan}
    BY <1>3 DEF ApplyRetentionPlan
  <2>2. /\ IsFiniteSet(plans') /\ Cardinality(plans') = Cardinality(plans) - 1
        /\ Cardinality(plans) \in Nat /\ MaxPlans \in Nat /\ Cardinality(plans) <= MaxPlans
    BY <2>1, FS_RemoveElement, FS_CardinalityType, PruneBounds DEF PlansInv
  <2>3. Cardinality(plans') <= MaxPlans
    BY <2>2
  <2>4. \A p \in plans' : p.created \in Nat
    BY <2>1 DEF PlansInv
  <2>5. /\ apply'.pc \in {"idle", "decide"} /\ apply'.going = {}
        /\ apply'.plan = {} \/ apply'.plan = {plan}
    BY <1>3 DEF ApplyRetentionPlan, Idle
  <2> QED
    BY <2>2, <2>3, <2>4, <2>5 DEF PlansInv
<1>4. ASSUME NEW plan \in apply.plan,
             Decide(plan) \/ Confirm(plan) \/ \E a \in apply.going : Remove(plan, a)
      PROVE  PlansInv'
  <2>1. plans' = plans
    BY <1>4 DEF Decide, Confirm, Remove
  <2>2. CASE Decide(plan)
    <3> DEFINE going == Deletions(PruneDecide(plan.records, plan.pol, apply.day, stored))
    <3>1. apply' = [apply EXCEPT !.pc = "confirm", !.going = going] /\ going \subseteq Artifacts
      BY <2>2, DeletionsAreArtifacts DEF Decide
    <3> HIDE DEF going
    <3>2. apply'.pc = "confirm" /\ apply'.going = going /\ apply'.plan = apply.plan
      BY <1>0, <3>1
    <3> QED
      BY <2>1, <3>1, <3>2 DEF PlansInv
  <2>3. CASE ~Decide(plan)
    <3>1. \/ apply' = [apply EXCEPT !.going = {}]
          \/ apply' = [apply EXCEPT !.pc = "remove"]
          \/ \E a \in apply.going : apply' = [apply EXCEPT !.pc = "confirm", !.going = @ \ {a}]
      BY <1>4, <2>3 DEF Confirm, Remove
    <3>2. /\ apply'.plan = apply.plan /\ apply'.going \subseteq apply.going
          /\ apply'.pc \in {apply.pc, "remove", "confirm"}
      BY <1>0, <3>1
    <3> QED
      BY <2>1, <3>2 DEF PlansInv
  <2> QED
    BY <2>2, <2>3
<1>5. CASE Finish \/ Restart
  <2>1. plans' = {} /\ apply' = Idle
    BY <1>5 DEF Finish, Restart
  <2>2. IsFiniteSet({}) /\ Cardinality({}) = 0 /\ MaxPlans \in Nat
    BY FS_EmptySet, PruneBounds
  <2> QED
    BY <2>1, <2>2 DEF PlansInv, Idle
<1> QED
  BY <1>1, <1>2, <1>3, <1>4, <1>5
     DEF Next, ServiceStep, ArtifactStep, Commit, ReconcileMissing, Quarantine, Reinstate,
         MoveCopied, MoveEnded, Lose, ChangeConfig, Tick, vars

\* Every variable has the values the actions mean it to have: rows are complete and not
\* of the future, an apply is of at most one plan and of this set's artifacts, and the
\* table of plans never outgrows its limit, whichever plan makes room (retention.go,
\* newRetentionPlan).
THEOREM RetentionTypes == Spec => []TypeOK
<1>1. Init => TInv /\ PlansInv
  <2>1. Init => TInv
    BY InitIInv DEF IInv
  <2>2. IsFiniteSet({}) /\ Cardinality({}) = 0 /\ MaxPlans \in Nat
    BY FS_EmptySet, PruneBounds
  <2>3. Init => PlansInv
    BY <2>2 DEF Init, PlansInv, Idle
  <2> QED
    BY <2>1, <2>3
<1>2. TInv /\ PlansInv /\ [Next]_vars => TInv' /\ PlansInv'
  BY TypeStep, PlansStep
<1>3. TInv /\ PlansInv => TypeOK
  <2> SUFFICES ASSUME TInv, PlansInv PROVE TypeOK
    OBVIOUS
  <2>1. Cardinality(apply.plan) <= 1
    <3>1. Cardinality({}) = 0 /\ \A p : Cardinality({p}) = 1
      BY FS_EmptySet, FS_Singleton
    <3> QED
      BY <3>1 DEF PlansInv
  <2> QED
    BY <2>1 DEF TInv, PlansInv, TypeOK
<1> QED
  BY <1>1, <1>2, <1>3, PTL DEF Spec

====
