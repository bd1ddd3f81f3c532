---- MODULE RetentionPrune ----
(***************************************************************************)
(* Pruning one backup set: an operator previews a plan and applies it      *)
(* (core/service/retention.go over internal/app/prune.go and               *)
(* internal/retention/prune.go) while time passes, artifacts are           *)
(* committed, quarantined and moved, the configuration is edited and files *)
(* disappear.                                                              *)
(*                                                                         *)
(* A prune writes nothing to the journal: the row of what it removed stays *)
(* as it is until a reconciliation finds the file gone.  So every later    *)
(* decision is taken over rows some of which have nothing behind them.     *)
(***************************************************************************)
EXTENDS RetentionSelection

CONSTANTS
  Mediums,        \* where a copy may be, among them
  Local,          \* the backup set's own directory
  ProducerTimes,  \* what the remote may report as modification time of each artifact
  TTL,            \* how long a previewed plan can be applied
  MaxPlans,       \* how many previewed plans are held
  Elsewhere,      \* does another process run cycles over this journal?
  MaxEvents       \* bound: policies edited, files lost, copies distrusted, moves begun

ASSUME PlaceAssumption == Local \in Mediums
ASSUME ProducerAssumption == ProducerTimes \in [Artifacts -> SUBSET (Instants \cup {NoTime})]
ASSUME PruneBounds ==
  /\ TTL \in Nat /\ MaxPlans \in Nat \ {0} /\ Elsewhere \in BOOLEAN
  /\ MaxEvents \in Nat

VARIABLES
  now,      \* the clock
  policy,   \* the retention settings of the configuration in force
  journal,  \* the row of each artifact
  stored,   \* the mediums that hold a readable copy of each artifact
  plans,    \* the previewed plans that can still be applied
  apply,    \* the apply under way
  trouble,  \* policies edited, files lost from outside, copies distrusted
  moves     \* moves begun

bounds == <<trouble, moves>>
vars == <<now, policy, journal, stored, plans, apply, bounds>>

Today == DayOf[now]

Absent == [state |-> "absent", discovered |-> NoTime, producer |-> NoTime, active |-> {}]

----------------------------------------------------------------------------
(* What a plan says of an artifact: keep it, delete it from where it is, or *)
(* refuse to touch it.                                                      *)

Verdict(action, at) == [action |-> action, at |-> at]

\* ActiveMediumFromRecords: one ACTIVE placement is where the copy is, none says
\* nothing and means the directory, several are a move under way.
Contested(row) == Cardinality(row.active) > 1
\* A verdict's Medium; a contested one names none.
Where(row) == IF Contested(row) THEN {} ELSE IF row.active = {} THEN {Local} ELSE row.active

\* Is there no readable copy of the restore point the protection is about?  A copy
\* on a medium is taken from its row, as is one that is being moved.
Unconfirmed(records, pol, disk) ==
  \E a \in LastKnownGood(records, pol) :
    Where(records[a]) = {Local} /\ Local \notin disk[a]

\* pruneEvaluate, and pruneHoldEveryDelete over its answer.
Evaluate(records, keep, disk, held, a) ==
  LET at == Where(records[a]) IN
  IF a \in keep THEN Verdict("keep", at)
  ELSE IF held \/ Contested(records[a]) \/ (at = {Local} /\ Local \notin disk[a])
       THEN Verdict("refuse", at)
  ELSE Verdict("delete", at)

PruneDecide(records, pol, today, disk) ==
  LET keep == DecideKeep(records, pol, today)
      held == Unconfirmed(records, pol, disk)
  IN [a \in Eligible(records) |-> Evaluate(records, keep, disk, held, a)]

Deletions(verdicts) == {a \in DOMAIN verdicts : verdicts[a].action = "delete"}

----------------------------------------------------------------------------
(* The service.                                                             *)

\* An apply that is not under way.
Idle == [pc |-> "idle", plan |-> {}, day |-> 0, going |-> {}]

Init ==
  /\ now = 0
  /\ policy \in Policies
  /\ journal = [a \in Artifacts |-> Absent]
  /\ stored = [a \in Artifacts |-> {}]
  /\ plans = {}
  /\ apply = Idle
  /\ trouble = 0 /\ moves = 0

Expired(plan, t) == t > plan.created + TTL

\* Mutated: only what expired makes room.
EvictedExpired(held) == {p \in held : ~Expired(p, now)}

\* newRetentionPlan: drop what expired, then the oldest while the table is full.
Evicted(held) ==
  LET live == {p \in held : ~Expired(p, now)} IN
  IF Cardinality(live) < MaxPlans THEN live
  ELSE live \ {CHOOSE p \in live : \A q \in live : p.created <= q.created}

PreviewRetention ==
  /\ plans' = Evicted(plans) \cup
       {[created |-> now, pol |-> policy, records |-> journal,
         verdicts |-> PruneDecide(journal, policy, Today, stored)]}
  /\ UNCHANGED <<now, policy, journal, stored, apply, bounds>>

\* Mutated: the journal and the settings are compared, the verdicts are not.
InputsUnchanged(plan) ==
  /\ ~Expired(plan, now)
  /\ policy = plan.pol /\ journal = plan.records

\* The settings and the rows are those of the preview, and a second derivation says
\* what the first said.
Unchanged(plan) ==
  /\ ~Expired(plan, now)
  /\ policy = plan.pol /\ journal = plan.records
  /\ PruneDecide(journal, policy, Today, stored) = plan.verdicts

\* The cycle lock is taken, and the plan with it, so nobody applies it again; one
\* that is stale is gone for nothing.
ApplyRetentionPlan(plan) ==
  /\ apply.pc = "idle"
  /\ plans' = plans \ {plan}
  /\ apply' = IF Unchanged(plan)
              THEN [pc |-> "decide", plan |-> {plan}, day |-> Today, going |-> {}]
              ELSE Idle
  /\ UNCHANGED <<now, policy, journal, stored, bounds>>

\* PruneApply decides once more, over the same records, settings and day and over
\* the disk as it is.
Decide(plan) ==
  /\ apply.pc = "decide" /\ apply.plan = {plan}
  /\ apply' = [apply EXCEPT !.pc = "confirm",
                 !.going = Deletions(PruneDecide(plan.records, plan.pol, apply.day, stored))]
  /\ UNCHANGED <<now, policy, journal, stored, plans, bounds>>

\* Before each removal: is the restore point still there?  If not, this one and all
\* that follow are held.
Confirm(plan) ==
  /\ apply.pc = "confirm" /\ apply.plan = {plan} /\ apply.going # {}
  /\ apply' = IF Unconfirmed(plan.records, plan.pol, stored)
              THEN [apply EXCEPT !.going = {}]
              ELSE [apply EXCEPT !.pc = "remove"]
  /\ UNCHANGED <<now, policy, journal, stored, plans, bounds>>

\* The removal: a file that is still there as one, or an object its medium still
\* has; whatever else is found is left alone.
Remove(plan, a) ==
  /\ apply.pc = "remove" /\ apply.plan = {plan}
  /\ a \in apply.going /\ \A b \in apply.going : a <= b
  /\ apply' = [apply EXCEPT !.pc = "confirm", !.going = @ \ {a}]
  /\ \/ /\ Where(plan.records[a]) \subseteq stored[a]
        /\ stored' = [stored EXCEPT ![a] = @ \ Where(plan.records[a])]
     \/ UNCHANGED stored
  /\ UNCHANGED <<now, policy, journal, plans, bounds>>

\* The set's other plans describe files that may be gone.
Finish ==
  /\ apply.pc = "confirm" /\ apply.going = {}
  /\ apply' = Idle
  /\ plans' = {}
  /\ UNCHANGED <<now, policy, journal, stored, bounds>>

\* The process dies, and the plans it held with it.
Restart ==
  /\ plans # {} \/ apply.pc # "idle"
  /\ plans' = {} /\ apply' = Idle
  /\ UNCHANGED <<now, policy, journal, stored, bounds>>

----------------------------------------------------------------------------
(* Around it.                                                               *)

\* A cycle of this process and an apply exclude each other; another process's
\* cycle knows nothing of the lock.
CycleMayRun == Elsewhere \/ apply.pc = "idle"

\* An artifact that was discovered, maybe a while ago, is committed.
Commit(a) ==
  /\ CycleMayRun
  /\ journal[a].state = "absent"
  /\ \E d \in 0..now, t \in ProducerTimes[a] :
       journal' = [journal EXCEPT ![a] = [state |-> "managed", discovered |-> d,
                                          producer |-> t, active |-> {Local}]]
  /\ stored' = [stored EXCEPT ![a] = {Local}]
  /\ UNCHANGED <<now, policy, plans, apply, bounds>>

\* Reconciliation finds a managed artifact whose file is gone.
ReconcileMissing(a) ==
  /\ CycleMayRun
  /\ journal[a].state = "managed" /\ journal[a].active = {Local} /\ Local \notin stored[a]
  /\ journal' = [journal EXCEPT ![a].state = "missing"]
  /\ UNCHANGED <<now, policy, stored, plans, apply, bounds>>

\* Or one whose file is not what was recorded.
Quarantine(a) ==
  /\ CycleMayRun /\ trouble + moves < MaxEvents
  /\ journal[a].state = "managed" /\ Local \in journal[a].active \cap stored[a]
  /\ journal' = [journal EXCEPT ![a].state = "quarantined"]
  /\ trouble' = trouble + 1
  /\ UNCHANGED <<now, policy, stored, plans, apply, moves>>

\* An operator takes a quarantine back, at any time.
Reinstate(a) ==
  /\ journal[a].state = "quarantined" /\ Local \in stored[a]
  /\ journal' = [journal EXCEPT ![a].state = "managed"]
  /\ UNCHANGED <<now, policy, stored, plans, apply, bounds>>

\* A move: both copies are listed, then one.
MoveCopied(a) ==
  /\ CycleMayRun /\ trouble + moves < MaxEvents
  /\ journal[a].state = "managed" /\ Cardinality(journal[a].active) = 1
  /\ journal[a].active \subseteq stored[a]
  /\ \E m \in Mediums \ journal[a].active :
       /\ journal' = [journal EXCEPT ![a].active = @ \cup {m}]
       /\ stored' = [stored EXCEPT ![a] = @ \cup {m}]
  /\ moves' = moves + 1
  /\ UNCHANGED <<now, policy, plans, apply, trouble>>
MoveEnded(a) ==
  /\ CycleMayRun
  /\ journal[a].state = "managed" /\ Contested(journal[a])
  /\ \E m \in journal[a].active \cap stored[a] :
       /\ journal' = [journal EXCEPT ![a].active = {m}]
       /\ stored' = [stored EXCEPT ![a] = @ \cap {m}]
  /\ UNCHANGED <<now, policy, plans, apply, bounds>>

ChangeConfig ==
  /\ trouble + moves < MaxEvents
  /\ policy' \in Policies \ {policy}
  /\ trouble' = trouble + 1
  /\ UNCHANGED <<now, journal, stored, plans, apply, moves>>

\* A file disappears from the directory.
Lose(a) ==
  /\ trouble + moves < MaxEvents
  /\ Local \in stored[a]
  /\ stored' = [stored EXCEPT ![a] = @ \ {Local}]
  /\ trouble' = trouble + 1
  /\ UNCHANGED <<now, policy, journal, plans, apply, moves>>

Tick ==
  /\ now < Horizon
  /\ now' = now + 1
  /\ UNCHANGED <<policy, journal, stored, plans, apply, bounds>>

ServiceStep ==
  \/ PreviewRetention
  \/ \E plan \in plans : ApplyRetentionPlan(plan)
  \/ \E plan \in apply.plan :
       Decide(plan) \/ Confirm(plan) \/ \E a \in apply.going : Remove(plan, a)
  \/ Finish \/ Restart

ArtifactStep(a) ==
  \/ Commit(a) \/ ReconcileMissing(a) \/ Quarantine(a) \/ Reinstate(a)
  \/ MoveCopied(a) \/ MoveEnded(a) \/ Lose(a)

Next == ServiceStep \/ (\E a \in Artifacts : ArtifactStep(a)) \/ ChangeConfig \/ Tick

Spec == Init /\ [][Next]_vars

----------------------------------------------------------------------------
(* What pruning promises.                                                   *)

Rows ==
  [state : {"absent", "managed", "missing", "quarantined"},
   discovered : Instants \cup {NoTime}, producer : Instants \cup {NoTime},
   active : SUBSET Mediums]

\* Every variable has the values the actions mean it to have.
TypeOK ==
  /\ now \in Instants
  /\ policy \in Policies
  /\ journal \in [Artifacts -> Rows]
  /\ \A a \in Artifacts :
       journal[a].state # "absent" => journal[a].discovered \in 0..now
  /\ stored \in [Artifacts -> SUBSET Mediums]
  /\ apply.pc \in {"idle", "decide", "confirm", "remove"}
  /\ apply.going \subseteq Artifacts
  /\ Cardinality(plans) <= MaxPlans /\ Cardinality(apply.plan) <= 1

\* The journal as it would be had nothing been pruned.
AsIfNothingPruned ==
  [a \in Artifacts |->
     IF journal[a].state = "missing" THEN [journal[a] EXCEPT !.state = "managed"]
     ELSE journal[a]]

\* Pruning does not depend on when it is done: what the policy would keep today if
\* nothing had ever been pruned is there, at every place its row names.  Only an
\* edit of the policy, a quarantine or a loss from outside is an excuse (gfs.go;
\* bucketkey.go, gfsProducerInstant; prune.go, PruneApply).
KeepsPromised ==
  trouble = 0 =>
    \A a \in DecideKeep(AsIfNothingPruned, policy, Today) :
      /\ journal[a].state = "managed"
      /\ journal[a].active # {} /\ journal[a].active \subseteq stored[a]

\* A step that ends in fewer copies because of an apply removes what its operator
\* was shown as a deletion, from the place he was shown (retention.go,
\* ApplyRetentionPlan).
RemovesOnlyAsReviewed ==
  [][\A a \in Artifacts : apply.pc = "remove" /\ stored'[a] # stored[a] /\ trouble' = trouble
                          /\ journal' = journal =>
       \E plan \in apply.plan :
         a \in DOMAIN plan.verdicts /\ plan.verdicts[a] = Verdict("delete", stored[a] \ stored'[a])]_vars

====
