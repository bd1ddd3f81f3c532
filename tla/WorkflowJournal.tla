--------------------------- MODULE WorkflowJournal ---------------------------
(***************************************************************************)
(* What the journal keeps of the hook scripts that wrap a backup, and what *)
(* it lets be written over it: internal/state/workflowruns.go and          *)
(* workflowlifecycle.go with the tables of internal/workflow.              *)
(*                                                                         *)
(* A run has a row, each hook of its plan has a row, and each of the two   *)
(* scopes has an obligation: the promise that its "after" hooks will be    *)
(* accounted for.  Every operation is one transaction, which the journal   *)
(* may also refuse because the row it finds does not allow it.             *)
(*                                                                         *)
(* An instant, a reason, a log and the environment of a hook are left out; *)
(* so are the two statuses of a run that only report.  A hook that failed, *)
(* timed out or was cancelled has one state, "failed".                     *)
(***************************************************************************)
EXTENDS Integers, FiniteSets

CONSTANTS
  Runs,   \* the runs a journal may hold, numbered in the order they are made
  Sets,   \* the backup sets
  SetOf,  \* the backup set of each run
  Hooks,  \* the hooks of a plan, numbered in the order of the plan
  Stage   \* the scope and phase each hook belongs to

Scopes == {"global", "set"}
Phases == {"before", "after"}

ASSUME PlanAssumption ==
  /\ Runs \subseteq Nat /\ IsFiniteSet(Runs)
  /\ SetOf \in [Runs -> Sets]
  /\ Hooks \subseteq Nat /\ IsFiniteSet(Hooks)
  /\ Stage \in [Hooks -> [scope : Scopes, phase : Phases]]

VARIABLES
  run,         \* the row of each run
  obligation,  \* the cleanup obligation of each run and scope
  row          \* the row of each hook of each run

journal == <<run, obligation, row>>

RunStates ==
  {"none", "pending", "running", "cleanup_running", "recovery_required",
   "success", "failed", "timed_out", "canceled", "cleanup_failed", "recovered"}
ObligationStates ==
  {"never_eligible", "eligible", "running", "success", "failed",
   "recovery_required", "acknowledged"}
RowStates == {"pending", "running", "success", "failed", "skipped", "interrupted"}

Open == {"pending", "running", "cleanup_running"}
Terminal == RunStates \ (Open \cup {"none", "recovery_required"})
Settled == {"never_eligible", "success", "failed", "acknowledged"}
Outstanding == {"required", "in_progress"}
RunRows ==
  [state : RunStates, recovery : {"none", "resolved"} \cup Outstanding,
   backup : {"unknown", "success", "failed"}]

NoRow == [state |-> "none", recovery |-> "none", backup |-> "unknown"]

JournalInit ==
  /\ run = [r \in Runs |-> NoRow]
  /\ obligation = [r \in Runs |-> [s \in Scopes |-> "never_eligible"]]
  /\ row = [r \in Runs |-> [h \in Hooks |-> "pending"]]

-----------------------------------------------------------------------------
(* The tables.                                                             *)

RunFollows(from, to) ==
  CASE from = "pending" ->
         to \in {"running", "canceled", "failed", "recovery_required"}
    [] from = "running" ->
         to \in {"cleanup_running", "success", "failed", "timed_out", "canceled",
                 "recovery_required"}
    [] from = "cleanup_running" ->
         to \in Terminal \cup {"recovery_required"}
    [] from = "recovery_required" ->
         to \in {"cleanup_running", "recovered", "cleanup_failed"}
    [] OTHER -> FALSE

\* Mutated: only a resume leads out of recovery.
ObligationFollowsResumed(from, to) ==
  CASE from = "never_eligible" -> to = "eligible"
    [] from = "eligible" -> to \in {"running", "recovery_required", "acknowledged"}
    [] from = "running" -> to \in {"success", "failed", "recovery_required"}
    [] from = "recovery_required" -> to = "running"
    [] OTHER -> FALSE

ObligationFollows(from, to) ==
  CASE from = "never_eligible" -> to = "eligible"
    [] from = "eligible" -> to \in {"running", "recovery_required", "acknowledged"}
    [] from = "running" -> to \in {"success", "failed", "recovery_required"}
    [] from = "recovery_required" -> to \in {"running", "acknowledged"}
    [] OTHER -> FALSE

RowFollows(from, to) ==
  CASE from = "pending" -> to \in {"running", "skipped", "failed"}
    [] from = "running" -> to \in {"success", "failed", "interrupted"}
    [] OTHER -> FALSE

-----------------------------------------------------------------------------
(* What is asked of the rows.                                              *)

HooksOf(scope, phase) == {h \in Hooks : Stage[h] = [scope |-> scope, phase |-> phase]}
Unsettled(r) == {s \in Scopes : obligation[r][s] \notin Settled}

\* ObligationsRequiringRecovery, as the sets it blocks.
Owing ==
  {SetOf[r] : r \in {q \in Runs : \E s \in Scopes : obligation[q][s] = "recovery_required"}}

-----------------------------------------------------------------------------
(* The writes: when the journal accepts one, and the rows after it.        *)

\* advanceWorkflowRun: the graph, the recovery axis, which an advance may raise
\* and never settle, and checkTerminalIsAccountedFor.
MayAdvance(r, to) ==
  /\ RunFollows(run[r].state, to)
  /\ to \in Terminal /\ run[r].recovery = "none" => Unsettled(r) = {}
Advanced(r, to) == [run EXCEPT ![r].state = to]
Raised(r, to, recovery) == [run EXCEPT ![r].state = to, ![r].recovery = recovery]

\* ResolveWorkflowRecovery.
MayResolve(r, to) == RunFollows(run[r].state, to) /\ Unsettled(r) = {}
Resolved(r, to) == Raised(r, to, "resolved")

\* advanceObligation.
MayOblige(r, s, to) == ObligationFollows(obligation[r][s], to)
Obliged(r, s, to) == [obligation EXCEPT ![r][s] = to]

\* StartWorkflowStep and FinishWorkflowStep.
MayMark(r, h, to) == RowFollows(row[r][h], to)
Marked(r, h, to) == [row EXCEPT ![r][h] = to]

\* CommitWorkflowPlan: the run, its hooks and its obligations in one.  A run
\* that bypasses its hooks enters no scope.
Committed(r, bypassed) ==
  /\ run' = Advanced(r, "pending")
  /\ obligation' = IF bypassed THEN obligation ELSE [obligation EXCEPT ![r]["global"] = "eligible"]
  /\ UNCHANGED row

-----------------------------------------------------------------------------
(* The reconciliation of one run, decided from its rows alone.             *)

\* finishedRunAdvance: every scope is settled and the run's own row is missing.
Verdict(r) ==
  LET unhappy == {h \in Hooks : row[r][h] \notin {"success", "skipped"}}
  IN IF \/ \E h \in unhappy : Stage[h].phase = "after"
        \/ \E s \in Scopes : obligation[r][s] = "failed"
     THEN "cleanup_failed"
     ELSE IF unhappy # {} \/ run[r].backup = "failed" THEN "failed" ELSE "success"

\* Mutated: a hook gets the state of its scope.
InterruptedAsScope(r) ==
  [h \in Hooks |-> IF row[r][h] = "running" THEN "recovery_required" ELSE row[r][h]]

\* reconcileRun: what an interrupted run's hooks become.
Interrupted(r) ==
  [h \in Hooks |->
     CASE row[r][h] = "running" -> "interrupted"
       [] row[r][h] = "pending"
          /\ ~(Stage[h].phase = "after" /\ Stage[h].scope \in Unsettled(r)) -> "skipped"
       [] OTHER -> row[r][h]]

\* ApplyWorkflowReconciliation: one transaction over the three.
MayReconcile(r) ==
  MayAdvance(r, IF Unsettled(r) = {} THEN Verdict(r) ELSE "recovery_required")

\* Mutated: what a resume that died had not come to is written off.
ReconciledGivingUp(r) ==
  IF Unsettled(r) = {}
  THEN run' = Advanced(r, Verdict(r)) /\ UNCHANGED <<obligation, row>>
  ELSE /\ run' = Raised(r, "recovery_required", "required")
       /\ obligation' = [obligation EXCEPT ![r] =
            [s \in Scopes |-> CASE @[s] = "recovery_required" -> "failed"
                               [] s \in Unsettled(r) /\ @[s] # "recovery_required" -> "recovery_required"
                               [] OTHER -> @[s]]]
       /\ row' = [row EXCEPT ![r] = Interrupted(r)]

Reconciled(r) ==
  IF Unsettled(r) = {}
  THEN run' = Advanced(r, Verdict(r)) /\ UNCHANGED <<obligation, row>>
  ELSE /\ run' = Raised(r, "recovery_required", "required")
       /\ obligation' = [obligation EXCEPT ![r] =
            [s \in Scopes |-> IF s \in Unsettled(r) THEN "recovery_required" ELSE @[s]]]
       /\ row' = [row EXCEPT ![r] = Interrupted(r)]

=============================================================================
