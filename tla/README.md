# retnd in TLA+

Specifications of [retnd](../src), the backup manager that pulls artifacts from
remote servers, verifies and durably stores them, and only then deletes them at
the source. Paths below are relative to `src/`; `I/` stands for
`core/internal/`.

The question everything here serves is the one the program exists for: **is the
source ever deleted while it is the only good copy?** Around it are the
questions a careful reader of the code asks next: does a record ever promise
what is not on disk, does every artifact get somewhere, and what of this
survives a crash, a power loss, a second process, or an operator in a hurry.

Three more questions of the same kind joined them: **does pruning ever take what the
policy would keep**, **is what a backup set advertises as its restore point one
that was proved good**, and **is what the hooks around a backup have set up always
taken down again, once, or handed to a person**.

## Contents

1. [The system](#the-system)
2. [Modules](#modules)
3. [The artifact pipeline](#the-artifact-pipeline)
4. [The placement moves](#the-placement-moves)
5. [Retention](#retention)
6. [The snapshot lifecycle](#the-snapshot-lifecycle)
7. [Repository maintenance](#repository-maintenance)
8. [Workflow hooks](#workflow-hooks)
9. [What is checked](#what-is-checked)
10. [What is proved](#what-is-proved)
11. [Where code and documentation disagree](#where-code-and-documentation-disagree)
12. [What is left out](#what-is-left-out)
13. [Not modelled, and next](#not-modelled-and-next)

## The system

One deployment is a SQLite journal, a configuration file, a directory per backup
set, and any number of processes over them: the daemon (`I/app/daemon.go`), the
engine behind the web API (`core/service`), and CLI commands run beside them
(`core/cmd/retnd`). Within one process the service runs one cycle at a time;
between processes only the journal's transactions exclude anything.

| component | state it keeps | operations | hard behaviour | correct when |
|---|---|---|---|---|
| lifecycle graph (`I/lifecycle/state.go`, `machine.go`) | the transition table | `Validate` | none of its own | every write goes along a declared edge |
| artifact pipeline (`I/lifecycle`, `I/app/pipeline.go`, `cycle.go`) | a journal row per artifact, its `.partial` and final file, the remote object | transfer, verify, commit, retain, delete | crash between any two calls, power loss, replayed keys, two processes | the source is deleted only against a durable copy of its own bytes; every artifact settles |
| operator verbs (`I/app/quarantineactions.go`, `validate.go`) | none | retry, in-place completion, reinstate, validate, release | read, judge and write with a cycle running in between | distrusted bytes are trusted again only on evidence, and never authorise a deletion |
| discovery (`I/discovery`) | the identity of each object as first seen | list, match, record | the producer is still writing, or replaces the object | the identity deleted later is the one seen here |
| reconciliation (`I/reconcile`) | none | compare a row with the file and the remote | interrupted deletions, half-recorded sizes | a row never claims more than the disk and the remote bear out |
| state journal (`I/state`) | artifacts, the append-only transition log, placements, moves, snapshot runs, workflow runs, operations | `RecordTransition`, queries | idempotency keys as replays, mismatched states | one write per key, none against a state that moved |
| placement moves (`I/placement`, `I/state/moves.go`) | a phase per move, a placement per medium | plan, copy, verify, intend, delete, abandon | crash between a side effect and its phase, stale proof, destination lost | an ACTIVE, verified copy exists at every moment |
| retention (`I/retention`, `I/app/prune.go`, `core/service/retention.go`) | the previewed plans; the decision itself is recomputed from the journal | grandfather-father-son selection, preview, apply | rows without a file, a plan that is stale when applied, deletion beside a move | what the policy would keep is there, whenever and however often it was pruned before |
| repository maintenance (`I/repomaintenance`, `I/backupengine/maintenanceowner.go`) | the in-process fence and lease, the ownership record | claim, transfer, run a window | fairness, cancellation of a waiter, compare-and-swap without a lock | no full window beside a deletion; one record, one owner |
| snapshot lifecycle (`I/snapshotlifecycle`, `I/snapshotretention`, `I/app/snapshotcycle.go`) | a run row per snapshot, last-known-good, holds | run, reconcile, delete | repository and catalog disagree after a crash | only verified, complete snapshots are advertised, and the advertisement comes back |
| workflow hooks (`I/workflowrun`, `I/state/workflowruns.go`, `workflowlifecycle.go`) | run, step and obligation rows, the set lock, the holds | run in five stages, startup pass, resume, acknowledge | crash between any two writes, a refused write, cancellation, a resume that dies | cleanup that is owed is on record, runs once, and only a person writes it off |
| executors (`I/workflowexec`, `I/hostrunner`, `I/remoteexec`) | processes, SSH sessions | execute a step | lost connections | report certainty honestly |
| service (`core/service`) | three file locks, the loaded configuration, operations | start, adopt a configuration, submit an operation | start-up of two processes, stale revisions | one start-up at a time, no journal replaced under a reader |
| transport (`I/transport`) | none | stat, list, copy, hash, delete | retries, false success | classified errors |
| archive restore (`I/archive`) | restore requests | ask, wait | the window of availability | never counts an unreadable copy |
| authentication (`apps/common/auth/local`) | administrator record, sessions | enrol, sign in | two enrolments at once | one administrator |
| capacity, alerts, health, metrics, recovery manifests, configuration, web host, CLI, UI, packaging | read models or none | | | |

How they meet: `RunCycle` (`I/app/cycle.go`) takes the configured sets in order
and for each runs reconciliation, then discovery, then lists the set's rows and
walks every artifact through the pipeline; retention, moves and alerts follow.
All of them communicate through the journal alone. The operator's verbs write the
same rows from other goroutines or other processes. The remote directory belongs
to a producer that knows nothing of the manager.

## Modules

| module | models | lines of code it stands for |
|---|---|---|
| `LifecycleGraph` | the states, the transition table and the sets derived from it | `I/lifecycle/state.go`, `machine.go`, part of `quarantine.go` |
| `ArtifactPipeline` | one artifact, the processes that work on it, the operator, the producer, the faults | `I/lifecycle`, `I/app`, `I/reconcile`, `I/discovery`, `I/state` |
| `Custody` | the abstract promise: source, held copy, deletion | what `ArtifactPipeline` is shown to implement |
| `ArtifactPipelineProofs` | theorems about `ArtifactPipeline` | |
| `CustodyProofs` | theorems about `ArtifactPipeline` and `Custody`: nothing is deleted but what is held, and what is true of one process | |
| `MCArtifactPipeline` | the instances TLC checks | |
| `PlacementMove` | the moves of one artifact between storage mediums, the engines that carry them out, what changes around them | `I/placement`, `I/state/moves.go`, `I/archive/sourcedelete.go`, `I/app/tierguard.go` |
| `Safekeeping` | the abstract promise: the good copies of an artifact come and go, and one is left | what `PlacementMove` is shown to implement |
| `PlacementMoveProofs` | theorems about `PlacementMove` | |
| `MCPlacementMove` | the instances TLC checks | |
| `RetentionSelection` | which artifacts a policy keeps on a day: tiers, buckets, windows, the last known good | `I/retention/gfs.go`, `gfs_chain.go`, `bucketkey.go`, `lastknowngood.go` |
| `RetentionPrune` | previews and applies of one backup set, and what else happens to its artifacts | `I/retention/prune.go`, `I/app/prune.go`, `I/app/homemedium.go`, `core/service/retention.go` |
| `RetentionProofs` | theorems about both | |
| `MCRetentionPrune` | the instance TLC checks | |
| `SnapshotCatalog` | the run rows of one set and the journal's operations on them | `I/state/snapshots.go`, `snapshotholds.go`, `I/snapshotlifecycle/phases.go` |
| `SnapshotRun` | cycles, retention, holds and faults over the catalog and a repository | `I/snapshotlifecycle`, `I/snapshotretention`, `I/app/snapshotcycle.go`, `snapshotsurface.go` |
| `RestorePoint` | the abstract promise of what a set advertises | what `SnapshotRun` is shown to implement |
| `SnapshotProofs` | theorems about `SnapshotRun` | |
| `MCSnapshotRun` | the instance TLC checks | |
| `MaintenanceFence` | the fair gate of a repository and the lease of its windows | `I/repomaintenance/fence.go` |
| `OwnershipStore` | the record of a repository as files without a lock | `I/backupengine/maintenanceowner.go` |
| `RepositoryMaintenance` | windows, deletions and transfers of several instances over both | `I/repomaintenance/run.go`, `schedule.go` |
| `OwnedRecord` | the abstract promise: one record that changes hands only by transfer | what `RepositoryMaintenance` is shown to implement |
| `RepositoryMaintenanceProofs` | theorems about `RepositoryMaintenance`: the fence, the lease, the one record, what is still due | |
| `MCRepositoryMaintenance` | the instances TLC checks | |
| `WorkflowJournal` | the rows of the runs, their hooks and their cleanup obligations, and what the journal lets be written over them | `I/state/workflowruns.go`, `workflowlifecycle.go`, `I/workflow/states.go` |
| `WorkflowRun` | the runs of hooks, the startup pass and the operator's two ways out of recovery | `I/workflowrun`, part of `core/service/workflowengine.go` |
| `WorkflowRunProofs` | theorems about `WorkflowRun`: types, one start per hook, cleanup owed | |
| `WorkflowRecoveryProofs` | theorems about `WorkflowRun`: who clears a scope in recovery, and that success is earned | |
| `MCWorkflowRun` | the instances TLC checks | |

The first two models meet in the artifact's placements: the pipeline writes the first one,
`local`, when it commits, and never moves an artifact that has none; a move starts
from COMPLETE only, where the pipeline is done. So `PlacementMove` starts where
`ArtifactPipeline` ends, and the one thing the rest of the program still does to
such an artifact, quarantine by reconciliation and reinstatement, is an action of it.

`RetentionPrune` takes both as its surroundings: it knows of an artifact what its row
and its copies look like between their steps, and what they do to it is `Commit`,
`ReconcileMissing`, `Quarantine`, `Reinstate`, `MoveCopied` and `MoveEnded`. The snapshot
lifecycle and repository maintenance belong to the other kind of backup set, whose
data is in a repository; they share no state with the first three. They meet each
other at the fence: a deletion by retention runs under the shared side
(`I/repomaintenance/fence.go:391`), which is `StartDelete` and `FinishDelete`. The hooks
are wrapped around either kind: to them the backup is a call with a result (`Backup`),
and they share neither rows nor files with it.

## The artifact pipeline

**State.** `row` is the artifact's journal row; `log` is what the append-only
transition log answers when the code asks it: which idempotency keys are used and
for which state, whether a reinstatement was ever recorded, which durable state
the newest quarantine left, and whether this stay at TRANSFERRING was charged.
`disk` holds the two file names with the facts durability depends on: whether
both name one file (`same`), whether the `.partial`'s content is flushed (`synced`)
and whether the directory is (`safe`). `remote` is the object at the path. `job`
is, per process, where its walk is, the attempt number its keys are built from,
the read-only setting its cycle started with, and the record and content it has
read and not yet used. `op` is the operator verb in flight. `past`, `destroyed`,
`damaged`, `faults` and `ops` are history and bounds.

**Steps.** A step ends wherever another actor can come between two calls.
`DeleteRemote`, say, is `DeleteLook` (the gates), `DeleteIntent`, `DeleteStat`,
`DeleteCall` and `DeleteRefuse` or `DeleteComplete`; `Commit` is `CommitBegin`,
`CommitLink`, `CommitUnlink`, `CommitSync`, `CommitRecord`. Calls between which
nothing shared is read or written are one step. All writes go through `Advance`,
which is `RecordTransition` behind `Validate`: applied, a replay that writes
nothing and succeeds, a key reused for another state, a state that moved on, or
an undeclared edge. `AdvanceAndDispatch` is the tail of each stage in
`processArtifact`, which goes on with the record the write returned and never
returns to an earlier stage in the same pass.

**Data.** A content is a version the producer wrote, a torn copy or a mangled
copy of the right size. Sizes are "full" or "short", a hash is the content itself.
Idempotency keys are the attempt number and the step; keys that carry a time or
the row's own version are fresh by construction.

**Environment.** A process may die between any two steps. A power loss ends all of
them and may take back what was not flushed: an unsynced `.partial` tears or
vanishes, and a link or unlink not followed by a directory fsync is undone, last
first. The journal survives (`synchronous=FULL`, `I/state/state.go:102-123`). A call may
fail, or report success falsely. The final file may be damaged from outside, and
put back. The producer may replace or remove the object, also between the look at
the object and its deletion where a run says so (`race`).

**Abstractions to know about.**

- `Discover` may happen at any time, not only inside a cycle: a superset of what
  the cycle does.
- The gates that end a pass without writing (capacity, the safety delay of a
  `stable` set, cancellation) are `Crash`: nothing is written and the walk ends.
- A remote identity is the version. Size, mtime and backend id, with which
  `CompareIdentity` approximates it, are not told apart.
- The producer never puts the same version back at the path.
- One backup set, one artifact: artifacts share nothing but the directory, where
  their names differ, and the journal, where their rows and keys do.
- Two walks of one artifact at a time need two processes: `runOnce`
  (`core/service/operations.go:428`) lets one cycle run per service, and
  `I/lifecycle/transfer.go:387-392` names the second live attempt as a case.

**`Mutated:` definitions.** Each is the definition that follows it with one slip in
it, the kind a change to that code could make. No action uses them. Substituting
one makes the property it is listed with fail, which is how we know the property
looks at the code at all.

## The placement moves

**State.** `moves` is the journal's table of moves, `place` the artifact's placement
on each medium (its status and the verification class it was recorded at), `state`
the artifact's lifecycle state. `objs` is the copy that really is on each medium:
good, bad, or none. `staged` is the local staging copy of a move between two mediums
neither of which is the backup set's directory. `wanted` is what the tier guard would
answer, `archived` the mediums from which an object could not be read without a
restore. `job` is, per engine, the move it walks and what it holds between two
calls: the phase it last wrote (which its next write compares), the copies tried in
this cycle, whether it has the identity of the object it read back (`known`), whether
that object is untouched since (`still`), what its look at the journal and its
second look at the destination gave (`sound`, `readable`). `hurt`, `faults` and
`changes` are history and bounds.

**Steps.** `RunCycle` is `Resume` and `Plan`; `advance` is the dispatch on `job.phase`
at `pc = "phase"`. The happy path is `StartCopy`, `CopyBegin`, `CopyToMedium` (or
`CopyToLocal`, or `Stage`, `SendStaged`, `Unstage`), `CopyRecord`, `StartVerify`,
`Identify`, `VerifyRead`, `VerifyPass`, `IntendDelete`, `DeleteLook`,
`ReverifyForDelete`, `GuardSourceDelete`, `RemoveSource`, `RecordDone`. The ways
back are `Recopy` and `Abandon`, each with `Discard` and `DiscardRecord` after
it. Every write goes through `AdvanceMove`, the compare-and-set of `I/state/moves.go`
with its placements in the same transaction; a write that finds the
move elsewhere ends the walk like a call that fails (`Crash`). A walk that ends with an error ends the cycle for that move
(`Stop`); the note it leaves on the row changes no phase and no placement.

**What is asked of the destination.** `VerifyRead` is the gated verification:
refused for good on an archive class, otherwise a pass or a reason to copy again.
`ReverifyForDelete` is not gated: it spends the read-back of this cycle if it was
identified and the object looks the same, else reads again, and distinguishes a
wrong copy (`recopy`) from one that cannot be read (`readable = FALSE`, which only
a source that is already gone gets past). A medium that attests is asked for its
checksum, which an archived object still has, so `Unreadable` is about mediums read
back in full.

**Environment.** A process dies, a call fails or loses its answer, a transfer
delivers other bytes, a copy is damaged from outside, the tiers move, a storage class
changes, reconciliation quarantines, an operator reinstates.

**Abstractions to know about.**

- A bad source copy has the recorded size or another one: `GuardSourceDelete` may go on or
  refuse. As in the code, nobody reads the source before it is deleted.
- Whether a read-back counts (`ProofHolds`) is the identity of the object. Rot that
  changes neither size, time nor backend identity is not modelled; the code accepts
  it for two minutes (`predelete.go:153`). The age limit itself is the choice between
  the first and the second disjunct of `ReverifyForDelete`.
- A read of the journal and the write that follows it are one step where the write
  compares the phase the read saw; the read that serves `deleteSource`
  (`DeleteLook`) and those of the guard are steps of their own.
- One artifact: moves of different artifacts share nothing but the cycle's budget.
- An artifact without a recorded hash is not eligible to move and is left out.

## Retention

**The selection.** A tier is a bucket, a unit and a number of units. Which days share a
bucket, and how many units ago a day was, both follow from the first days of the units
(`FirstDays`), and that is all the module asks of a calendar. `Representatives` is
`gfsSelectRepresentatives`: of each bucket in the span the newest artifact, by either of
its two dates; `GFSDecide` is the union over tiers and dates. `Occurred` is
`gfsProducerInstant`: the producer's own timestamp counts unless it is missing or later
than the discovery. `LastKnownGood` is the newest restore point, whatever its age.

**State.** `journal` is the row of each artifact as a prune reads it: a state, two dates,
the mediums with an ACTIVE placement. `stored` is where a readable copy really is: a
prune writes nothing to the journal, so the row of what it removed stays until
reconciliation finds the file gone, and every decision in between is taken over rows
some of which have nothing behind them. `plans` are the previews held in memory,
`apply` the one under way with the plan it was given. `trouble`, `moves` and `blind`
are bounds and history.

**Steps.** `PreviewRetention` reads rows and disk, decides, and keeps the result, after
making room. `ApplyRetentionPlan` takes the cycle lock and the plan, and goes on only if
settings, rows and verdicts are those of the preview. `Decide` is the second
`PruneDecide` inside `PruneApply`; then for each artifact to go `Confirm` (is the restore
point still there?) and `Remove` (the checks on the file or object, and the
removal). `Finish` drops the set's other plans; `Restart` drops everything in memory.
With `Elsewhere` another process, which knows nothing of this one's lock, runs cycles
meanwhile.

**Abstractions to know about.**

- The four lifecycle states a restore point may be in are one, `"managed"`.
- A verdict is an action and a place. Reasons, tier names and the home medium's moves,
  which the reviewed revision also fingerprints, are left out: they refuse more.
- A preview reads the journal and the disk in one step; the claim of a plan and the
  comparison are one step; a move is two (`MoveCopied`, `MoveEnded`).
- The rows are compared, where the code compares a hash over them.
- A file that disappeared does not come back by itself; only a copy on the set's own
  medium disappears. The civil date does not go back as instants advance, which is not
  so in zones that set the clock back across midnight.

## The snapshot lifecycle

**State.** `row` is the catalog: per run its phase, the manifest it claims, what is known of
the source's coverage and of the verification, the last-known-good mark, the intent to
delete. `held` are the runs under a hold, `repo` the manifests that are in the
repository. `job` is where each cycle is and what it read at its start; `pass` the
retention pass. `whole`, `proved`, `removed` and `lost` are history.

**Steps.** A cycle (`CycleStep`) is `Reconcile` and then `TakeSnapshot`. Reconciliation
lists the repository, reads who claims what, settles the unfinished runs (`Abandon`,
`Adopt`, `TakeUp`, `CompleteCommit`), then the finished ones (`ResolveFinished`),
what nobody accounts for (`BeginQuarantine`, `Quarantine`) and the restore point
(`Repoint`). A run goes through the phases of `phases.go`, one write each. Every write
is checked against the row as the cycle remembers it and again, in the journal, against
the row as it is. Retention is `Plan` and then, for each snapshot, `Recheck`, `Mark`,
`DeleteManifest` and `RecordDeleted`.

**Environment.** Cycles and the pass die between any two calls. A call may be carried out
with its answer lost. Somebody else removes a manifest, or stores one under the set's
identity. The operator places and releases holds.

**Abstractions to know about.** Which tiers keep what is any subset of the snapshots in
scope (`timeline.go` reuses the selection of `RetentionSelection`). One backup set, one
domain. The verification an operator asks for is left out: it writes only a verification
status, which `InScope` reads. Outside tests only the preview of a retention plan
is reachable today: `Pruner.Apply` has no caller yet, and is modelled as its
documentation and tests use it.

## Repository maintenance

**State.** `gates` is what the mutex of each process's gate guards: how many are inside on
the shared side, whether one is on the exclusive side, the queue. `granted` are the
closed channels, `spot` where each goroutine is. `runs`, `lease`, `using` and `turn` are
the lease that serialises windows: an object found or made per repository and forgotten
when nobody wants it, so it has an identity. `files` is the directory of record files,
one per revision, and `call` how far each writer is in `Load`, `Create` or
`CompareAndSwap`, which are sequences of directory calls without a lock.

**Steps.** A pass deletes a snapshot (`StartDelete`, `FinishDelete`) or runs a window:
lease, claim (read, create, read again), decision, fence, maintenance, record. `GiveUp`
is a cancellation, which may come while the section is being granted; `Leave` gives back
what was granted meanwhile. An administrator's `Transfer` reads, compares the owner,
swaps. An instance may die (`Crash`).

**Abstractions to know about.** A gate nobody is in or waits at equals a new one, so that
forgetting it changes nothing. The listing of the directory is one step.
`ForgetOlder` removes any subset of the lower revisions. Measurements, history and
counters of a window are left out. `Fence` and `Runner` have no caller outside
tests yet and are modelled by what those and their documentation do with them.

## Workflow hooks

**State.** `WorkflowJournal` has the three tables: `run` (the state of a run, its recovery axis,
the outcome of its backup), `row` (one per hook of the plan) and `obligation` (one per
scope, global and set: the promise that the scope's "after" hooks will be accounted for).
Its writes are given as what is asked of the rows (`MayAdvance`, `MayOblige`, ...) and
the rows after them. `WorkflowRun` adds the process: `phase` is where its startup pass
is, `holds` the sets it refuses, `asked` the requests that were looked at and have no
lock yet, and `work` what each set is doing under its lock: a run, a resume or an
acknowledgement, the stage it is at, the hooks it has left and what went wrong so far.
`started` and `good` are history; `faults` and `resumes` bounds.

**Steps.** `BeginRun` commits the plan (`CommitWorkflowPlan`, with the global scope
eligible). Then the stages of `executeRun`: the hooks before, scope by scope
(`BeforeHook`, `HookEnds`, `BeforeDone`), with `EnterSetScope` recording the second scope
before its first hook; `Backup`; and the cleanup, inner scope first (`CleanupStarts`,
`TakeUp`, `AfterHook`, `SettleScope`, or `Declare` where a scope cannot even be recorded as
taken up); `Finish`. A write the journal refuses takes the branch the code has for
it, and each stage has one. A process that starts reconciles every open run
(`ReconcileRun`), then everything in recovery (`MarkOutstanding`, `SettleLeft`), loads the
holds and serves (`Serve`), or is left `"closed"` by the first error. `AskResume` and
`AskAck` look at the run without the lock, `BeginResume` and `BeginAck` look again under
it; a resume then goes through the same cleanup, running what never started and taking the
row's word for the rest (`AfterKnown`).

**Environment.** The process may die between any two writes, and inside a hook. A write may be
refused. A run may be cancelled or time out at any stage (`StopRun`, and the causes
`Backup` reports). An operator bypasses the hooks, asks for a resume or an
acknowledgement, or stops a process that is of no more use.

**Abstractions to know about.**

- A hook that failed, timed out or was cancelled has one state, `"failed"`; how a hook is
  run, on which host and in which shell, is the executors' and is not modelled: it exits
  well or not, and its start and its end are two writes.
- The process is alone on the journal, as the journal's own lock sees to.
- The startup pass is made once in the life of a process, which is where it is called
  (`core/cmd/retnd/dataplane.go:109`). A write of the last obligation that is refused leaves
  it `"running"`, which neither blocks the set nor can be acknowledged; that lasts until
  the next start, and is why `Stop` is there.
- The write that records a backup as skipped (`skipBackup`) is left out: its refusal fails the
  run, and every run that gets there has failed or been stopped already.

## What is checked

### The pipeline (`MCArtifactPipeline`)

| run | question | bounds |
|---|---|---|
| `PipelineOneProcess` | does one process keep every promise, whatever fails and whatever the operator does? | 2 versions, 3 faults of all five kinds, 3 interventions |
| `PipelineTwoProcesses` | is anything lost when two processes work over one journal and directory? | 2 processes, 1 fault, 1 intervention |
| `PipelineProgress` | does every artifact settle, every deletion resolve, every committed artifact get reclaimed, and is a validator's verdict ever bypassed when there is no hash to compare? | 2 versions, one accepted; 3 faults (no power loss), 2 interventions, fair processes |
| `RetryStrands` | does a retry do what its documentation says? | the smallest bounds that decide it |

**Safety.** `NoLoss`: whatever was deleted is, byte for byte, the file at the final
name. `KeepsCustody`: the pipeline implements `Custody`, which adds that a durable
copy is never replaced and that it was durable first. `CommittedIsDurable`,
`DeletesUnderIntent`, `CompleteMeansGone`: the orders of the deletion path, each as what the record
says against what the disk, the log and the remote hold. `CommittedIsWhatWasHashed`,
`OnlyAcceptedTrusted`, `DistrustIsFounded`, `ReinstatedIsKept`: how trust is gained
and lost. `IntentBeforeDelete`, the order for any number of processes, is proved.

Damage from outside is an explicit exception (`damaged`) where no software could do
better.

**Liveness.** `Settles`, `DeletionResolves` and `Reclaims` assume weak fairness of
`Discover` and of each process's steps. The code justifies it: the scheduler starts
a cycle after every poll interval (`core/service/scheduler.go:160`, `I/app/daemon.go:87`),
each cycle discovers and then walks every listed artifact, a process that died is
started again by its supervisor, and every call ends, if only in an error. It is
weak fairness of a process's *steps together*, not of each action: which action
comes next is decided by the state and by what fails. Nothing is assumed of
faults (they are bounded, so they stop), of the producer or of the operator.

**Bounds.** Two versions are what telling "the object discovered" from "another
object" takes; every definition compares contents for equality only. One fault and
one intervention more than a scenario needs let any two of them combine: three
faults and three interventions allow, say, a power loss during a commit, a failed
verification, damage, a reinstatement and a toggle of `read_only` in one
behaviour. Three steps of damage, quarantine and reinstatement are the longest
chain the transition table has between durable states. A budget of 2 for copies
and stalls is the smallest the code allows for copies (`minCopyClaimBudget`) and
distinguishes the first failure from the last. With two processes one fault and
one intervention already give 2.7 million states; the second process is itself the
disturbance. Processes, and versions where all are accepted, are interchangeable,
so runs of invariants and action properties use symmetry; `PipelineProgress` does not.

`CHECK_DEADLOCK` stays on in these runs: a process can always start another cycle.

### The moves (`MCPlacementMove`)

| run | question | bounds |
|---|---|---|
| `MoveOneEngine` | is there a listed, provable copy at every instant and one live move at most, and is nothing listed ever removed, with copies damaged meanwhile? | 3 mediums (own directory, read back in full, attesting), 2 moves, 2 faults of all kinds, 3 changes |
| `MoveUndamaged` | is the last good copy kept when nobody else touches the copies, and does every move end unless something an operator decides holds it? | 3 mediums, 3 moves, 3 faults, 2 changes, fair engine |

**Safety.** `AlwaysActive` is the engine's own `CheckInvariant`, the standing
invariant of the documentation, at every instant rather than where the tests look.
`NeverRemovesListed` orders the journal before every removal, and
`KeepsSafe` says what the order is for: no combination of lost answers, wrong
bytes, restarts and recopying loses the artifact, which is also what the abstract
`Safekeeping` says. `DeletesAgainstGood` is about the read-back that is kept in memory
from VERIFYING to the delete. `OneLiveMove` relates the rows of the journal whatever
the engine was planning from, and is proved for any number of engines.

**Damage.** In `MoveOneEngine` a good copy may be overwritten or removed from outside
at any step, so a listed copy may be bad; what the engine must still do is asked
there. What it keeps of the artifact is asked where nobody does that.

**Liveness.** `MovesConclude` assumes weak fairness of an engine's steps together and
of its resuming an unfinished move. Cycles run at every interval (`I/app/movecycle.go:58-83`
from the daemon's and the service's cycle), resume every non-terminal move before
planning (`engine.go:357`), and each call ends. Nothing is assumed of `Plan`, of faults or
of what changes around. `Held` lists the three standing refusals the code documents.

**Bounds.** Two mediums besides the backup set's directory give every kind of move:
out, back, and across through staging; one of each class gives every branch of the
verification. Two moves are one and the next one, back or elsewhere; three come round
to a medium used before. Two copies a cycle is the code's default. Two faults are a
crash after a miscopy, or a lost answer and a damaged copy. Every action fires between the
two runs. The engine's limit of 32 phase steps a cycle is out of reach: two
attempts take at most twelve.

`CHECK_DEADLOCK` is off in the move runs: when the bound on moves is used up and all of
them are terminal, the engine rightly has nothing to do.

### Retention (`MCRetentionPrune`)

| run | question | bounds |
|---|---|---|
| `Retention` | does pruning keep what its policy promises, remove only what was reviewed, and stop when the restore point goes? | 3 artifacts, 3 instants, 2 policies, 2 mediums, 1 plan, 1 event (edit, loss, quarantine or move) |

`KeepsPromised` compares with a history in which nothing was ever pruned: what the
policy would keep of *that* is there today. A prune too early, a prune that was cut
short, a decision over rows with nothing behind them, all would show. A timestamp
from the remote that is not checked against the discovery does
(`OccurredAsReported`): an artifact deleted as old becomes a representative again.
It holds while nobody edits the policy, quarantines or loses a file, since each of these
moves the promise itself. `RemovesOnlyAsReviewed` relates a removal to the verdict its
operator was shown.

Three instants are two window ends and a step back; artifacts 1 and 2 have a
timestamp from the producer (one that may lie in the future, one in the past), 3 has none. The two
policies differ in tiers and in the protection. A second plan adds nothing but a second
copy of the same comparisons; a full table is reached with one (`Evicted`).
`CHECK_DEADLOCK` is off: the clock ends.

### The snapshot lifecycle (`MCSnapshotRun`)

| run | question | bounds |
|---|---|---|
| `Snapshots` | is what a set advertises good, does it come back, does every run end and is every removal intended and recorded? | 1 cycle process and a retention pass, 2 runs and 1 foreign manifest, 2 faults of all kinds, 1 hold |

`KeepsPromise` is the refinement of `RestorePoint`. A snapshot is removed under a recorded intent and
LOST is said only of one that is gone, or the promise would be broken with the next
mark. `RunsResolve`, `RestorePointReturns` and `RemovalsRecorded` assume weak fairness
of a cycle's steps together: the scheduler starts a cycle at each interval
(`I/app/cycle.go`), which begins with a reconciliation, and each call of it ends.
Nothing is assumed of retention, of the operator or of faults. Two runs are the restore
point and the next one; with the foreign manifest there is one of each kind of row.

### Repository maintenance (`MCRepositoryMaintenance`)

| run | question | bounds |
|---|---|---|
| `Fence` | is a full maintenance alone, is nobody kept out, does a scheduled window still do what was due? | 1 instance with 3 passes (2 of which delete), 2 windows, 2 ticks, fair passes |
| `Ownership` | do readers see one record with one owner? | 2 instances with a pass each, an administrator, 3 revisions, 2 windows, 1 transfer, 1 failed directory call, 1 crash |

Three clients are a holder, one who waits and one who came later: what fairness and
cancellation take. `Served` assumes weak fairness of each pass once it has begun: a
deletion and a maintenance end. `KeepsOneRecord` is the refinement of
`OwnedRecord`, for the record a reader sees: one at a time, whose owner changes by a
transfer alone. Two revisions below the newest are what a stale swap takes (below), and
`Ownership` has a publication fewer.

### Workflow hooks (`MCWorkflowRun`)

| run | question | bounds |
|---|---|---|
| `Workflow` | does a hook ever run twice, is what is owed on record, is success earned, does only a person write anything off, and is every run concluded? | 1 run of 4 hooks, one in each stage and scope, bypassed or not; 2 faults, 2 resumes, 2 requests at once; fair process |
| `WorkflowRestart` | does a process find of every run its predecessor left that it is settled or requires recovery? | the same run, 1 crash |

`HooksRunOnce` counts over the life of a run: a crash between the start of a hook and its
outcome, a resume that died in the next hook and a second resume are one behaviour, and
no hook is handed to its executor twice in it. `CleanupIsOwed` relates the hooks that were
started to the obligation of their scope, and a terminal run to both. `SuccessIsEarned`
compares what the rows claim with how the hooks really ended. `OnlyAPersonClears` says by
whom an obligation in recovery is taken up, across restarts.

**Liveness.** `Concludes` assumes weak fairness of the startup pass and of each set's work: calls
end, and a process that died is started again by its supervisor. Of the operator it
assumes strong fairness: who is told that a run requires recovery acknowledges it, again
if it was refused, and who finds a run unresolved that nothing is done about starts the
process anew. That is what `doc.go` asks of them ("Recovery is never automatic"), and nothing
is asked of resumes. `NoVerdict` names the runs no startup pass can settle (see the limits
below); `Concludes` holds of every other.

**Bounds.** Two scopes and two phases are all there are, so one hook each reaches every stage
with a hook before and behind it. Two faults are a crash in the work and a crash or a
refused write in its recovery; two resumes are one that dies and one that finishes. Runs
of different sets share only `holds`, and of one set follow one another under its lock.
`CHECK_DEADLOCK` is off: when the one run is concluded there is nothing left to do.

## What is proved

### The pipeline

`ArtifactPipelineProofs`, for every number of processes, versions, faults and
interventions, every budget, and with or without hash and validator:

| theorem | states |
|---|---|
| `TypeCorrect` | `Spec => []TypeOK` |
| `CommitIsDurable` | `Spec => []CommittedIsDurable` |
| `IntentPrecedes` | `Spec => []IntentBeforeDelete` |
| `CompleteIsGone` | `Spec => []CompleteMeansGone` |
| `OrderKept` | `Spec => []EachBeforeTheNext` |
| `ReinstatementHolds` | `Spec => ReinstatedIsKept` |

They rest on `DistinctContents` and `Parameters`, the assumptions
`ArtifactPipeline` declares of its constants.

**The argument.** None of the three invariants is inductive: a worker that stopped
between two steps carries its progress in `job`, and the record may leave a durable
state and come back. The strengthening has one shape for all three: a fact that
never ceases to hold once it holds, and everything that relies on it, including the
places of a worker past the step that established it.

- `SecuredFirst`: the final file is there under a durable name (or was damaged
  from outside). Relied on by every durable record, by a quarantine that remembers
  one, and by a worker about to write COMMITTED.
- `IntentFirst`: the log holds an intent. Relied on by REMOTE_DELETE_PENDING, by
  every worker past `DeleteIntent`, and by the fact that something was destroyed.
- `GoneFirst`: the discovered version is not at the path, and it never comes
  back. Relied on by COMPLETE, QUARANTINED_LOST and a worker past a successful
  delete.

The proof that a step keeps one of them has a lemma for *lasting* (`SecuredLasts`,
`IntentStays`), one for *who may write what* (`StepWrites`, `OperatorWritesSo`), and one
for *where a worker may come from* (`PathMoves`). `ReinstatementHolds` needs only that
the gate of `DeleteLook` is the one entrance to the delete step.

`CustodyProofs` extends it. Its first part is of the same generality, under one assumption,
`Compared`:

| theorem | states |
|---|---|
| `CustodyInvariant` | `Compared => (Spec => []CustodyInv)` |
| `NothingLost` | `Spec => []NoLoss` |
| `CustodyIsKept` | `Spec => KeepsCustody`, the refinement of `Custody` |

`Compared` says that the hash policy is "sha256" and that the fault `race` is not in scope.
Both are needed: without a hash nothing ties the local bytes to the remote's, and the
delete call names a path, so it takes whatever the producer put there since the last look.

**The argument.** `NoLoss` compares what was deleted with the disk, and what lies in between
is spread over the record, the log and the worker. `CustodyInv` follows the evidence:

- `Evidence`, of the record: a landed copy has the full size; a verified one that nobody
  reinstated has the remote's hash *as long as the remote has the discovered version*; a
  durable one has a placement. The condition on the remote is what makes it inductive with
  other processes about: a slower one may replace the `.partial` behind the hash, but the hash
  itself is only ever written by a verification that saw the remote agree, and the path never
  gets the discovered version back (`VersionStays`).
- `CommitsFull`, of a worker that is committing: it read a full size, so what Commit measures
  can only confirm the record or show a short file, which `DeleteRemote` then refuses.
- `DeletesKept`, of a worker past `DeleteLook`: if the remote still has the discovered version,
  that version is the durable local copy, and at the delete call nothing else can be at
  the path. The look itself is `LookFinds`, where `Evidence` and `SecuredFirst` meet.
- `DestroyedKept`: what was deleted is that version.

Which write of the journal carries which evidence is `WritesFounded`, one lemma per stage;
that a durable copy is not touched again but from outside is `CopyLasts`. For the
refinement, `StepCustody` sorts the steps by what they do to the world (`WorldMoves`): damage is
`Spoil`, the producer is `SourceMoves`, a delete call that finds something is `Release`, and
whatever turns nothing into a durable copy is `Secure`.

Its second part is about one process (`OneProcess`, a constant: at most one worker), for
any hash policy, any faults and any interventions:

| theorem | states | further assumed |
|---|---|---|
| `OneProcessInvariant` | `OneProcess => (Spec => []OneInv)` | |
| `HashedIsCommitted` | `Spec => []CommittedIsWhatWasHashed` | |
| `AcceptedIsTrusted` | `Spec => []OnlyAcceptedTrusted` | no power loss |
| `DistrustHasReason` | `Spec => DistrustIsFounded` | |
| `DeletionsAreIntended` | `Spec => DeletesUnderIntent` | `Unreleased` |

Each assumption is one the code needs. With two processes the first and the third property
are false, and with the verb `release-retained` the fourth (`Unreleased` leaves it
out); the limits below show the behaviours. A power loss can cut short a `.partial` the validator
accepted, and Commit then links it, measures it again and records it as short: durable
by its state, refused by `DeleteRemote`, and not what was accepted.

**The argument.** The pipeline reads the row, looks at a file, and acts on both in later
steps. `OneInv` says that what was read and seen still holds when it is acted on:

- `RecordInv`, the part of `CustodyInv` that needs no hash.
- `Fits`: the row is in the state the step was entered for, and past a read still the row
  that was read. That is what a second process breaks. The operator is not excluded, and
  does not break it, because no verb moves a row that is in the pipeline (`OperatorSpares`).
- `NothingYet`, before the placement: no file at the final name until COMMITTING, and from
  VERIFIED on what is under either name is the hashed, accepted copy, nothing, or what a power
  loss leaves. `FinalKept`, after it: the file at the final name is the one the record measures.
  The two meet in the commit, and only there.
- `Sees`: what a worker saw of the file is still there when it writes it down or judges it. A
  reconciliation that works from an old listing is the case that matters: the row it read may
  have moved on, but not its size, its hash or the file (`ReconcileFounded`).
- `IntentStands` and `Deletes`: an intent in the log belongs to a copy that is committed, so
  no later deletion replays it, and the delete step finds the record at
  REMOTE_DELETE_PENDING. `release-retained` is what takes a record back to COMMITTED
  under an intent that stands.

All of it but the first two holds until the file is damaged from outside, and damage lasts
(`DamageLasts`). `FreeMoves` says where a step can take a row that is committed or out of the
pipeline, which is all `DistrustHasReason` has left to look at.

**Not proved, checked only.** Liveness: `Settles`, `DeletionResolves`, `Reclaims` (fairness
and ENABLED are out of the prover's reach).

### The moves

`PlacementMoveProofs`, for any set of mediums, any classes they require and any
bounds:

| theorem | states | engines |
|---|---|---|
| `MoveTypesHold` | `Spec => []TypeOK` | any |
| `OneLiveMoveHolds` | `Spec => []OneLiveMove` | any |
| `StandingInvariant` | `Spec => []AlwaysActive` | one |
| `NothingListedIsRemoved` | `Spec => NeverRemovesListed` | one |
| `DeletesAgainstGoodHolds` | `Spec => DeletesAgainstGood` | one |
| `MovesKeepSafe` | `Spec => KeepsSafe`, the refinement of `Safekeeping` | one, no damage |

They rest on `MediumAssumption` and `BoundAssumption`. One engine is a hypothesis of
the last four because with two the first of them is false, and no damage of the last
one because with damage it is (see the table of limits below).

**The argument.** `OneLiveMove` is inductive: `Plan` is the only step that makes a
move live and it looks first, and a terminal phase has no way out of it. `AlwaysActive`
is not. `IInv` ties the placements to the phase of the one live move: its source
is ACTIVE and its destination not up to VERIFYING, both are at VERIFIED, and from the
intent on the destination is and the source is not. That alone would do for the
journal's writes. A terminal move says nothing any more, and after ABANDONED the
engine still discards; so `Engaged` says of the engine what it knows: its phase is
the move's, no other move is live, what it is about to discard is not listed and
something else is. `Damage` disturbs none of this, since it reaches no row.

`DeletesAgainstGoodHolds` adds `ReadGood`: an engine that carries a read-back of an
object that is `still` what it was carries one of a good object. The point of the
proof is where that is established, at the read after `Identify`, and that every
step that touches the destination since clears it.

`MovesKeepSafe` needs `SafeInv`, which is about what the copies are and not only about what the
rows say: what the journal lists is good, a copy about to be listed was read and found
good, and a destination that was listed before is never found wrong, so that the way back from
SOURCE_DELETE_PENDING to COPYING is not taken. With it every step writes at most one
copy, an unlisted one, while another is ACTIVE and therefore good (`OneCopyChanges`), and
that is a step of `Safekeeping`.

**Not proved, checked only.** `MovesConclude` (liveness).

### Retention

`RetentionProofs`, for any artifacts, calendar, policies and mediums, any plans and events:

| theorem | states |
|---|---|
| `LetGoForGood` | who is kept neither by a tier nor as the last known good on some day is kept on no later day, among more restore points |
| `PromiseKept` | `Spec => []KeepsPromised` |
| `RemovalsAreReviewed` | `Spec => RemovesOnlyAsReviewed` |
| `RetentionTypes` | `Spec => []TypeOK` |

They rest on the assumptions the two modules declare of their constants: the civil date does
not go back, and the units of a granularity begin on finitely many days.

**The argument.** `LetGoForGood` is why pruning is safe at all: a window only moves on, so
whoever is in it on the later day was in it on the earlier one (`FewerUnits`); a
newcomer only displaces; and a rival that has left the window since is older than whoever
is still in it (`WasRepresentative`). `KeepsPromised` is not inductive: an apply holds on to
rows of the past. `PinnedInv` says of those that they are rows as they were on a day that
has come, that every restore point among them still has its dates, and that none
of what is about to go was to be kept then. With `LetGoForGood` none of it is to be kept
today. Every other step is `Harmless`: it takes nothing from an artifact that is to be kept,
and who comes new is there.

`RemovesOnlyAsReviewed` compares a removal with verdicts that were reached some time before,
over another disk. `ReviewedInv` carries the disk they were reached over: the verdicts of an
apply are those of its records over some disk of the past, and what was missing there, of
what has its only place in the directory, is missing for good (`Gone`), since a
move copies only what is there and nothing is committed twice. So the disk on which the apply
decides again has no more than the one its operator saw, and deciding over less deletes no
more (`FewerDeletions`): a copy that is gone refuses its own deletion, and the loss of
the restore point holds all of them. (`Gone` is for good because the model has no file that
comes back: see the table of what a larger model violates.) `RetentionTypes` needs of the table of plans that a
full one has an oldest plan to lose (`RoomForOne`).

Every property the run checks is proved.

### The snapshot lifecycle

`SnapshotProofs`, for any runs, foreign manifests, faults and holds:

| theorem | states | cycles |
|---|---|---|
| `SnapshotTypes` | `Spec => []TypeOK` | any |
| `PromiseIsKept` | `Spec => KeepsPromise`, the refinement of `RestorePoint` | one, `Protect` |

They rest on `CatalogAssumption` and `SnapshotAssumption`. One cycle is how the service runs
them (`core/service/operations.go:428`), and the second theorem needs it: with two, a listing
from before a snapshot was stored makes it LOST while it is there. `Protect` is
`protect_last_known_good`; without it retention may remove what is advertised.

**The argument.** `TypeOK` says that a run that succeeded was verified, and what makes it so
happened some calls before, while in between the rows may have been written by somebody else. A
write is decided from the row as it is remembered and allowed by the row as it is, so
`Inv` is about both. `Sound`, of a row and of every copy of one: it is about the manifest
of its key, a recorded verification happened, "the source is covered" is so, and who is past the
manifest names it. `Behind`, of a copy: the row has an id if the copy has, and once
settled it stays so. With these an update that fits what is remembered (`Fits`, one lemma per
action) fits the row it meets (`WriteKeeps`), which is where the journal's table and the
writer's (`JournalAllows`, `WriterMeans`) have to agree. `Unwritten` and `OneWriter` keep
`SnapshotTree` from storing a manifest under a row that already says something of it.

For the refinement, `Kept` and `Present` relate the rows to the repository. `Present`: as one
cycle has it to itself, what it listed still includes every run that is there, so what
`ResolveFinished` finds overdue is gone. `Kept`, as long as nobody else removed a snapshot:
what was verified is there unless its row is complete, a set with a restore point advertises
one that is there, retention has another one in hand, and so no repoint is due. Each step then
moves the mark in one of the ways of `RestorePoint` or leaves it (`RemarkStep`,
`RepointOn`, `BesideStep`).

**Not proved, checked only.** `RunsResolve`, `RestorePointReturns`, `RemovalsRecorded` (liveness).

### Repository maintenance

`RepositoryMaintenanceProofs`, for any number of processes, passes and administrators and
any bounds:

| theorem | states |
|---|---|
| `UsesTheFence` | `Spec => FenceSpec` |
| `ExclusionHolds` | `Spec => []Exclusion` |
| `NoGrantIsLost` | `Spec => []NoLostGrant` |
| `OneRecordKept` | `Spec => KeepsOneRecord`, the refinement of `OwnedRecord` |
| `DueStaysDue` | `MaxErrors = 0 \/ OneInstance => (Spec => []StillDue)` |
| `MaintenanceTypes` | `Spec => []TypeOK` |

They rest on `ClientAssumption`, `StoreAssumption`, `NoFileAssumption` and
`MaintenanceAssumption`: the passes are finitely many, each runs in one process, administrators
are none of them, a missing file is no record, and the clock has a tick (it starts at 1, so
`MaxTime` is not 0).

**The argument.** The fence is proved by itself, with clients that ask, cancel, leave and take
leases as they like, and maintenance is then shown to be such clients (`StepIsClients`).
Neither property is inductive. `FenceInv` is the gate's bookkeeping: it counts exactly
those who hold a section and have not given it back, its queue has each of those who asked
and hold none once, on the side it asked for, and `dispatch` would admit nobody
(`Admitted = {}`). Everything done under the mutex changes the books for one client and
dispatches, so that one lemma (`UnderTheMutex`) serves every action; it rests on what
`dispatch` does: it admits a head of the queue (`AdmittedIsHead`) all of one side
(`AdmittedKinds`), it keeps the books right (`DispatchFits`), and nobody is at the head whom it
would let in afterwards (`NobodyElse`). The cancelled waiter that finds itself granted is
`HandBackKeeps`: it is in the books as a holder until it has given its section back.

The record is the newest of the files (`NewestIs`: there is one), and the store has no lock, so
that the refinement has to say what everybody's stale knowledge is worth. `RecordInv` says it:
nobody holds a revision from the future, whoever holds the newest revision holds what it reads,
and a writer that wants to publish after the newest has something that continues it
(`Continues`: a claim of nothing, a transfer, the outcome of a window). Removals take only
what is below the newest (`RemovedBelow`); a link to a free name is the next revision, which is
then the record, or below the newest, where nobody reads it (`Linked`). So every step is `Rests`
or `Publishes(w)` for one writer (`StoreStepKeeps`), knowledge survives both (`CallStays`,
`JobStays`: what was newest is only older), and what is published is a step of `OwnedRecord`
(`PublishedContinues`).

`StillDue` needs more than that: that a pass which reads a record of its instance has the newest.
Its invariant is `LeaseInv` (a lease counts those who use it, and its token is with one of
them), `QueueInv`, `CountInv` (a transfer that is published was begun, and is published once) and
`DueInv`: a pass is in a window only with the lease, and writes only in the name of its
instance (`PassFits`), and unless the repository was handed over since, what it reads in that
name, and what it claims, is the newest revision (`Current`). Another writer could take that away in
three ways: a pass of the same instance, which has no lease (`OneWindow`); a pass of another, whose
publication would follow a record that is its own (`ByOthers`); an administrator, whose
transfer counts in `handed`. The hypothesis is needed: with two instances and one failing
listing TLC finds the claim that is taken for published although it is below the newest (the
table of counterexamples below).

**Not proved, checked only.** `Served` (liveness).

### Workflow hooks

`WorkflowRunProofs`, and `WorkflowRecoveryProofs`, which extends it, for any runs, sets, plans,
requests and faults:

| theorem | states |
|---|---|
| `WorkTypesHold` | `Spec => []TypeOK` |
| `HooksRunOnceHolds` | `Spec => []HooksRunOnce` |
| `CleanupIsOwedHolds` | `Spec => []CleanupIsOwed` |
| `OnlyAPersonClearsHolds` | `Spec => OnlyAPersonClears` |
| `SuccessIsEarnedHolds` | `Spec => []SuccessIsEarned` |

They rest on `PlanAssumption` and `EngineAssumption`.

**The argument.** `HooksRunOnce` follows from `RanOnce`: a hook whose row is still "pending" was never
started, and no hook was more than once. It is inductive because the row is written
before the hook is handed over, and no table leads back to "pending". `CleanupIsOwed` is
not inductive: that a scope was promised before its first hook is known only to the
work that is at it. `Fits` says, for each place, what a piece of work that stands there has recorded: its run
is one of its set, a run's own work stands over an open row with a clean recovery axis, and
whoever is at the hooks of a scope, or on the way back to them, has that scope promised.
Since a run belongs to one set, the lock makes each step either a write to nobody else's
run, which is why the others' `Fits` stay (`RunKeeps`, `ScopeKeeps`), or one of the startup
pass, when no work is under way.

`OnlyAPersonClears` asks about a step of a run's own work, which takes scopes up as a resume
does: what tells them apart is that no scope ahead of a run is in recovery (`ClearInv`). Before
its cleanup a run has put none there, and once it has left the set's scope in recovery only
the global one is ahead; every step of a piece of work goes on with it or ends it (`Onward`)
and writes to the scope it is at or to none (`Obliges`). `SuccessIsEarned` compares rows
with what happened, and a run is closed by what its work remembers, so memory has to be true
as well (`EarnInv`): a run that remembers no failure has started nothing that did not exit
well, but for the hook it has in hand; a cleanup that is going well has only the hooks left to
it outstanding; and the row of a run under a resume stays at "cleanup_running", so nobody closes it
meanwhile.

**Not proved, checked only.** `Concludes` (liveness).

## Where code and documentation disagree

Each of these is a run that ends in a violation, listed under `findings` in `PROJECT.json`.

| run | what happens |
|---|---|
| `RetryStrands` | `RetryQuarantinedIngestion` re-enters the pipeline under the attempt number the artifact already has. If its quarantine charged nothing, the next "transferring" key is a replay and the artifact stays DISCOVERED. |
| `WorkflowRestart` | A run that bypasses its hooks has both scopes settled from the start. If the process dies before its "after" hooks are recorded as skipped, the startup pass reads `cleanup_failed` from the rows (`recovery.go:475`), which a pending or running run may not become; the pass ends with an error at this and every later start, and the engine then refuses the runs of every set. |

### Limits

What the runs do not promise, because the code does not. The first three are what TLC shows
when the property is added to the run; the others were met while modelling, most of them as
counterexamples to a stronger property or a larger instance.

| add | to | and |
|---|---|---|
| a second worker, a failing call, `DistrustIsFounded` | `PipelineOneProcess` | a slower process's stalled verification quarantines the copy the faster one committed (`verify.go:419` leaves from the state it reads) |
| a second worker, the producer, `CommittedIsWhatWasHashed` | `PipelineOneProcess` | a slower process's copy replaces the `.partial` between verification and commit (`transfer.go:419`, `commit.go:683`) |
| the verb `release-retained` with three interventions, `DeletesUnderIntent` | `PipelineOneProcess` | released from retention after an interrupted deletion, the artifact is deleted under its old intent with its record at COMMITTED (`remotedelete.go:406`; `ReleaseFromRetention` has no caller in `I/app` yet) |
| the fault `race` | only the object discovered is deleted | an object put at the path between the identity check and the path-based delete is deleted unseen (`remotedelete.go:440`) |
| power loss | `Settles` | a power loss at COMMITTING takes the unsynced `.partial`; every later cycle fails with the same error, and no edge an operator has leaves COMMITTING (`commit.go:704`) |
| damage from outside | `KeepsSafe` | source deleted, crash before DONE, destination damaged: the way back to COPYING lists the deleted source as ACTIVE and copies from it (`engine.go:1351`; `phases.go:44`) |
| a second engine | `AlwaysActive` | a slow process discards the destination of its abandoned move, at the key of a copy a later move has verified: nothing is ACTIVE, and the copy is gone (`engine.go:1433`) |
| a second instance and a failing listing | `StillDue` | the second look of a create ignores a listing that fails (`maintenanceowner.go:473`), so a claim below a newer revision is taken for published, and its window runs although another's was recorded |
| two transfers between the comparison and the link of a third writer | a swap replaces what it was read at | a swap compares the newest revision and then links the next one; if two others published and removed their predecessors meanwhile, the link succeeds below the newest revision, the caller is told its record was stored, and nobody reads it (`maintenanceowner.go:515`) |
| a transfer during a window | `Exclusion` between instances | the former owner's maintenance runs on beside the new owner's: the fence is per process, and the record is compared when the window is recorded (`run.go:467`) |
| a crash between the two writes of a quarantine | everything unaccounted for is written down | the row was opened but names no manifest; the next pass resolves it as FAILED, and from then on its key stands for "already quarantined" (`snapshotlifecycle/reconcile.go:804`) |
| a hold between the last check and the intent | no held snapshot is deleted | the hold is accepted and the snapshot deleted (`snapshotretention/prune.go:660`) |
| a deletion carried out with its answer lost | nothing is LOST that retention deleted | the next pass keeps it and withdraws the intent, and reconciliation then says LOST (`prune.go:736`) |
| a second cycle process | only what is gone is LOST | a listing of the repository from before a snapshot was stored makes a fresh SUCCESS LOST |
| a loss from outside, then a repoint | `RestorePoint` | the mark is given to a snapshot retention is already deleting (`RestorePoint!Remove` asks for `lost = {}`) |
| a file that comes back | `RemovesOnlyAsReviewed`, with the refusals of the plan | the comparison of an apply and the decision of `PruneApply` look at the disk one after the other; a restore point put back in between turns reviewed refusals into deletions (`service/retention.go:488` says there is no third derivation) |
| a copy pruned from a medium, and a quarantine | `KeepsPromised` in trouble | the row of the pruned copy stays ACTIVE and is all the confirmation a medium's copy gets (`prune.go:993`), so the last readable copy may go |
| a resume that dies between its last obligation and its resolution | `Concludes` without `NoVerdict` | the run is at `cleanup_running` with every scope settled: the next startup pass closes it, and leaves its recovery at `in_progress` (`recovery.go:964-1006`); from the one after that on, `reconcileRecoveryAxis` asks for a resolution that a terminal run is refused |
| a refused write of a hook's start, and of its outcome | `Concludes` without `NoVerdict` | the hook's row stays "pending" behind a settled scope, and the startup pass meets the refusal of the finding above |
| a request during the end of another | a blocked set starts no run | the holds are asked before the lock is taken (`engine.go:218`), so a run may start right after one of its set that required recovery |
| work on two sets | the holds are what is owed | `loadHolds` reads and then replaces, so the older answer of two may stay; one that fails leaves the holds of before |
| a quarantine by another process during an apply | `KeepsPromised` in trouble | the plan goes on with the restore point its pinned rows name |

One more is plain from the order of two statements: `abandon` records ABANDONED before it
discards the destination (`I/placement/engine.go:1392-1399`), and terminal moves are not
resumed, so a crash in between leaves the copy, where `phases.go:30` says that it "has been
disposed of". Such a copy takes room and endangers nothing.

## What is left out

- Retries inside one call, backoff, progress reports, logging, metrics.
- The recovery manifest written next to a committed file.
- In `ArtifactPipeline`, placements on other mediums: an artifact that was moved is left alone by
  reconciliation and refused by `DeleteRemote` (`reconcile.go:192`, `remotedelete.go:633`).
- In `PlacementMove`, restores of archived objects: an archived object stays unreadable
  until its class changes back. With a restore a move would be held less often.
- Path checks of the local delete (`proveLocalSourceSafe`: canonical path, symbolic links,
  the backup set's root): one more refusal, which the `Fault("call")` of the guard stands for.
- In `ArtifactPipeline` and `PlacementMove`, pruning: it concerns artifacts that are done
  with both, and `RetentionPrune` has what they do to such an artifact as actions.
- The web host, the UI, packaging, configuration parsing: no state that a property
  of this project is about.
- How a hook is executed: `WorkflowRun` takes the start and the outcome.

## Not modelled, and next

Everything in this program that deletes, or promises not to have, is modelled: the pipeline, the
moves, retention, the snapshot lifecycle and the fence its deletions run under, and the hooks
that run around them. Of the rest:

- **Executors, engine adapter, transport.** Processes, SSH sessions and the repository
  library: what they promise the components above is in the actions that call them (a call that
  fails, or succeeds without saying so).
- **Service start-up locks, local authentication.** Short sequences over one file lock or one
  row; what they protect from is a second process, which is an actor here where it
  matters (`PipelineTwoProcesses`, `Elsewhere`, the second engine of `OneLiveMoveHolds`).
- **Configuration, API contract, read models, UI, packaging.** The greater part of the
  source by lines: validation of values, generated types, rendering. They keep no state that
  several actors change, and are tested by example.

What a team would do next: model the service's start-up, and with it who may replace a
journal.
