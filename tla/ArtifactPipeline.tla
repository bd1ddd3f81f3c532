-------------------------- MODULE ArtifactPipeline --------------------------
(***************************************************************************)
(* The life of one artifact in retnd's pull engine: discovered on the      *)
(* remote, copied to a .partial file, verified, durably committed under    *)
(* its final name, and only then deleted from the remote (or retained      *)
(* there, for a read-only set).                                            *)
(*                                                                         *)
(* A worker is one process running cycles over the shared journal: the     *)
(* daemon, or a CLI run beside it.  Nothing above the journal excludes two *)
(* of them, so every call a step makes to the journal, the local disk or   *)
(* the remote that another actor can come between is an action of its own. *)
(* Beside the workers there are the operator's verbs, the producer that    *)
(* owns the remote object, and the faults the code is written against:     *)
(* crashes, power loss, local damage and failing calls.                    *)
(*                                                                         *)
(* A definition marked "Mutated:" is not part of the model.  It is the     *)
(* definition after it with one slip in it, which a property has to catch. *)
(***************************************************************************)
EXTENDS LifecycleGraph, Naturals

CONSTANTS
  Workers,        \* processes that run cycles over the one journal
  Versions,       \* contents the producer may put at the remote path
  Torn,           \* a local content shorter than the object it was copied from
  Mangled,        \* a local content of the right size and the wrong bytes
  None,           \* no content: no such file, no such object, nothing recorded
  HashPolicy,     \* validation.hash: "sha256", or "" for none
  HasValidator,   \* whether an application validator is configured
  Accepted,       \* the contents that validator accepts
  CopyBudget,     \* copyClaimBudget: unclaimed copies that may fail
  StallBudget,    \* unfinished verifications before quarantine
  Verbs,          \* the operator verbs in use
  FaultKinds,     \* the kinds of fault that happen
  MaxFaults,      \* bound on the faults of a behaviour
  MaxOps          \* bound on the operator's interventions in a behaviour

Contents == Versions \cup {Torn, Mangled}

ASSUME DistinctContents ==
  /\ Torn \notin Versions /\ Mangled \notin Versions /\ None \notin Versions
  /\ Torn # Mangled /\ Torn # None /\ Mangled # None

ASSUME Parameters ==
  /\ HashPolicy \in {"", "sha256"}
  /\ HasValidator \in BOOLEAN
  /\ CopyBudget \in Nat \ {0, 1}
  /\ StallBudget \in Nat \ {0}
  /\ MaxFaults \in Nat
  /\ MaxOps \in Nat

VARIABLES
  row,        \* the artifact's journal record
  log,        \* what the append-only transition log answers when it is asked
  disk,       \* the artifact's two file names in the backup set's directory
  remote,     \* the version at the remote path, or None
  past,       \* every version that has ever been at the remote path
  readOnly,   \* the backup set's read_only setting
  job,        \* where each worker is, and what it has read so far
  op,         \* the operator verb in flight, with the evidence it gathered
  destroyed,  \* the versions the manager deleted from the remote
  damaged,    \* whether something outside the manager damaged the final file
  faults, ops \* faults and interventions so far

vars == <<row, log, disk, remote, past, readOnly, job, op, destroyed, damaged,
          faults, ops>>
journal == <<row, log>>
world == <<remote, past, readOnly, op, destroyed, damaged, ops>>

-----------------------------------------------------------------------------
(* The journal: RecordTransition behind lifecycle.Advance.                 *)

\* A byte count is abstracted to whether it is the size of the remote object.
SizeOf(c) == IF c = Torn THEN "short" ELSE "full"

NoRow == [state |-> "none", retry |-> 0, path |-> "none", ver |-> None,
          bytes |-> "none", hash |-> None, placed |-> FALSE, rejected |-> FALSE]

\* An idempotency key: the attempt it belongs to and the step that wrote it.
\* Operator keys carry the time and reconciliation keys the row's own; all are
\* written Fresh and kept out of the set of used keys.  (Two processes that
\* reconcile one listing share a key: the second's replay is a mismatch here.)
Fresh == [base |-> 0, step |-> "fresh"]
Key(w, step) == [base |-> job[w].base, step |-> step]

\* What becomes of an Advance under key k from one state to another.
Outcome(k, from, to) ==
  CASE ~Legal(from, to) -> "illegal"
    [] Legal(from, to) /\ <<k, to>> \in log.used -> "replay"
    [] /\ Legal(from, to)
       /\ <<k, to>> \notin log.used
       /\ \E s \in States : <<k, s>> \in log.used -> "reused"
    [] /\ Legal(from, to)
       /\ \A s \in States : <<k, s>> \notin log.used
       /\ row.state # from -> "mismatch"
    [] OTHER -> "applied"

Succeeds(k, from, to) == Outcome(k, from, to) \in {"applied", "replay"}

\* The log after the entry <<from, to>>: the keys it has used, whether any
\* entry is a reinstatement, the state the newest quarantine of a durable
\* copy left, and whether this stay at TRANSFERRING has a same-state entry.
Logged(k, from, to) ==
  [used |-> IF k = Fresh THEN log.used ELSE log.used \cup {<<k, to>>},
   reinstated |-> log.reinstated \/ <<from, to>> \in ReinstatementEdges,
   origin |-> IF to = "QUARANTINED" /\ from \in QuarantineOrigins
                THEN from ELSE log.origin,
   charged |-> IF to = "TRANSFERRING" THEN from = "TRANSFERRING" ELSE log.charged]

\* One Advance: it writes `new` in state `to`, or nothing at all.  A replay
\* writes nothing and does not fail.
Advance(k, from, to, new) ==
  IF Outcome(k, from, to) = "applied"
    THEN /\ row' = [new EXCEPT !.state = to]
         /\ log' = Logged(k, from, to)
    ELSE UNCHANGED journal

\* ReadableLocalPath: the active local placement when there is one, and the
\* recorded local path otherwise.
ReadableCopy(r) ==
  CASE r.placed \/ r.path = "final" -> disk.final
    [] ~r.placed /\ r.path = "partial" -> disk.partial
    [] OTHER -> None

\* Whether a content read from disk is what the record says was committed.
MatchesRecord(r, c) ==
  /\ c # None
  /\ r.bytes # "short"
  /\ SizeOf(c) = "full"
  /\ r.hash # None => c = r.hash

-----------------------------------------------------------------------------
(* Workers.                                                                *)

IdleOp == [pc |-> "idle", hash |-> FALSE, valid |-> FALSE]

IdleJob == [pc |-> "idle", base |-> 0, ro |-> FALSE, got |-> NoRow,
            claimed |-> FALSE, seen |-> None]

\* processArtifact tries its steps in this order and never goes back to one.
StageOf(st) ==
  CASE st \in {"DISCOVERED", "TRANSFERRING"} -> 1
    [] st = "TRANSFERRED" -> 2
    [] st = "VERIFYING" -> 3
    [] st \in {"VERIFIED", "COMMITTING"} -> 4
    [] st \in {"COMMITTED", "REMOTE_DELETE_PENDING"} -> 5
    [] OTHER -> 0

Entry == <<"tlook", "verifying", "vread", "cbegin", "rlook">>

At(w, p) == job[w].pc = p
Goto(w, p) == job' = [job EXCEPT ![w].pc = p]
\* Go on to p, remembering the record r and the content c that were read.
Remember(w, p, r, c) ==
  job' = [job EXCEPT ![w] = [@ EXCEPT !.pc = p, !.got = r, !.seen = c]]

Stop(w) == job' = [job EXCEPT ![w] = IdleJob]

\* Carry on after step `stage` with the record it left, or stop.
Dispatch(w, r, stage) ==
  IF StageOf(r.state) > stage
    THEN job' = [job EXCEPT ![w] = [@ EXCEPT !.pc = Entry[StageOf(r.state)],
                                             !.got = NoRow, !.seen = None,
                                             !.claimed = FALSE]]
    ELSE Stop(w)

\* A step's last journal write: carry on when it succeeded, stop when not.
AdvanceAndDispatch(w, k, from, to, new, stage) ==
  /\ Advance(k, from, to, new)
  /\ IF Succeeds(k, from, to) THEN Dispatch(w, row', stage) ELSE Stop(w)

\* A fault: a call that fails, or the world moving, spends one of the budget.
Fault(kind) == kind \in FaultKinds /\ faults < MaxFaults /\ faults' = faults + 1

\* Discover records the identity the object has when it is found.
Discover ==
  /\ row = NoRow
  /\ remote # None
  /\ row' = [NoRow EXCEPT !.state = "DISCOVERED", !.ver = remote]
  /\ UNCHANGED <<log, disk, job, faults, world>>

\* A cycle starts by reconciling: the rows are listed and the local copy read.
StartCycle(w) ==
  /\ At(w, "idle")
  /\ row # NoRow
  /\ job' = [job EXCEPT ![w] = [IdleJob EXCEPT !.pc = "reconcile", !.got = row,
                                               !.seen = ReadableCopy(row),
                                               !.ro = readOnly]]
  /\ UNCHANGED <<journal, disk, faults, world>>

\* Mutated: the file is compared with the discovered identity, always.
LocalIsDiscovered(r, c) == c = r.ver

\* checkLocalFinal.  A record whose own byte counts contradict each other is
\* settled against the identity captured at discovery.
LocalValid(r, c) ==
  /\ c # None
  /\ IF r.bytes = "short" THEN c = r.ver ELSE MatchesRecord(r, c)

\* Mutated: the remote is not asked about an interrupted deletion.
ReconcileLocallyTo(r, valid) ==
  CASE r.state \in {"COMMITTED", "REMOTE_RETAINED", "REMOTE_DELETE_PENDING"} /\ ~valid ->
         "QUARANTINED"
    [] r.state = "COMPLETE" /\ ~valid -> "QUARANTINED_LOST"
    [] OTHER -> r.state

\* The write reconcileOne makes for a listed row, if any.  COMPLETE for a
\* damaged copy whose source is gone is the first of reconcileToLost's two.
ReconcileTo(r, valid) ==
  CASE r.state \in {"COMMITTED", "REMOTE_RETAINED"} /\ ~valid -> "QUARANTINED"
    [] r.state = "COMPLETE" /\ ~valid -> "QUARANTINED_LOST"
    [] r.state = "REMOTE_DELETE_PENDING" /\ remote = None -> "COMPLETE"
    [] r.state = "REMOTE_DELETE_PENDING" /\ remote # None /\ ~valid -> "QUARANTINED"
    [] OTHER -> r.state

Reconcile(w) ==
  /\ At(w, "reconcile")
  /\ LET r     == job[w].got
         valid == LocalValid(r, job[w].seen)
         to    == ReconcileTo(r, valid)
         lost  == to = "COMPLETE" /\ ~valid /\ Succeeds(Fresh, r.state, to)
     IN /\ IF to # r.state THEN Advance(Fresh, r.state, to, row) ELSE UNCHANGED journal
        /\ Goto(w, IF lost THEN "lost" ELSE "list")
  /\ UNCHANGED <<disk, faults, world>>

\* The second write of reconcileToLost.
ReconcileLost(w) ==
  /\ At(w, "lost")
  /\ Advance(Fresh, "COMPLETE", "QUARANTINED_LOST", row)
  /\ Goto(w, "list")
  /\ UNCHANGED <<disk, faults, world>>

\* The remote could not be looked at: that artifact is left as it is.
ReconcileBlind(w) ==
  /\ At(w, "reconcile")
  /\ job[w].got.state = "REMOTE_DELETE_PENDING"
  /\ Fault("call")
  /\ Goto(w, "list")
  /\ UNCHANGED <<journal, disk, world>>

\* The records are listed again for processing.  The attempt number every key
\* of this pass is built from is the one in this listing.
List(w) ==
  /\ At(w, "list")
  /\ IF StageOf(row.state) > 0
       THEN job' = [job EXCEPT ![w] = [IdleJob EXCEPT !.pc = Entry[StageOf(row.state)],
                                                      !.base = row.retry,
                                                      !.ro = job[w].ro]]
       ELSE Stop(w)
  /\ UNCHANGED <<journal, disk, faults, world>>

-----------------------------------------------------------------------------
(* Transfer.                                                               *)

\* Transfer reads the row and refuses to start over an existing final file.
TransferLook(w) ==
  /\ At(w, "tlook")
  /\ Remember(w, IF disk.final # None THEN "tcollide" ELSE "tclaim", row, None)
  /\ UNCHANGED <<journal, disk, faults, world>>

TransferCollide(w) ==
  /\ At(w, "tcollide")
  /\ Advance(Key(w, "failed:collision"), job[w].got.state, "FAILED", row)
  /\ Stop(w)
  /\ UNCHANGED <<disk, faults, world>>

\* Recording TRANSFERRING.  An attempt whose write is a replay goes on only
\* if the row is at TRANSFERRING, and it has no claim on a failure.
TransferClaim(w) ==
  /\ At(w, "tclaim")
  /\ LET k    == Key(w, "transferring")
         from == job[w].got.state
     IN /\ Advance(k, from, "TRANSFERRING", [row EXCEPT !.path = "partial"])
        /\ IF Succeeds(k, from, "TRANSFERRING") /\ row'.state = "TRANSFERRING"
             THEN job' = [job EXCEPT ![w] =
                    [@ EXCEPT !.pc = "tclear", !.got = row',
                              !.claimed = /\ Outcome(k, from, "TRANSFERRING") = "applied"
                                          /\ from # "TRANSFERRING"]]
             ELSE Stop(w)
  /\ UNCHANGED <<disk, faults, world>>

\* The stale .partial is removed, whoever wrote it.
TransferClear(w) ==
  /\ At(w, "tclear")
  /\ disk' = [disk EXCEPT !.partial = None, !.same = FALSE]
  /\ Goto(w, "tcopy")
  /\ UNCHANGED <<journal, faults, world>>

Copied(w, c) ==
  /\ At(w, "tcopy")
  /\ remote # None
  /\ disk' = [disk EXCEPT !.partial = c, !.same = FALSE, !.synced = FALSE]
  /\ Goto(w, "trecord")
  /\ UNCHANGED <<journal, world>>

TransferCopy(w) == Copied(w, remote) /\ UNCHANGED faults

\* The copy reported success and left the wrong bytes: a short file, or, when
\* the backend could compare no hash or two copies shared rclone's temporary
\* file, one of the right size.
TransferMiscopy(w) == Fault("call") /\ \E c \in {Torn, Mangled} : Copied(w, c)

\* The copy failed: the object is gone, or the retries ran out.
TransferCopyFails(w) ==
  /\ At(w, "tcopy")
  /\ IF remote = None THEN UNCHANGED faults ELSE Fault("call")
  /\ Goto(w, "tfail")
  /\ UNCHANGED <<journal, disk, world>>

\* TRANSFERRED, if the file at the .partial name has the recorded size.
TransferRecord(w) ==
  /\ At(w, "trecord")
  /\ IF disk.partial # None /\ SizeOf(disk.partial) = "full"
       THEN AdvanceAndDispatch(w, Key(w, "transferred"), "TRANSFERRING", "TRANSFERRED",
                               [row EXCEPT !.bytes = "full"], 1)
       ELSE Goto(w, "tfail") /\ UNCHANGED journal
  /\ UNCHANGED <<disk, faults, world>>

\* Mutated: an attempt that is charged and not counted.
SameAttempt(r) == r.retry

\* The attempt number a failed try moves the artifact to.
NextAttempt(r) == r.retry + 1

\* failCopy.  An attempt that claimed the artifact records FAILED.  One that
\* did not is charged, and records FAILED only once the budget is spent and
\* this stay at TRANSFERRING has been charged before.
TransferFail(w) ==
  /\ At(w, "tfail")
  /\ LET attempt == NextAttempt(job[w].got)
         spent   == attempt >= CopyBudget /\ log.charged
     IN CASE job[w].claimed ->
               Advance(Key(w, "failed:copy"), "TRANSFERRING", "FAILED", row)
          [] ~job[w].claimed /\ spent ->
               Advance(Key(w, "failed:copy"), "TRANSFERRING", "FAILED",
                       [row EXCEPT !.retry = attempt])
          [] OTHER ->
               Advance(Key(w, "copy:unclaimed"), "TRANSFERRING", "TRANSFERRING",
                       [row EXCEPT !.retry = attempt])
  /\ Stop(w)
  /\ UNCHANGED <<disk, faults, world>>

-----------------------------------------------------------------------------
(* Verify.                                                                 *)

ToVerifying(w) ==
  /\ At(w, "verifying")
  /\ AdvanceAndDispatch(w, Key(w, "verifying"), "TRANSFERRED", "VERIFYING", row, 2)
  /\ UNCHANGED <<disk, faults, world>>

\* Verify reads the row and the file at its recorded local path.
VerifyRead(w) ==
  /\ At(w, "vread")
  /\ Remember(w, "vjudge", row, CASE row.path = "partial" -> disk.partial
                                  [] row.path = "final"   -> disk.final
                                  [] OTHER -> None)
  /\ UNCHANGED <<journal, disk, faults, world>>

\* expectedSize: the transfer's own count, or the remote's.
ExpectedSize(r) == IF r.bytes = "none" THEN "full" ELSE r.bytes

Judge(w, to, new) ==
  /\ AdvanceAndDispatch(w, Key(w, "verify"), job[w].got.state, to, new, 3)
  /\ UNCHANGED <<disk, world>>

Readable(w) == /\ job[w].seen # None
               /\ SizeOf(job[w].seen) = ExpectedSize(job[w].got)

\* The file cannot be read to its expected size.
VerifyUnreadable(w) ==
  /\ At(w, "vjudge")
  /\ ~Readable(w)
  /\ Judge(w, "FAILED", row)
  /\ UNCHANGED faults

\* Mutated: the measured size lands in the hash column.
HashedSize(w) == [row EXCEPT !.hash = SizeOf(job[w].seen)]

\* The record with the hash of the file that was read.
Hashed(w) == [row EXCEPT !.hash = job[w].seen]

\* Mutated: whatever was copied is right.
RemoteUnasked(w) == TRUE

\* What the remote's hash says, when the policy asks for it: nothing (the
\* object is gone or its hash cannot be had), a mismatch, or agreement.
RemoteAgrees(w) == HashPolicy = "" \/ remote = job[w].seen

VerifyMismatch(w) ==
  /\ At(w, "vjudge")
  /\ Readable(w)
  /\ ~RemoteAgrees(w)
  /\ Judge(w, IF remote = None THEN "FAILED" ELSE "QUARANTINED", Hashed(w))
  /\ UNCHANGED faults

\* Mutated: the validator's exit code is not looked at.
ValidatorRan(w) == TRUE

ValidatorAccepts(w) == HasValidator => job[w].seen \in Accepted

\* The application validator rules on the file; without one the checks passed.
VerifyAccept(w) ==
  /\ At(w, "vjudge")
  /\ Readable(w)
  /\ RemoteAgrees(w)
  /\ IF ValidatorAccepts(w)
       THEN Judge(w, "VERIFIED", [Hashed(w) EXCEPT !.rejected = FALSE])
       ELSE Judge(w, "QUARANTINED", [Hashed(w) EXCEPT !.rejected = TRUE])
  /\ UNCHANGED faults

\* The backend refuses the hash for good, or the validator cannot start.
VerifyCannot(w) ==
  /\ At(w, "vjudge")
  /\ Readable(w)
  /\ HashPolicy # "" \/ HasValidator
  /\ Fault("call")
  /\ Judge(w, "FAILED", Hashed(w))

\* A check that could not be finished is charged to the attempt, and the
\* artifact is quarantined once the budget is spent.
VerifyStall(w) ==
  /\ At(w, "vjudge")
  /\ Readable(w)
  /\ HashPolicy # ""
  /\ Fault("call")
  /\ LET attempt == NextAttempt(job[w].got)
         from    == job[w].got.state
         k       == Key(w, "verify-stall")
         charged == [row EXCEPT !.retry = attempt]
     IN IF attempt >= StallBudget
          THEN AdvanceAndDispatch(w, k, from, "QUARANTINED", charged, 3)
          ELSE Advance(k, from, from, charged) /\ Stop(w)
  /\ UNCHANGED <<disk, world>>

-----------------------------------------------------------------------------
(* Commit.                                                                 *)

\* A replay that finds the row COMMITTED has converged if its file is there.
Converged == row.path = "final" /\ disk.final # None /\ SizeOf(disk.final) = row.bytes

CommitBegin(w) ==
  /\ At(w, "cbegin")
  /\ LET k == Key(w, "committing")
     IN /\ Advance(k, "VERIFIED", "COMMITTING", row)
        /\ CASE ~Succeeds(k, "VERIFIED", "COMMITTING") -> Stop(w)
             [] /\ Succeeds(k, "VERIFIED", "COMMITTING")
                /\ row'.state = "COMMITTING"
                /\ row'.path = "partial" ->
                  Remember(w, "clink", row', None)
             [] /\ Succeeds(k, "VERIFIED", "COMMITTING")
                /\ row'.state = "COMMITTED" /\ Converged -> Dispatch(w, row', 4)
             [] OTHER -> Stop(w)
  /\ UNCHANGED <<disk, faults, world>>

\* Mutated: a rename, which replaces whatever is at the final name.
CommitRename(w) ==
  /\ At(w, "clink")
  /\ IF disk.partial # None
       THEN /\ disk' = [disk EXCEPT !.final = disk.partial, !.partial = None,
                                    !.same = FALSE, !.synced = TRUE, !.safe = FALSE]
            /\ Goto(w, "csync")
       ELSE Stop(w) /\ UNCHANGED disk
  /\ UNCHANGED <<journal, faults, world>>

\* commitFile: fsync the .partial and link it to the final name, unless an
\* earlier attempt got that far.  A final file that is not the .partial, or
\* neither file, is an error, and an error here writes nothing.
CommitLink(w) ==
  /\ At(w, "clink")
  /\ CASE disk.final # None /\ disk.partial # None ->
            /\ IF disk.same THEN Goto(w, "cunlink") ELSE Stop(w)
            /\ UNCHANGED disk
       [] disk.final # None /\ disk.partial = None ->
            Goto(w, "csync") /\ UNCHANGED disk
       [] disk.final = None /\ disk.partial # None ->
            /\ disk' = [disk EXCEPT !.final = disk.partial, !.same = TRUE,
                                    !.synced = TRUE, !.safe = FALSE]
            /\ Goto(w, "cunlink")
       [] OTHER -> Stop(w) /\ UNCHANGED disk
  /\ UNCHANGED <<journal, faults, world>>

CommitUnlink(w) ==
  /\ At(w, "cunlink")
  /\ disk' = [disk EXCEPT !.partial = None, !.same = FALSE]
  /\ Goto(w, "csync")
  /\ UNCHANGED <<journal, faults, world>>

\* Mutated: the directory is not fsynced.
CommitUnsynced(w) ==
  /\ At(w, "csync")
  /\ IF disk.final = None
       THEN Stop(w)
       ELSE Remember(w, "crecord", job[w].got, disk.final)
  /\ UNCHANGED <<journal, disk, faults, world>>

\* The directory is fsynced before COMMITTED is recorded, and the file there
\* is measured.
CommitSync(w) ==
  /\ At(w, "csync")
  /\ disk' = [disk EXCEPT !.safe = TRUE]
  /\ IF disk.final = None
       THEN Stop(w)
       ELSE Remember(w, "crecord", job[w].got, disk.final)
  /\ UNCHANGED <<journal, faults, world>>

\* Mutated: the transfer's own count is believed.
TransferBelieved(w, new) == new

\* measureCommitted: the measured file's own size and hash replace the ones
\* on record when the size is not the one the transfer reported.
Measured(w, new) ==
  IF SizeOf(job[w].seen) = job[w].got.bytes THEN new
  ELSE [new EXCEPT !.bytes = SizeOf(job[w].seen), !.hash = job[w].seen]

CommitRecord(w) ==
  /\ At(w, "crecord")
  /\ AdvanceAndDispatch(w, Key(w, "committed"), "COMMITTING", "COMMITTED",
                        Measured(w, [row EXCEPT !.path = "final", !.placed = TRUE]), 4)
  /\ UNCHANGED <<disk, faults, world>>

-----------------------------------------------------------------------------
(* Retain the remote object, or delete it.                                 *)

\* The same-state write of an already retained artifact is a no-op here.
Retain(w) ==
  /\ At(w, "rlook")
  /\ job[w].ro
  /\ IF row.state \in {"COMMITTED", "REMOTE_DELETE_PENDING", "REMOTE_RETAINED"}
       THEN Advance(Key(w, "retain"), row.state, "REMOTE_RETAINED", row)
       ELSE UNCHANGED journal
  /\ Stop(w)
  /\ UNCHANGED <<disk, faults, world>>

\* Mutated: the log is not searched for a reinstatement.
MayDeleteReinstated == /\ row.state \in {"COMMITTED", "REMOTE_DELETE_PENDING"}
                       /\ MatchesRecord(row, ReadableCopy(row))

\* Mutated: an interrupted deletion is left to somebody else.
MayDeleteOnce == /\ row.state = "COMMITTED"
                 /\ ~log.reinstated
                 /\ MatchesRecord(row, ReadableCopy(row))

\* What DeleteRemote checks before it records any intent.
MayDelete == /\ row.state \in {"COMMITTED", "REMOTE_DELETE_PENDING"}
             /\ ~log.reinstated
             /\ MatchesRecord(row, ReadableCopy(row))

DeleteLook(w) ==
  /\ At(w, "rlook")
  /\ ~job[w].ro
  /\ IF MayDelete
       THEN Remember(w, IF row.state = "COMMITTED" THEN "dintent" ELSE "dstat", row, None)
       ELSE Stop(w)
  /\ UNCHANGED <<journal, disk, faults, world>>

\* Mutated: no intent before the call.
DeleteWithoutIntent(w) ==
  /\ At(w, "dintent")
  /\ Goto(w, "dstat")
  /\ UNCHANGED <<journal, disk, faults, world>>

\* The intent is recorded before any delete call.  Its outcome is not looked
\* at beyond success: a replay goes on.
DeleteIntent(w) ==
  /\ At(w, "dintent")
  /\ LET k == Key(w, "delete:pending")
     IN /\ Advance(k, "COMMITTED", "REMOTE_DELETE_PENDING", row)
        /\ IF Succeeds(k, "COMMITTED", "REMOTE_DELETE_PENDING")
             THEN Goto(w, "dstat") ELSE Stop(w)
  /\ UNCHANGED <<disk, faults, world>>

\* CompareIdentity against the identity captured at discovery.
Identified(w) == remote = job[w].got.ver

\* The remote is looked at again; anything but the identity captured at
\* discovery preserves it.
DeleteStat(w) ==
  /\ At(w, "dstat")
  /\ Goto(w, IF Identified(w) THEN "dcall" ELSE "drefuse")
  /\ UNCHANGED <<journal, disk, faults, world>>

DeleteBlind(w) ==
  /\ At(w, "dstat") \/ At(w, "dcall")
  /\ Fault("call")
  /\ Goto(w, "drefuse")
  /\ UNCHANGED <<journal, disk, world>>

\* The delete names a path: it removes whatever is there by now.
DeleteCall(w) ==
  /\ At(w, "dcall")
  /\ remote' = None
  /\ destroyed' = destroyed \cup ({remote} \ {None})
  /\ \/ remote # None /\ Goto(w, "dcomplete") /\ UNCHANGED faults
     \/ remote = None /\ Goto(w, "drefuse") /\ UNCHANGED faults
     \/ remote # None /\ Goto(w, "drefuse") /\ Fault("call")   \* applied, answer lost
  /\ UNCHANGED <<journal, disk, past, readOnly, op, damaged, ops>>

\* Mutated: a delete that failed is taken for one that was not needed.
DeleteAssumedDone(w) ==
  /\ At(w, "drefuse")
  /\ Advance(Key(w, "delete:refused"), "REMOTE_DELETE_PENDING", "COMPLETE", row)
  /\ Stop(w)
  /\ UNCHANGED <<disk, faults, world>>

DeleteRefuse(w) ==
  /\ At(w, "drefuse")
  /\ Advance(Key(w, "delete:refused"), "REMOTE_DELETE_PENDING",
             "REMOTE_DELETE_PENDING", row)
  /\ Stop(w)
  /\ UNCHANGED <<disk, faults, world>>

DeleteComplete(w) ==
  /\ At(w, "dcomplete")
  /\ Advance(Key(w, "delete:complete"), "REMOTE_DELETE_PENDING", "COMPLETE", row)
  /\ Stop(w)
  /\ UNCHANGED <<disk, faults, world>>

-----------------------------------------------------------------------------
(* The environment.                                                        *)

\* The process dies, is shut down, or a gate that writes nothing (capacity,
\* the safety delay of a "stable" set) ends its pass.
Crash(w) ==
  /\ ~At(w, "idle")
  /\ Fault("crash")
  /\ Stop(w)
  /\ UNCHANGED <<journal, disk, world>>

\* What is left of an unsynced .partial.
Surviving == IF disk.synced \/ disk.partial = None THEN {disk.partial}
             ELSE {disk.partial, Torn, None}

\* The directories a power loss may leave: a link or unlink not yet fsynced
\* is undone, last one first.
AfterPowerLoss ==
  LET settled == [disk EXCEPT !.synced = TRUE, !.safe = TRUE]
      pending == disk.final # None /\ ~disk.safe
      one     == disk.partial = None \/ disk.same
  IN {[settled EXCEPT !.partial = p] : p \in Surviving}
     \cup (IF pending /\ one
             THEN {[settled EXCEPT !.partial = disk.final, !.same = TRUE],
                   [settled EXCEPT !.partial = disk.final, !.final = None,
                                   !.same = FALSE]}
             ELSE {})
     \cup (IF pending /\ ~one
             THEN {[settled EXCEPT !.partial = p, !.final = None] : p \in Surviving}
             ELSE {})

PowerLoss ==
  /\ Fault("power")
  /\ disk' \in AfterPowerLoss
  /\ job' = [w \in Workers |-> IdleJob]
  /\ op' = IdleOp
  /\ UNCHANGED <<journal, remote, past, readOnly, destroyed, damaged, ops>>

\* Somebody else removes or overwrites the committed file.
Damage ==
  /\ disk.final # None
  /\ Fault("damage")
  /\ \E c \in {None, Mangled} : disk' = [disk EXCEPT !.final = c, !.same = FALSE]
  /\ damaged' = TRUE
  /\ UNCHANGED <<journal, job, remote, past, readOnly, op, destroyed, ops>>

\* The committed bytes are readable again: a mount came back, or somebody put
\* the file back.
Repair ==
  /\ "repair" \in Verbs
  /\ damaged /\ row.placed /\ row.hash # None /\ disk.final # row.hash
  /\ ops < MaxOps /\ ops' = ops + 1
  /\ disk' = [disk EXCEPT !.final = row.hash, !.same = FALSE]
  /\ UNCHANGED <<journal, job, remote, past, readOnly, op, destroyed, damaged, faults>>

\* The producer writes another version at the path, or removes the object.
\* Between the stat and the delete only where races are in scope.
ProducerReplace ==
  /\ row # NoRow
  /\ "race" \in FaultKinds \/ \A w \in Workers : ~At(w, "dcall")
  /\ Fault("producer")
  /\ \E v \in Versions \ past : remote' = v /\ past' = past \cup {v}
  /\ UNCHANGED <<journal, disk, job, readOnly, op, destroyed, damaged, ops>>

ProducerRemove ==
  /\ row # NoRow
  /\ remote # None
  /\ Fault("producer")
  /\ remote' = None
  /\ UNCHANGED <<journal, disk, job, past, readOnly, op, destroyed, damaged, ops>>

Environment == \/ \E w \in Workers : Crash(w)
               \/ PowerLoss \/ Damage \/ Repair
               \/ ProducerReplace \/ ProducerRemove

-----------------------------------------------------------------------------
(* The operator.                                                           *)

Intervene(verb) ==
  verb \in Verbs /\ op.pc = "idle" /\ ops < MaxOps /\ ops' = ops + 1

Untouched == UNCHANGED <<disk, job, remote, past, readOnly, destroyed, damaged, faults>>

\* RetryQuarantinedIngestion: re-enter the pipeline, with the attempt number
\* the artifact already has.
RetryQuarantinedIngestion ==
  /\ Intervene("retry-quarantined")
  /\ row.state = "QUARANTINED"
  /\ Advance(Fresh, "QUARANTINED", "DISCOVERED", row)
  /\ UNCHANGED op /\ Untouched

\* lifecycle.ReleaseFromQuarantine: the same edge, and another attempt.
ReleaseFromQuarantine ==
  /\ Intervene("release-quarantined")
  /\ row.state = "QUARANTINED"
  /\ Advance(Fresh, "QUARANTINED", "DISCOVERED", [row EXCEPT !.retry = @ + 1])
  /\ UNCHANGED op /\ Untouched

\* Whether the file at the final name is already this artifact's remote copy.
AlreadyHere == row.path = "final" /\ disk.final # None /\ remote = disk.final

\* RetryFailedIngestion over a file that is the remote's own bytes records
\* what it measures and asks for reinstatement.
RetryInPlace ==
  /\ Intervene("retry-failed")
  /\ row.state = "FAILED" /\ AlreadyHere
  /\ Advance(Fresh, "FAILED", "FAILED",
             [row EXCEPT !.bytes = SizeOf(disk.final), !.hash = disk.final])
  /\ op' = [op EXCEPT !.pc = "check"]
  /\ Untouched

\* lifecycle.RetryFailed: back to the start, as another attempt.
RetryFailed ==
  /\ Intervene("retry-failed")
  /\ row.state = "FAILED" /\ ~AlreadyHere
  /\ Advance(Fresh, "FAILED", "DISCOVERED", [row EXCEPT !.retry = @ + 1])
  /\ UNCHANGED op /\ Untouched

\* The remote's hash could not be had: the same as a file that is not its own.
RetryFailedBlind ==
  /\ Intervene("retry-failed")
  /\ row.state = "FAILED" /\ AlreadyHere
  /\ Fault("call")
  /\ Advance(Fresh, "FAILED", "DISCOVERED", [row EXCEPT !.retry = @ + 1])
  /\ UNCHANGED <<op, disk, job, remote, past, readOnly, destroyed, damaged>>

\* runValidationChecks over the local copy: present, still the recorded hash,
\* still accepted.
ChecksPass(r, c) == /\ c # None
                    /\ r.hash # None => c = r.hash
                    /\ HasValidator => c \in Accepted

\* ReinstateQuarantined gathers its evidence: what could have failed, and did
\* not.
GatherEvidence ==
  /\ row.state \in ExceptionalStates
  /\ ChecksPass(row, ReadableCopy(row))
  /\ op' = [pc |-> IF row.state = "FAILED" THEN "hold" ELSE "reinstate",
            hash |-> row.hash # None, valid |-> HasValidator]

Reinstate ==
  /\ \/ Intervene("reinstate")
     \/ op.pc = "check" /\ UNCHANGED ops
  /\ GatherEvidence
  /\ UNCHANGED journal /\ Untouched

\* The checks an in-place retry asks for do not pass: it ends there.
ReinstateFails ==
  /\ op.pc = "check"
  /\ ~(row.state \in ExceptionalStates /\ ChecksPass(row, ReadableCopy(row)))
  /\ op' = IdleOp
  /\ UNCHANGED <<journal, ops>> /\ Untouched

\* A FAILED artifact is held in QUARANTINED first.
HoldForJudgement ==
  /\ op.pc = "hold"
  /\ Advance(Fresh, "FAILED", "QUARANTINED", row)
  /\ op' = IF Succeeds(Fresh, "FAILED", "QUARANTINED")
             THEN [op EXCEPT !.pc = "reinstate"] ELSE IdleOp
  /\ UNCHANGED ops /\ Untouched

\* lifecycle.ReinstateFromQuarantine: conclusive evidence, the validator's own
\* where it rejected these bytes, and a state the artifact really left.
Conclusive == /\ op.hash \/ op.valid
              /\ row.rejected => op.valid

Target == IF row.state = "QUARANTINED_LOST" THEN "COMPLETE"
          ELSE ReinstatementTarget(log.origin)

ReinstateFromQuarantine ==
  /\ op.pc = "reinstate"
  /\ IF /\ row.state \in QuarantineStates /\ Conclusive
        /\ row.state = "QUARANTINED" => log.origin # "none"
       THEN Advance(Fresh, row.state, Target,
                    IF op.valid THEN [row EXCEPT !.rejected = FALSE] ELSE row)
       ELSE UNCHANGED journal
  /\ op' = IdleOp
  /\ UNCHANGED ops /\ Untouched

\* ValidateArtifact: a durable artifact that fails its checks is quarantined.
ValidateArtifact ==
  /\ Intervene("validate")
  /\ row.state \in DurableRestorePoints
  /\ ~ChecksPass(row, ReadableCopy(row))
  /\ Advance(Fresh, row.state, IF row.state = "COMPLETE" THEN "QUARANTINED_LOST"
                               ELSE "QUARANTINED", row)
  /\ UNCHANGED op /\ Untouched

\* lifecycle.ReleaseFromRetention.
ReleaseFromRetention ==
  /\ Intervene("release-retained")
  /\ row.state = "REMOTE_RETAINED"
  /\ Advance(Fresh, "REMOTE_RETAINED", "COMMITTED", row)
  /\ UNCHANGED op /\ Untouched

ToggleReadOnly ==
  /\ Intervene("read-only")
  /\ readOnly' = ~readOnly
  /\ UNCHANGED <<journal, disk, job, remote, past, op, destroyed, damaged, faults>>

Operator ==
  \/ RetryQuarantinedIngestion \/ ReleaseFromQuarantine
  \/ RetryInPlace \/ RetryFailed \/ RetryFailedBlind
  \/ Reinstate \/ ReinstateFails \/ HoldForJudgement \/ ReinstateFromQuarantine
  \/ ValidateArtifact \/ ReleaseFromRetention \/ ToggleReadOnly

-----------------------------------------------------------------------------

Init ==
  /\ row = NoRow
  /\ log = [used |-> {}, reinstated |-> FALSE, origin |-> "none", charged |-> FALSE]
  /\ disk = [partial |-> None, final |-> None, same |-> FALSE, synced |-> TRUE,
             safe |-> TRUE]
  /\ remote \in Versions
  /\ past = {remote}
  /\ readOnly \in BOOLEAN
  /\ job = [w \in Workers |-> IdleJob]
  /\ op = IdleOp
  /\ destroyed = {}
  /\ damaged = FALSE
  /\ faults = 0
  /\ ops = 0

Step(w) ==
  \/ StartCycle(w) \/ Reconcile(w) \/ ReconcileLost(w) \/ ReconcileBlind(w) \/ List(w)
  \/ TransferLook(w) \/ TransferCollide(w) \/ TransferClaim(w) \/ TransferClear(w)
  \/ TransferCopy(w) \/ TransferMiscopy(w) \/ TransferCopyFails(w)
  \/ TransferRecord(w) \/ TransferFail(w)
  \/ ToVerifying(w) \/ VerifyRead(w) \/ VerifyUnreadable(w) \/ VerifyMismatch(w)
  \/ VerifyAccept(w) \/ VerifyCannot(w) \/ VerifyStall(w)
  \/ CommitBegin(w) \/ CommitLink(w) \/ CommitUnlink(w) \/ CommitSync(w)
  \/ CommitRecord(w)
  \/ Retain(w) \/ DeleteLook(w) \/ DeleteIntent(w) \/ DeleteStat(w) \/ DeleteBlind(w)
  \/ DeleteCall(w) \/ DeleteRefuse(w) \/ DeleteComplete(w)

Next == Discover \/ (\E w \in Workers : Step(w)) \/ Environment \/ Operator

Spec == Init /\ [][Next]_vars

\* The scheduler starts a cycle after every interval, a cycle discovers and
\* walks every artifact, and a call ends, in failure if need be.  Nothing is
\* assumed of faults, of the producer or of the operator.
Fairness == WF_vars(Discover) /\ \A w \in Workers : WF_vars(Step(w))

FairSpec == Spec /\ Fairness

-----------------------------------------------------------------------------
(* Types.                                                                  *)

Steps == {"fresh", "failed:collision", "transferring", "transferred", "failed:copy",
          "copy:unclaimed", "verifying", "verify", "verify-stall", "committing",
          "committed", "retain", "delete:pending", "delete:refused", "delete:complete"}

Keys == [base : Nat, step : Steps]

MaybeContent == Contents \cup {None}

Rows == [state : States \cup {"none"}, retry : Nat,
         path : {"none", "partial", "final"}, ver : Versions \cup {None},
         bytes : {"none", "short", "full"}, hash : MaybeContent,
         placed : BOOLEAN, rejected : BOOLEAN]

Logs == [used : SUBSET (Keys \X States), reinstated : BOOLEAN,
         origin : QuarantineOrigins \cup {"none"}, charged : BOOLEAN]

Disks == [partial : MaybeContent, final : MaybeContent, same : BOOLEAN,
          synced : BOOLEAN, safe : BOOLEAN]

Places == {"idle", "reconcile", "lost", "list", "tlook", "tcollide", "tclaim",
           "tclear", "tcopy", "trecord", "tfail", "verifying", "vread", "vjudge",
           "cbegin", "clink", "cunlink", "csync", "crecord", "rlook", "dintent",
           "dstat", "dcall", "drefuse", "dcomplete"}

Jobs == [pc : Places, base : Nat, ro : BOOLEAN, got : Rows, claimed : BOOLEAN,
         seen : MaybeContent]

\* Every variable holds a value of its shape: the journal's columns, the two
\* file names, and where each worker and the operator are.
TypeOK ==
  /\ row \in Rows
  /\ log \in Logs
  /\ disk \in Disks
  /\ remote \in Versions \cup {None}
  /\ past \subseteq Versions
  /\ readOnly \in BOOLEAN
  /\ job \in [Workers -> Jobs]
  /\ op \in [pc : {"idle", "check", "hold", "reinstate"}, hash : BOOLEAN,
             valid : BOOLEAN]
  /\ destroyed \subseteq Versions
  /\ damaged \in BOOLEAN
  /\ faults \in 0 .. MaxFaults
  /\ ops \in 0 .. MaxOps

-----------------------------------------------------------------------------
(* Safety.                                                                 *)

\* DeleteRemote's gate (remotedelete.go): whatever the manager deleted from
\* the remote is, bytes for bytes, the file at the final name, unless
\* something outside the manager damaged that file.
NoLoss == \A v \in destroyed : disk.final = v \/ damaged

\* Commit fsyncs the file, links it and fsyncs the directory before COMMITTED
\* is recorded (commit.go, crash_safety.go): a record that promises a durable
\* copy has one a power loss cannot take back.
CommittedIsDurable ==
  row.state \in DurableRestorePoints =>
    (disk.final # None /\ disk.safe) \/ damaged

\* Verify hashes the .partial and Commit renames it in a later step
\* (verify.go, commit.go): the committed bytes are still the hashed ones.
CommittedIsWhatWasHashed ==
  row.state \in DurableRestorePoints => disk.final = row.hash \/ damaged

\* A validator that is configured has accepted every copy a record calls
\* durable (verify.go, quarantine.go): a rejection keeps the source.
OnlyAcceptedTrusted ==
  HasValidator /\ row.state \in DurableRestorePoints => disk.final \in Accepted \/ damaged

\* A copy the record calls durable is only distrusted over a reason found in
\* that copy (verify.go, reconcile.go).
DistrustIsFounded ==
  [][row.state \in DurableRestorePoints /\ row'.state \in QuarantineStates
       => damaged \/ disk.final # row.hash \/ row.bytes = "short"]_vars

\* The intent is journalled strictly before the delete call
\* (remotedelete.go): no object is deleted by a manager whose log shows none.
IntentLogged ==
  \E e \in log.used : e[1].step = "delete:pending" /\ e[2] = "REMOTE_DELETE_PENDING"

IntentBeforeDelete == destroyed # {} => IntentLogged

\* A record that reads COMMITTED or earlier says the remote is untouched
\* (crash_safety.go), and one that reads REMOTE_RETAINED that it will stay so
\* (state.go): the delete call finds neither, unless damage to the file made an
\* operator take the artifact elsewhere.
DeletesUnderIntent ==
  [][destroyed' # destroyed =>
       damaged \/ row.state \notin InProgress \cup {"COMMITTED", "REMOTE_RETAINED"}]_vars

\* COMPLETE and QUARANTINED_LOST say the source is gone: the version that was
\* discovered is not at the remote path any more, whoever removed it.
CompleteMeansGone ==
  row.state \in {"COMPLETE", "QUARANTINED_LOST"} => remote # row.ver

\* A reinstated artifact never authorises deleting its source again
\* (remotedelete.go, quarantine.go): from then on nobody enters the delete
\* step, however the artifact travels afterwards and whoever re-ingests it.
Deleting(w) == job[w].pc \in {"dintent", "dstat", "dcall"}

ReinstatedIsKept ==
  [][log.reinstated => \A w \in Workers : Deleting(w)' => Deleting(w)]_vars

-----------------------------------------------------------------------------
(* The inductive form of three of the invariants: each says that a fact    *)
(* which never ceases to hold was established before anything relied on it.*)

\* The final file is there under a durable name: nothing but damage from
\* outside ends that.
Secured == (disk.final # None /\ disk.safe) \/ damaged

\* The promise is made by the records a durable copy leaves behind, and by a
\* worker about to write COMMITTED.
SecuredFirst ==
  (\/ row.state \in DurableRestorePoints \cup {"QUARANTINED_LOST"}
   \/ log.origin # "none"
   \/ \E w \in Workers : At(w, "crecord"))
  => Secured

\* The intent stays in the log once it is there, and every stage past it
\* relies on it.
IntentFirst ==
  (\/ row.state = "REMOTE_DELETE_PENDING"
   \/ \E w \in Workers : job[w].pc \in {"dstat", "dcall", "drefuse", "dcomplete"}
   \/ destroyed # {})
  => IntentLogged

\* The path is never the discovered version's again once it is not, and only
\* then is the artifact called complete.
GoneFirst ==
  /\ remote \in past \cup {None}
  /\ IF row.state = "none" THEN row = NoRow /\ \A w \in Workers : At(w, "idle")
                          ELSE row.ver \in past
  /\ (\/ row.state \in {"COMPLETE", "QUARANTINED_LOST"}
      \/ \E w \in Workers : At(w, "dcomplete"))
     => remote # row.ver

\* What the deletion path rests on (commit.go, remotedelete.go): the copy is
\* secured before it is recorded, the intent before the delete call, and the
\* deletion seen before COMPLETE.
EachBeforeTheNext == SecuredFirst /\ IntentFirst /\ GoneFirst

-----------------------------------------------------------------------------
(* Liveness.                                                               *)

\* An artifact in progress reaches a durable or an exceptional state, unless
\* somebody took its file away (app/cycle.go: every cycle walks every record;
\* reconcile.go: safe to retry or restart from any of these states).
Settles == row.state \in InProgress ~> row.state \notin InProgress \/ damaged

\* A recorded deletion whose object is gone is resolved by reconcile.go,
\* whatever came between the delete call and the journal, unless the producer
\* puts another object there.
DeletionResolves ==
  row.state = "REMOTE_DELETE_PENDING" /\ remote = None
    ~> row.state # "REMOTE_DELETE_PENDING" \/ remote # None

\* A committed artifact of a writable set is deleted from the remote in the
\* end (processArtifact offers it every cycle), unless one of DeleteRemote's
\* gates has a reason to keep it for good.
Reclaims ==
  row.state = "COMMITTED" /\ ~readOnly
    ~> \/ remote # row.ver \/ readOnly \/ log.reinstated \/ damaged
       \/ row.state \in {"QUARANTINED", "REMOTE_RETAINED"}

-----------------------------------------------------------------------------
(* What all of it implements.                                              *)

\* The durable copy: a file at the final name whose name is durable too.
Held == IF disk.safe THEN disk.final ELSE None

Promise == INSTANCE Custody WITH source <- remote, held <- Held,
                                 deleted <- destroyed, spoiled <- damaged

\* The whole pipeline implements Custody: the source is released only against
\* a durable copy of its own bytes, and a durable copy is never replaced.
KeepsCustody == Promise!Spec

=============================================================================
