---------------------------- MODULE SnapshotRun ----------------------------
(***************************************************************************)
(* The snapshots of one backup set: the pass of a cycle, which reconciles  *)
(* the catalog with the repository and then takes a snapshot               *)
(* (internal/app/snapshotcycle.go, internal/snapshotlifecycle), retention, *)
(* which deletes snapshots (internal/snapshotretention), and the operator  *)
(* who holds them.                                                         *)
(*                                                                         *)
(* A step ends wherever another actor can come between two calls.  A cycle *)
(* and a retention pass decide from what they read at their start; every   *)
(* write is checked against the row as they remember it (Validate) and as  *)
(* it is (AdvanceAllowed).                                                 *)
(***************************************************************************)
EXTENDS SnapshotCatalog

CONSTANTS
  Cycles,     \* the processes that run cycles
  Protect,    \* protect_last_known_good
  FaultKinds, \* what may go wrong: call, crash, lose, put
  MaxFaults,  \* bound on what goes wrong
  MaxHolds    \* bound on the holds placed

ASSUME SnapshotAssumption ==
  /\ Protect \in BOOLEAN /\ FaultKinds \subseteq {"call", "crash", "lose", "put"}
  /\ MaxFaults \in Nat /\ MaxHolds \in Nat

VARIABLES
  repo,    \* the manifests in the repository
  job,     \* where each cycle is, and what it has read
  pass,    \* where the retention pass is, and what it has read
  whole,   \* the manifests whose pass over the source covered it
  proved,  \* the manifests a verification passed
  removed, \* the manifests retention removed
  lost,    \* the manifests somebody else removed
  faults, holds

history == <<whole, proved, removed, lost>>
bounds == <<faults, holds>>
vars == <<catalogVars, repo, job, pass, history, bounds>>

NoKey == <<"none", 0>>

\* doing: reconciling or running.  key and mem are the row in hand as the cycle
\* remembers it; present, owned and list are the repository, the claims and the rows
\* as it read them; todo is what is left of a list.
IdleJob == [pc |-> "idle", doing |-> "none", key |-> NoKey, mem |-> NoRow, present |-> {},
            owned |-> {}, list |-> [k \in {} |-> NoRow], todo |-> {}]
IdlePass == [pc |-> "idle", delete |-> {}, keep |-> {}, run |-> 0]

Init ==
  /\ CatalogInit
  /\ repo = {}
  /\ job = [c \in Cycles |-> IdleJob]
  /\ pass = IdlePass
  /\ whole = {} /\ proved = {} /\ removed = {} /\ lost = {}
  /\ faults = 0 /\ holds = 0

At(c, pc) == job[c].pc = pc
With(c, new) == job' = [job EXCEPT ![c] = Over(@, new)]
Stop(c) == job' = [job EXCEPT ![c] = IdleJob]
Fault(kind) == kind \in FaultKinds /\ faults < MaxFaults /\ faults' = faults + 1
Elsewhere == <<held, repo, pass, history, bounds>>

-----------------------------------------------------------------------------
(* The one write of a cycle: advance (run.go) and move (reconcile.go).     *)

\* Row k, remembered as mem, goes to a phase; what is refused ends the cycle.
Write(c, k, mem, to, upd, new) ==
  /\ IF Validate(mem.phase, to) /\ AdvanceAllowed(row[k].phase, to) /\ Unclaimed(k, upd)
     THEN /\ Advanced(k, to, upd)
          /\ With(c, Over2([key |-> k, mem |-> Over(Over(mem, [phase |-> to]), upd)], new))
     ELSE UNCHANGED row /\ Stop(c)
  /\ UNCHANGED Elsewhere

WriteInHand(c, to, upd, new) == Write(c, job[c].key, job[c].mem, to, upd, new)

\* Where a cycle goes when the row in hand is settled.
Settled(c) ==
  IF job[c].doing = "run" THEN IdleJob
  ELSE [pc |-> "unfinished", key |-> NoKey, mem |-> NoRow]

-----------------------------------------------------------------------------
(* Reconcile: what it reads.                                               *)

\* repositorySnapshots comes first; without it nothing is decided.
ListRepository(c) ==
  /\ At(c, "idle")
  /\ With(c, [pc |-> "owned", doing |-> "reconcile", present |-> repo])
  /\ UNCHANGED <<row, Elsewhere>>

\* DomainSnapshotIDs, read once for the pass.
ReadOwned(c) ==
  /\ At(c, "owned")
  /\ With(c, [pc |-> "worklist",
              owned |-> {claim \in Manifests \X Keys : Claims(claim[2], claim[1])}])
  /\ UNCHANGED <<row, Elsewhere>>

\* unfinishedFor.
ReadUnfinished(c) ==
  /\ At(c, "worklist")
  /\ With(c, [pc |-> "unfinished", list |-> [k \in UnfinishedKeys |-> row[k]],
              todo |-> UnfinishedKeys])
  /\ UNCHANGED <<row, Elsewhere>>

-----------------------------------------------------------------------------
(* Reconcile: the runs a crash interrupted.                                *)

\* orphanFor: the manifest tagged with this run, and no other row claims it.
Orphan(c, k) ==
  /\ k = Run(k[2]) /\ k[2] \in job[c].present
  /\ \A claim \in job[c].owned : claim[1] = k[2] => claim[2] = k

Rest(c, k) == [pc |-> "unfinished", key |-> NoKey, mem |-> NoRow, todo |-> job[c].todo \ {k}]

\* Nothing was written yet, or nothing of it is found.
Abandon(c) ==
  /\ At(c, "unfinished")
  /\ \E k \in job[c].todo :
       /\ \/ job[c].list[k].phase \in {"PENDING", "SOURCE_SCAN"}
          \/ job[c].list[k].phase = "SNAPSHOT_WRITE" /\ ~Orphan(c, k)
       /\ Write(c, k, job[c].list[k], "FAILED", Nothing, Rest(c, k))

\* Mutated: the phase moves on, and the manifest is left to be claimed later.
AdoptUnnamed(c) ==
  /\ At(c, "unfinished")
  /\ \E k \in job[c].todo :
       /\ job[c].list[k].phase = "SNAPSHOT_WRITE" /\ Orphan(c, k)
       /\ Write(c, k, job[c].list[k], "MANIFEST_COMMITTED", Nothing,
                [pc |-> "reload", todo |-> job[c].todo \ {k},
                 owned |-> job[c].owned \cup {<<k[2], k>>}])

\* adopt: the manifest is claimed; of the pass over the source nothing is known.
Adopt(c) ==
  /\ At(c, "unfinished")
  /\ \E k \in job[c].todo :
       /\ job[c].list[k].phase = "SNAPSHOT_WRITE" /\ Orphan(c, k)
       /\ Write(c, k, job[c].list[k], "MANIFEST_COMMITTED", [id |-> k[2]],
                [pc |-> "reload", todo |-> job[c].todo \ {k},
                 owned |-> job[c].owned \cup {<<k[2], k>>}])
\* reload: the row as the journal has it now.
Reload(c) ==
  /\ At(c, "reload")
  /\ With(c, [pc |-> "unverified", mem |-> row[job[c].key]])
  /\ UNCHANGED <<row, Elsewhere>>

\* Who got as far as a manifest is verified again, or has only to be committed.
TakeUp(c) ==
  /\ At(c, "unfinished")
  /\ \E k \in job[c].todo :
       /\ job[c].list[k].phase \in {"MANIFEST_COMMITTED", "VERIFICATION", "CATALOG_COMMIT"}
       /\ With(c, [pc |-> IF job[c].list[k].phase = "CATALOG_COMMIT" THEN "complete"
                          ELSE "unverified",
                   key |-> k, mem |-> job[c].list[k], todo |-> job[c].todo \ {k}])
  /\ UNCHANGED <<row, Elsewhere>>

\* Mutated: an adopted manifest is believed to cover the source.
DoubtfulOnlyIfRefuted(c) ==
  \/ job[c].doing = "reconcile" /\ job[c].mem.id \notin job[c].present
  \/ job[c].mem.complete = "no"

\* What must not become a restore point: reconciliation asks for the manifest, and
\* both ask that the source is on record as covered (sourceIncompleteReason).
Doubtful(c) ==
  \/ job[c].doing = "reconcile" /\ job[c].mem.id \notin job[c].present
  \/ job[c].mem.complete # "yes"

\* completeCommit.
CompleteCommit(c) ==
  /\ At(c, "complete")
  /\ IF Doubtful(c) \/ job[c].mem.status # "passed"
     THEN WriteInHand(c, "FAILED", Nothing, Settled(c))
     ELSE WriteInHand(c, "SUCCESS", Nothing, Settled(c))

-----------------------------------------------------------------------------
(* From a manifest to a restore point: resolveUnverified and               *)
(* verifyAndCommit.                                                        *)

BeginVerification(c) ==
  /\ At(c, "unverified")
  /\ IF Doubtful(c) THEN WriteInHand(c, "FAILED", Nothing, Settled(c))
     ELSE IF job[c].mem.phase = "VERIFICATION"
     THEN WriteInHand(c, "MANIFEST_COMMITTED", Nothing, [pc |-> "unverified"])
     ELSE WriteInHand(c, "VERIFICATION", [status |-> "pending"], [pc |-> "verify"])

\* The engine reads the snapshot; it may find fault with it.
Verify(c) ==
  /\ At(c, "verify")
  /\ \/ /\ job[c].mem.id \in repo
        /\ proved' = proved \cup {job[c].mem.id}
        /\ With(c, [pc |-> "sound"])
     \/ With(c, [pc |-> "unsound"]) /\ UNCHANGED proved
  /\ UNCHANGED <<catalogVars, repo, pass, whole, removed, lost, bounds>>

RecordVerification(c) ==
  \/ At(c, "sound") /\ WriteInHand(c, "CATALOG_COMMIT", [status |-> "passed"], [pc |-> "commit"])
  \/ At(c, "unsound") /\ WriteInHand(c, "FAILED", [status |-> "failed"], Settled(c))

Commit(c) ==
  /\ At(c, "commit")
  /\ WriteInHand(c, "SUCCESS", Nothing, Settled(c))

-----------------------------------------------------------------------------
(* Reconcile: the finished runs, what nobody accounts for, and the restore *)
(* point.                                                                  *)

\* Mutated: a delete that was decided is left to retention.
OverdueLost(c, k) ==
  /\ row[k].id \in Manifests \ job[c].present
  /\ row[k].phase = "SUCCESS" /\ ~row[k].intent

\* resolveFinished: rows of manifests that are gone.
Overdue(c, k) ==
  /\ row[k].id \in Manifests \ job[c].present
  /\ \/ row[k].intent /\ row[k].phase \notin {"DELETED", "QUARANTINED"}
     \/ row[k].phase = "SUCCESS"

ReadHistory(c) ==
  /\ At(c, "unfinished") /\ job[c].todo = {}
  /\ LET overdue == {k \in Keys : Overdue(c, k)} IN
     With(c, [pc |-> "finished", list |-> [k \in overdue |-> row[k]], todo |-> overdue])
  /\ UNCHANGED <<row, Elsewhere>>

\* A delete that was decided has happened; anything else is a loss.
ResolveFinished(c) ==
  /\ At(c, "finished")
  /\ \E k \in job[c].todo :
       Write(c, k, job[c].list[k], IF job[c].list[k].intent THEN "DELETED" ELSE "LOST", Nothing,
             [pc |-> "finished", key |-> NoKey, mem |-> NoRow, todo |-> job[c].todo \ {k}])

\* quarantineUnattributed: by the claims as they were read.
Attribute(c) ==
  /\ At(c, "finished") /\ job[c].todo = {}
  /\ With(c, [pc |-> "attribute", list |-> IdleJob.list,
              todo |-> {Found(m) : m \in {n \in job[c].present :
                                            \A claim \in job[c].owned : claim[1] # n}}])
  /\ UNCHANGED <<row, Elsewhere>>

\* quarantine: a row of its own; where there is one already nothing is done.
BeginQuarantine(c) ==
  /\ At(c, "attribute")
  /\ \E k \in job[c].todo :
       \/ /\ row[k] = NoRow
          /\ Begun(k)
          /\ With(c, [pc |-> "quarantine", key |-> k, mem |-> [NoRow EXCEPT !.phase = "PENDING"],
                      todo |-> job[c].todo \ {k}])
       \/ /\ row[k] # NoRow
          /\ With(c, [todo |-> job[c].todo \ {k}]) /\ UNCHANGED row
  /\ UNCHANGED Elsewhere
Quarantine(c) ==
  /\ At(c, "quarantine")
  /\ WriteInHand(c, "QUARANTINED", [id |-> job[c].key[2]],
                 [pc |-> "attribute", key |-> NoKey, mem |-> NoRow])

Newest(S) == CHOOSE r \in S : \A other \in S : other <= r

\* What may be advertised when nothing is.
Restorables(c) ==
  {r \in Runs : row[Run(r)].phase = "SUCCESS" /\ row[Run(r)].id \in job[c].present}

\* repointLastKnownGood: look, then write.
LookForRestorePoint(c) ==
  /\ At(c, "attribute") /\ job[c].todo = {}
  /\ IF BestKeys # {} \/ Restorables(c) = {} THEN With(c, [pc |-> "begin"])
     ELSE With(c, [pc |-> "repoint", key |-> Run(Newest(Restorables(c)))])
  /\ UNCHANGED <<row, Elsewhere>>
Repoint(c) ==
  /\ At(c, "repoint")
  /\ IF MayRepoint(job[c].key) THEN Repointed(job[c].key) /\ With(c, [pc |-> "begin"])
     ELSE UNCHANGED row /\ Stop(c)
  /\ UNCHANGED Elsewhere

-----------------------------------------------------------------------------
(* Run.                                                                    *)

Unstarted == {r \in Runs : row[Run(r)] = NoRow}

\* One key per cycle; a submission that arrives again meets its own row and the
\* cycle ends with what that says.
Begin(c) ==
  /\ At(c, "begin")
  /\ \/ /\ Unstarted # {}
        /\ LET r == CHOOSE s \in Unstarted : \A other \in Unstarted : s <= other IN
           /\ Begun(Run(r))
           /\ job' = [job EXCEPT ![c] = [IdleJob EXCEPT !.pc = "scan", !.doing = "run",
                                           !.key = Run(r), !.mem.phase = "PENDING"]]
     \/ Stop(c) /\ UNCHANGED row
  /\ UNCHANGED Elsewhere

Scan(c) ==
  /\ At(c, "scan")
  /\ WriteInHand(c, "SOURCE_SCAN", Nothing, [pc |-> "open"])

OpenTree(c) ==
  /\ At(c, "open")
  /\ \/ WriteInHand(c, "SNAPSHOT_WRITE", Nothing, [pc |-> "write"])
     \/ WriteInHand(c, "FAILED", Nothing, IdleJob)

\* SnapshotTree stores the manifest, or fails; when its answer is lost it has done
\* both.  The pass over the source has covered it or not.
SnapshotTree(c) ==
  /\ At(c, "write")
  /\ \E covered \in BOOLEAN :
       LET m == job[c].key[2]
           stored == /\ repo' = repo \cup {m}
                     /\ whole' = IF covered THEN whole \cup {m} ELSE whole IN
       \/ /\ stored /\ UNCHANGED faults
          /\ With(c, [pc |-> "record",
                      mem |-> [job[c].mem EXCEPT !.complete = IF covered THEN "yes" ELSE "no"]])
       \/ With(c, [pc |-> "failed"]) /\ UNCHANGED <<repo, whole, faults>>
       \/ Fault("call") /\ stored /\ With(c, [pc |-> "failed"])
  /\ UNCHANGED <<catalogVars, pass, proved, removed, lost, holds>>

\* The manifest and what is known of the source are one write.
RecordManifest(c) ==
  \/ /\ At(c, "record")
     /\ WriteInHand(c, "MANIFEST_COMMITTED",
                    [id |-> job[c].key[2], complete |-> job[c].mem.complete],
                    [pc |-> "unverified"])
  \/ At(c, "failed") /\ WriteInHand(c, "FAILED", Nothing, IdleJob)

-----------------------------------------------------------------------------
(* Retention.                                                              *)

\* InScope: a completed, verified backup.
InScope(r) ==
  row[Run(r)].phase = "SUCCESS" /\ row[Run(r)].id # NoId /\ row[Run(r)].status # "failed"
Scope == {r \in Runs : InScope(r)}

\* restorePointUnconfirmed.
Unconfirmed == Protect /\ ~\E k \in BestKeys : row[k].id \in repo
MarkedBest(r) == Protect /\ row[Run(r)].lkg

\* refusesNow: the row and the holds as they are now.
RefusesNow(r) == ~InScope(r) \/ MarkedBest(r) \/ r \in held

Going(new) == pass' = IF new.delete \cup new.keep = {} THEN IdlePass ELSE new
BesidePass == <<held, job, whole, proved, lost, holds>>

\* plan: the tiers keep what they keep, the newest in scope is protected, and so is
\* what is held.  Who is kept and carries an intent has it withdrawn.
Plan ==
  /\ pass.pc = "idle"
  /\ \E tiers \in SUBSET Scope :
       LET kept == tiers \cup (held \cap Scope)
                     \cup (IF Protect /\ Scope # {} THEN {Newest(Scope)} ELSE {})
           doomed == {r \in Scope \ kept : ~MarkedBest(r)} IN
       Going([pc |-> "apply", delete |-> IF Unconfirmed THEN {} ELSE doomed,
              keep |-> {r \in kept : row[Run(r)].intent}, run |-> 0])
  /\ UNCHANGED <<row, BesidePass, repo, removed, faults>>

\* Oldest first.
Turn(r) == /\ pass.pc = "apply" /\ r \in pass.delete \cup pass.keep
           /\ \A other \in pass.delete \cup pass.keep : r <= other

\* withdrawStaleIntent.
WithdrawIntent(r) ==
  /\ Turn(r) /\ r \in pass.keep
  /\ IF MayClear(Run(r)) THEN Cleared(Run(r)) ELSE UNCHANGED row
  /\ Going([pass EXCEPT !.keep = @ \ {r}])
  /\ UNCHANGED <<BesidePass, repo, removed, faults>>

\* Apply, for one snapshot: everything is asked again.
Recheck(r) ==
  /\ Turn(r) /\ r \in pass.delete
  /\ \/ Unconfirmed /\ Going([pass EXCEPT !.delete = {}])
     \/ ~Unconfirmed /\ RefusesNow(r) /\ Going([pass EXCEPT !.delete = @ \ {r}])
     \/ /\ ~Unconfirmed /\ ~RefusesNow(r)
        /\ pass' = [pass EXCEPT !.pc = "mark", !.run = r, !.delete = @ \ {r}]
  /\ UNCHANGED <<row, BesidePass, repo, removed, faults>>

On == [pass EXCEPT !.pc = "apply", !.run = 0]

\* The intent is durable before the repository is asked.
Mark ==
  /\ pass.pc = "mark"
  /\ IF MayMark(Run(pass.run)) THEN Marked(Run(pass.run)) /\ pass' = [pass EXCEPT !.pc = "delete"]
     ELSE UNCHANGED row /\ Going(On)
  /\ UNCHANGED <<BesidePass, repo, removed, faults>>

\* DeleteSnapshot: one that is not there counts as deleted; a call that fails may
\* have been carried out.
DeleteManifest ==
  LET gone == repo' = repo \ {pass.run} /\ removed' = removed \cup ({pass.run} \cap repo) IN
  /\ pass.pc = "delete"
  /\ \/ gone /\ pass' = [pass EXCEPT !.pc = "record"] /\ UNCHANGED faults
     \/ Fault("call") /\ gone /\ Going(On)
     \/ Fault("call") /\ UNCHANGED <<repo, removed>> /\ Going(On)
  /\ UNCHANGED <<row, BesidePass>>

\* A deletion that cannot be recorded ends the deletions of the pass.
RecordDeleted ==
  /\ pass.pc = "record"
  /\ IF AdvanceAllowed(row[Run(pass.run)].phase, "DELETED")
     THEN Advanced(Run(pass.run), "DELETED", Nothing) /\ Going(On)
     ELSE UNCHANGED row /\ Going([On EXCEPT !.delete = {}])
  /\ UNCHANGED <<BesidePass, repo, removed, faults>>

Retention ==
  \/ Plan \/ Mark \/ DeleteManifest \/ RecordDeleted
  \/ \E r \in Runs : WithdrawIntent(r) \/ Recheck(r)

-----------------------------------------------------------------------------
(* The operator and the surroundings.                                      *)

\* PlaceSnapshotHold, and ReleaseSnapshotHold.
PlaceHold(r) ==
  /\ holds < MaxHolds /\ r \notin held /\ MayHold(Run(r))
  /\ held' = held \cup {r} /\ holds' = holds + 1
  /\ UNCHANGED <<row, repo, job, pass, history, faults>>
ReleaseHold(r) ==
  /\ r \in held /\ held' = held \ {r}
  /\ UNCHANGED <<row, repo, job, pass, history, bounds>>
Operator == \E r \in Runs : PlaceHold(r) \/ ReleaseHold(r)

\* A process dies, or its journal answers no more.
Crash ==
  /\ Fault("crash")
  /\ \/ \E c \in Cycles : job[c] # IdleJob /\ Stop(c) /\ UNCHANGED pass
     \/ pass # IdlePass /\ pass' = IdlePass /\ UNCHANGED job
  /\ UNCHANGED <<catalogVars, repo, history, holds>>

\* Somebody else removes a snapshot, or stores one under the identity of this set.
Lose(m) ==
  /\ m \in repo /\ Fault("lose")
  /\ repo' = repo \ {m} /\ lost' = lost \cup {m}
  /\ UNCHANGED <<catalogVars, job, pass, whole, proved, removed, holds>>
PutForeign(m) ==
  /\ m \in Foreign \ (repo \cup lost) /\ Fault("put")
  /\ repo' = repo \cup {m}
  /\ UNCHANGED <<catalogVars, job, pass, history, holds>>
Surroundings == Crash \/ \E m \in Manifests : Lose(m) \/ PutForeign(m)

Reconcile(c) ==
  \/ ListRepository(c) \/ ReadOwned(c) \/ ReadUnfinished(c)
  \/ Abandon(c) \/ Adopt(c) \/ Reload(c) \/ TakeUp(c) \/ CompleteCommit(c)
  \/ ReadHistory(c) \/ ResolveFinished(c) \/ Attribute(c) \/ BeginQuarantine(c) \/ Quarantine(c)
  \/ LookForRestorePoint(c) \/ Repoint(c)
TakeSnapshot(c) ==
  \/ Begin(c) \/ Scan(c) \/ OpenTree(c) \/ SnapshotTree(c) \/ RecordManifest(c)
CycleStep(c) ==
  \/ Reconcile(c) \/ TakeSnapshot(c)
  \/ BeginVerification(c) \/ Verify(c) \/ RecordVerification(c) \/ Commit(c)

Next == (\E c \in Cycles : CycleStep(c)) \/ Retention \/ Operator \/ Surroundings

Spec == Init /\ [][Next]_vars

\* The scheduler starts a cycle at every interval, and each call of one ends.
Fairness == \A c \in Cycles : WF_vars(CycleStep(c))
FairSpec == Spec /\ Fairness

-----------------------------------------------------------------------------
(* Properties.                                                             *)

\* The columns and the places of every actor have the values the code gives them.
TypeOK ==
  /\ CatalogTypeOK
  /\ repo \subseteq Manifests
  /\ \A c \in Cycles : job[c].key \in Keys \cup {NoKey} /\ job[c].mem \in Rows
  /\ pass.delete \subseteq Runs /\ pass.keep \subseteq Runs
  /\ history \in (SUBSET Manifests) \X (SUBSET Manifests) \X (SUBSET Manifests) \X (SUBSET Manifests)

\* What a set advertises was proved good, and it is withdrawn only for a newer one or
\* because it is gone (snapshotlifecycle/doc.go:25).
Best == IF BestKeys = {} THEN NoId ELSE row[CHOOSE k \in BestKeys : TRUE].id
Promise == INSTANCE RestorePoint
  WITH there <- repo, proven <- proved \cap whole, lost <- lost, best <- Best, None <- NoId
KeepsPromise == Promise!Spec

\* Every run ends (snapshotlifecycle/doc.go:19), whatever interrupted it.
RunsResolve ==
  \A k \in Keys : row[k].phase \in Unfinished ~> row[k].phase \notin Unfinished

\* While a completed snapshot is in the repository one of them comes to be advertised
\* (snapshotlifecycle/reconcile.go:865).
Restorable == \E r \in Runs : row[Run(r)].phase = "SUCCESS" /\ r \in repo
RestorePointReturns == Restorable ~> (Best \in repo \/ ~Restorable)

\* What retention removed comes to be recorded, through crashes and lost answers
\* (snapshotlifecycle/reconcile.go:732).
RemovalsRecorded ==
  \A r \in Runs : r \in removed ~> row[Run(r)].phase \in {"DELETED", "LOST"}

=============================================================================
