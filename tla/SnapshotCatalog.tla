-------------------------- MODULE SnapshotCatalog --------------------------
(***************************************************************************)
(* The catalog of snapshot runs of one backup set: the rows of             *)
(* internal/state/snapshots.go, the holds of snapshotholds.go, and the     *)
(* graph of phases of internal/snapshotlifecycle/phases.go.                *)
(*                                                                         *)
(* A manifest is a snapshot as the repository knows it.  SnapshotTree is   *)
(* called once in a run, so the manifest of a run has the number of the    *)
(* run; runs are numbered in the order they start.  Foreign manifests are  *)
(* put into the repository by somebody else.  A row stands for a run, or   *)
(* for a manifest that reconciliation found and could not attribute.       *)
(***************************************************************************)
EXTENDS Naturals, FiniteSets

CONSTANTS
  MaxRuns,  \* the number of runs a behaviour may start
  Foreign,  \* manifests no run of this set wrote: numbers beyond MaxRuns
  NoId      \* the empty snapshot id

Runs == 1..MaxRuns
Manifests == Runs \cup Foreign

ASSUME CatalogAssumption ==
  /\ MaxRuns \in Nat /\ Foreign \subseteq Nat \ Runs /\ IsFiniteSet(Foreign)
  /\ NoId \notin Nat

VARIABLES
  row,   \* the rows of the catalog
  held   \* the runs with an active hold

catalogVars == <<row, held>>

Run(m) == <<"run", m>>
Found(m) == <<"found", m>>
Keys == {"run", "found"} \X Manifests

-----------------------------------------------------------------------------
(* Phases.                                                                 *)

Path == <<"PENDING", "SOURCE_SCAN", "SNAPSHOT_WRITE", "MANIFEST_COMMITTED", "VERIFICATION",
          "CATALOG_COMMIT", "SUCCESS">>
OnPath == {Path[i] : i \in 1..7}
Unfinished == OnPath \ {"SUCCESS"}
Phases == OnPath \cup {"FAILED", "LOST", "DELETED", "QUARANTINED"}
Rank(p) == CHOOSE i \in 1..7 : Path[i] = p

\* Edges, with a move to the same phase: what a writer may mean to do.
Edges ==
  {<<Path[i], Path[i + 1]>> : i \in 1..6}
    \cup {<<p, "FAILED">> : p \in Unfinished}
    \cup {<<"VERIFICATION", "MANIFEST_COMMITTED">>, <<"SUCCESS", "LOST">>,
          <<"SUCCESS", "DELETED">>, <<"LOST", "DELETED">>, <<"PENDING", "QUARANTINED">>}
Validate(from, to) == from = to \/ <<from, to>> \in Edges

\* snapshotAdvanceAllowed: what the journal lets a row do, whoever writes.
AdvanceAllowed(from, to) ==
  \/ from = to
  \/ from = "VERIFICATION" /\ to = "MANIFEST_COMMITTED"
  \/ from \in OnPath /\ to \in OnPath /\ Rank(to) > Rank(from)
  \/ from \in Unfinished /\ to \in {"FAILED", "QUARANTINED"}
  \/ from = "SUCCESS" /\ to = "LOST"
  \/ from \in {"SUCCESS", "LOST"} /\ to = "DELETED"

-----------------------------------------------------------------------------
(* Rows.  complete says what is recorded of the pass over the source,      *)
(* status of the verification; lkg marks the last known good snapshot, and *)
(* intent a delete that is decided and not yet recorded as done.           *)

NoRow == [phase |-> "none", id |-> NoId, complete |-> "unknown", status |-> "none",
          lkg |-> FALSE, intent |-> FALSE]
Rows == [phase : Phases \cup {"none"}, id : Manifests \cup {NoId},
         complete : {"yes", "no", "unknown"}, status : {"none", "pending", "passed", "failed"},
         lkg : BOOLEAN, intent : BOOLEAN]

\* Who is past the write of the manifest names one, and a run that succeeded was
\* verified.
CatalogTypeOK ==
  /\ row \in [Keys -> Rows] /\ held \subseteq Runs
  /\ \A k \in Keys :
       /\ row[k].phase \in Phases \ {"PENDING", "SOURCE_SCAN", "SNAPSHOT_WRITE", "FAILED"}
            => row[k].id # NoId
       /\ row[k].phase \in {"SUCCESS", "LOST", "DELETED"} => row[k].status = "passed"
CatalogInit == row = [k \in Keys |-> NoRow] /\ held = {}

\* The columns of an update that names only some of them.
Over(r, upd) == [f \in DOMAIN r |-> IF f \in DOMAIN upd THEN upd[f] ELSE r[f]]
Over2(a, b) == [f \in DOMAIN a \cup DOMAIN b |-> IF f \in DOMAIN b THEN b[f] ELSE a[f]]
Nothing == [f \in {} |-> FALSE]

\* DomainSnapshotIDs: which row accounts for a manifest; a claimed manifest has one.
Claims(k, m) == row[k].id = m
Owned == {m \in Manifests : \E k \in Keys : Claims(k, m)}

\* Mutated: a run that has only to be committed is not taken up again.
UnfinishedKeysUncommitted ==
  {k \in Keys : row[k].phase \in Unfinished \ {"CATALOG_COMMIT"}}

\* UnfinishedSnapshotRuns.
UnfinishedKeys == {k \in Keys : row[k].phase \in Unfinished}
Unclaimed(k, upd) ==
  "id" \in DOMAIN upd => \A j \in Keys \ {k} : row[j].id # upd.id

\* BeginSnapshotRun under a fresh key.
Begun(k) == row' = [row EXCEPT ![k] = [NoRow EXCEPT !.phase = "PENDING"]]

\* Mutated: a lost snapshot keeps the mark.
AdvancedKeepsMark(k, to, upd) ==
  LET moves == row[k].phase # to
      new == Over(Over(row[k], [phase |-> to]), upd) IN
  row' = [j \in Keys |->
            IF j = k
            THEN [new EXCEPT !.lkg = IF moves /\ to = "SUCCESS" THEN TRUE
                                     ELSE IF moves /\ to = "DELETED" THEN FALSE ELSE @]
            ELSE IF moves /\ to = "SUCCESS" THEN [row[j] EXCEPT !.lkg = FALSE]
            ELSE row[j]]

\* AdvanceSnapshotRun, once the journal allows it.  Success takes the mark of the
\* last known good from whichever row has it, in the same transaction.
Advanced(k, to, upd) ==
  LET moves == row[k].phase # to
      new == Over(Over(row[k], [phase |-> to]), upd) IN
  row' = [j \in Keys |->
            IF j = k
            THEN [new EXCEPT !.lkg = IF moves /\ to = "SUCCESS" THEN TRUE
                                     ELSE IF moves /\ to \in {"LOST", "DELETED"} THEN FALSE ELSE @]
            ELSE IF moves /\ to = "SUCCESS" THEN [row[j] EXCEPT !.lkg = FALSE]
            ELSE row[j]]

\* LastKnownGoodSnapshot.
BestKeys == {k \in Keys : row[k].lkg}

\* RepointLastKnownGood.
MayRepoint(k) == row[k].phase = "SUCCESS"
Repointed(k) == row' = [j \in Keys |-> [row[j] EXCEPT !.lkg = (j = k)]]

\* MarkSnapshotDeleteRequested: the holds are not among what it asks.
MayMark(k) == row[k].phase \in {"SUCCESS", "LOST"}
Marked(k) == row' = [row EXCEPT ![k].intent = TRUE]

\* ClearSnapshotDeleteRequested.
MayClear(k) == row[k].phase # "DELETED"
Cleared(k) == row' = [row EXCEPT ![k].intent = FALSE]

\* PlaceSnapshotHold refuses what a hold could not protect.
MayHold(k) ==
  row[k].id # NoId /\ row[k].phase \notin {"DELETED", "LOST"} /\ ~row[k].intent

=============================================================================
