---------------------------- MODULE CustodyProofs ----------------------------
(***************************************************************************)
(* What ArtifactPipeline promises about the two copies of an artifact.     *)
(*                                                                         *)
(* For any number of processes, versions, faults and interventions:        *)
(* nothing is deleted from the remote but what the manager durably holds.  *)
(* Two things are assumed of that (Compared).  The validation policy asks  *)
(* for the remote's hash: without one nothing ties the local bytes to the  *)
(* remote's.  And the producer does not write between a worker's last look *)
(* at the object and its delete call, which names a path and takes         *)
(* whatever is there.                                                      *)
(*                                                                         *)
(* For one process, under any policy: what was hashed and accepted is what *)
(* is committed, a durable copy is only distrusted for a reason in it, and *)
(* every deletion finds the record where its intent left it.  Two          *)
(* processes can break each of these (README, limits).                     *)
(***************************************************************************)
EXTENDS ArtifactPipelineProofs

Compared == HashPolicy = "sha256" /\ "race" \notin FaultKinds

-----------------------------------------------------------------------------
(* The invariant.                                                          *)

\* The states of a whole copy that is not committed yet, and the states past
\* the comparison with the remote.
Landed == {"TRANSFERRED", "VERIFYING", "VERIFIED", "COMMITTING"}
Vouched == {"VERIFIED", "COMMITTING"} \cup DurableRestorePoints

\* What the record says can be relied on: a landed copy has the full size, a
\* verified one that nobody reinstated has the remote's hash as long as the
\* remote has the discovered version, and a durable one has a placement.
Evidence ==
  /\ row.state \in Landed => row.bytes = "full"
  /\ HashPolicy = "sha256" =>
       (row.state \in Vouched /\ ~log.reinstated /\ remote = row.ver /\ row.bytes # "short"
          => row.hash = row.ver)
  /\ ~Untrusted => row.placed

\* A worker that is committing found the full size in the record it read.
CommitsFull == \A w \in Workers : Committing(w) => job[w].got.bytes = "full"

\* The discovered version is the durable local copy.
Kept == (disk.final = row.ver /\ disk.safe) \/ damaged

\* A worker that is deleting compared the copy with the discovered version,
\* and past its last look at the path only that version can still be there.
DeletesKept ==
  /\ \A w \in Workers : Deleting(w) => job[w].got.ver = row.ver
                                       /\ (remote = row.ver => Kept)
  /\ \A w \in Workers : At(w, "dcall") => remote \in {None, row.ver}

DestroyedKept == \A v \in destroyed : v = row.ver /\ Kept

\* What is true of the record under any policy, and what the comparison with
\* the remote adds to it.
RecordInv == TypeOK /\ SecuredFirst /\ GoneFirst /\ Evidence /\ CommitsFull

CustodyInv == RecordInv /\ DeletesKept /\ DestroyedKept

-----------------------------------------------------------------------------
(* The evidence in the record.                                             *)

\* The edges into each of the groups of states.
LEMMA Edges ==
  ASSUME NEW from, NEW to, Legal(from, to)
  PROVE  /\ to \in Landed => from \in Landed \/ <<from, to>> = <<"TRANSFERRING", "TRANSFERRED">>
         /\ to \in Vouched => \/ from \in Vouched \/ <<from, to>> \in ReinstatementEdges
                              \/ <<from, to>> = <<"VERIFYING", "VERIFIED">>
         /\ to \in Trusted => \/ from \in Trusted \/ from = "QUARANTINED"
                              \/ <<from, to>> = <<"COMMITTING", "COMMITTED">>
<1>1. CASE from = to
  BY <1>1
<1>2. CASE <<from, to>> \in Transitions
  <2>1. to \in Landed => from \in Landed \/ <<from, to>> = <<"TRANSFERRING", "TRANSFERRED">>
    BY <1>2 DEF Transitions, Landed
  <2>2. to \in Vouched => \/ from \in Vouched \/ <<from, to>> = <<"VERIFYING", "VERIFIED">>
                          \/ from \in QuarantineStates /\ to \in DurableRestorePoints
    BY <1>2 DEF Transitions, Vouched, DurableRestorePoints, QuarantineStates
  <2>3. to \in Trusted => \/ from \in Trusted \/ from = "QUARANTINED"
                          \/ <<from, to>> = <<"COMMITTING", "COMMITTED">>
    BY <1>2 DEF Transitions, Trusted, DurableRestorePoints
  <2>4. from \in QuarantineStates /\ to \in DurableRestorePoints
          => <<from, to>> \in ReinstatementEdges
    BY <1>2 DEF ReinstatementEdges
  <2>5. QED
    BY <2>1, <2>2, <2>3, <2>4
<1>3. QED
  BY <1>1, <1>2 DEF Legal

\* A write whose new record supports what its state will claim.
Founded(from, to, new) ==
  /\ to \in Landed => new.bytes = "full" \/ (from \in Landed /\ new.bytes = row.bytes)
  /\ HashPolicy = "sha256" =>
       (to \in Vouched => \/ from \in Vouched /\ new.hash = row.hash /\ new.bytes = row.bytes
                          \/ new.hash = remote
                          \/ new.bytes = "short"
                          \/ <<from, to>> \in ReinstatementEdges)
  /\ row.placed => new.placed
  /\ to \in Trusted => from \in Trusted \/ log.origin # "none" \/ new.placed

WritesFounded ==
  \/ UNCHANGED journal
  \/ \E k, from, to : \E new \in Rows : /\ Advance(k, from, to, new) /\ new.ver = row.ver
                                    /\ Founded(from, to, new)

LEMMA FoundedKeeps ==
  ASSUME TypeOK, Evidence, row.state \in States => (remote' = row.ver => remote' = remote),
         WritesFounded
  PROVE  Evidence'
<1>0. Vouched \subseteq States
  BY DEF Vouched, States, InProgress
<1>1. CASE UNCHANGED journal
  BY <1>0, <1>1 DEF journal, Evidence, Untrusted
<1>2. ASSUME NEW k, NEW from, NEW to, NEW new \in Rows,
             row.state = from, Legal(from, to), row' = [new EXCEPT !.state = to],
             log' = Logged(k, from, to), new.ver = row.ver, Founded(from, to, new)
      PROVE  Evidence'
  <2>1. /\ row'.state = to /\ row'.bytes = new.bytes /\ row'.hash = new.hash
        /\ row'.ver = row.ver /\ row'.placed = new.placed
    BY <1>2 DEF Rows
  <2>2. /\ log'.reinstated = (log.reinstated \/ <<from, to>> \in ReinstatementEdges)
        /\ log'.origin # "none" => log.origin # "none" \/ from \in QuarantineOrigins
    BY <1>2 DEF Logged
  <2>3. row'.state \in Landed => row'.bytes = "full"
    BY <1>2, <2>1 DEF Evidence, Founded
  <2>4. HashPolicy = "sha256" =>
          (row'.state \in Vouched /\ ~log'.reinstated /\ remote' = row'.ver
             /\ row'.bytes # "short" => row'.hash = row'.ver)
    BY <1>2, <2>1, <2>2 DEF Evidence, Founded, Legal
  <2>5. ~Untrusted' => row'.placed
    <3>1. QuarantineOrigins \subseteq Trusted
      BY DEF QuarantineOrigins, Trusted, DurableRestorePoints
    <3>2. QED
      BY <1>2, <2>1, <2>2, <3>1 DEF Evidence, Founded, Untrusted
  <2>6. QED
    BY <2>3, <2>4, <2>5 DEF Evidence
<1>3. QED
  BY <1>1, <1>2, AdvanceCases DEF WritesFounded

\* A write that leaves the measurements alone is founded unless it takes one of
\* the three edges that have to bring a measurement with them.
SameCopy(new) == /\ new.ver = row.ver /\ new.bytes = row.bytes
                 /\ new.hash = row.hash /\ new.placed = row.placed

Measuring == {<<"TRANSFERRING", "TRANSFERRED">>, <<"VERIFYING", "VERIFIED">>,
              <<"COMMITTING", "COMMITTED">>}

LEMMA SameCopyFounded ==
  ASSUME NEW k, NEW from, NEW to, NEW new \in Rows, Advance(k, from, to, new),
         SameCopy(new), <<from, to>> \notin Measuring,
         from = "QUARANTINED" /\ to \in Trusted => log.origin # "none"
  PROVE  WritesFounded
<1>1. CASE UNCHANGED journal
  BY <1>1 DEF WritesFounded
<1>2. CASE Legal(from, to)
  <2>1. Founded(from, to, new)
    BY <1>2, Edges DEF Founded, SameCopy, Measuring
  <2>2. QED
    BY <2>1 DEF WritesFounded, SameCopy
<1>3. QED
  BY <1>1, <1>2, AdvanceCases

LEMMA RowSame == SameCopy(row)
BY DEF SameCopy

LEMMA CycleFounded ==
  ASSUME TypeOK, NEW w \in Workers,
         \/ StartCycle(w) \/ Reconcile(w) \/ ReconcileLost(w) \/ ReconcileBlind(w)
         \/ List(w)
  PROVE  WritesFounded
<1>0. row \in Rows /\ SameCopy(row)
  BY RowSame DEF TypeOK
<1>1. CASE StartCycle(w) \/ ReconcileBlind(w) \/ List(w)
  BY <1>1 DEF StartCycle, ReconcileBlind, List, journal, WritesFounded
<1>2. CASE ReconcileLost(w)
  <2>1. Advance(Fresh, "COMPLETE", "QUARANTINED_LOST", row)
    BY <1>2 DEF ReconcileLost
  <2>2. QED
    BY <1>0, <2>1, SameCopyFounded DEF Measuring
<1>3. CASE Reconcile(w)
  <2> DEFINE r == job[w].got
             to == ReconcileTo(r, LocalValid(r, job[w].seen))
  <2>1. IF to # r.state THEN Advance(Fresh, r.state, to, row) ELSE UNCHANGED journal
    BY <1>3, Zenon DEF Reconcile
  <2>2. CASE to = r.state
    BY <2>1, <2>2 DEF WritesFounded
  <2>3. CASE to # r.state
    <3>1. Advance(Fresh, r.state, to, row)
      BY <2>1, <2>3
    <3>2. r.state \in DurableRestorePoints
      BY <2>3 DEF ReconcileTo, DurableRestorePoints
    <3> HIDE DEF r, to
    <3>3. <<r.state, to>> \notin Measuring /\ r.state # "QUARANTINED"
      BY <3>2 DEF Measuring, DurableRestorePoints
    <3>4. QED
      BY <1>0, <3>1, <3>3, SameCopyFounded
  <2>4. QED
    BY <2>2, <2>3
<1>4. QED
  BY <1>1, <1>2, <1>3

LEMMA TransferFounded ==
  ASSUME TypeOK, NEW w \in Workers,
         \/ TransferLook(w) \/ TransferCollide(w) \/ TransferClaim(w)
         \/ TransferClear(w) \/ TransferCopy(w) \/ TransferMiscopy(w)
         \/ TransferCopyFails(w) \/ TransferRecord(w) \/ TransferFail(w)
  PROVE  WritesFounded
<1>0. row \in Rows /\ SameCopy(row) /\ job[w].got \in Rows
  BY RowSame DEF TypeOK, Jobs
<1>1. CASE \/ TransferLook(w) \/ TransferClear(w) \/ TransferCopy(w)
           \/ TransferMiscopy(w) \/ TransferCopyFails(w)
  BY <1>1 DEF TransferLook, TransferClear, TransferCopy, TransferMiscopy, Copied,
              TransferCopyFails, journal, WritesFounded
<1>2. \A from, to : to \in {"FAILED", "TRANSFERRING"}
                      => <<from, to>> \notin Measuring /\ to \notin Trusted
  BY DEF Measuring, Trusted, DurableRestorePoints
<1>3. CASE TransferCollide(w)
  BY <1>0, <1>2, <1>3, SameCopyFounded DEF TransferCollide
<1>4. CASE TransferClaim(w)
  <2> DEFINE new == [row EXCEPT !.path = "partial"]
  <2>1. new \in Rows /\ SameCopy(new)
    BY <1>0 DEF Rows, SameCopy
  <2>2. Advance(Key(w, "transferring"), job[w].got.state, "TRANSFERRING", new)
    BY <1>4, Zenon DEF TransferClaim
  <2> HIDE DEF new
  <2>3. QED
    BY <1>2, <2>1, <2>2, SameCopyFounded
<1>5. CASE TransferRecord(w)
  <2> DEFINE new == [row EXCEPT !.bytes = "full"]
  <2>1. new \in Rows /\ new.bytes = "full" /\ new.ver = row.ver /\ new.placed = row.placed
    BY <1>0 DEF Rows
  <2>2. \/ UNCHANGED journal
        \/ Advance(Key(w, "transferred"), "TRANSFERRING", "TRANSFERRED", new)
    BY <1>5 DEF TransferRecord, AdvanceAndDispatch
  <2> HIDE DEF new
  <2>3. Founded("TRANSFERRING", "TRANSFERRED", new)
    BY <2>1 DEF Founded, Vouched, Trusted, DurableRestorePoints
  <2>4. QED
    BY <2>1, <2>2, <2>3 DEF WritesFounded
<1>6. CASE TransferFail(w)
  <2> DEFINE charged == [row EXCEPT !.retry = NextAttempt(job[w].got)]
  <2>1. charged \in Rows /\ SameCopy(charged)
    BY <1>0, NextAttemptType DEF Rows, SameCopy
  <2>2. \/ Advance(Key(w, "failed:copy"), "TRANSFERRING", "FAILED", row)
        \/ Advance(Key(w, "failed:copy"), "TRANSFERRING", "FAILED", charged)
        \/ Advance(Key(w, "copy:unclaimed"), "TRANSFERRING", "TRANSFERRING", charged)
    BY <1>6, SMTT(30) DEF TransferFail
  <2> HIDE DEF charged
  <2>3. QED
    BY <1>0, <1>2, <2>1, <2>2, SameCopyFounded
<1>7. QED
  BY <1>1, <1>3, <1>4, <1>5, <1>6

\* Verify takes the hash of the file it read and, when the policy asks for the
\* remote's, calls the artifact verified only if they agree.
LEMMA VerifyFounded ==
  ASSUME TypeOK, NEW w \in Workers,
         \/ ToVerifying(w) \/ VerifyRead(w) \/ VerifyUnreadable(w)
         \/ VerifyMismatch(w) \/ VerifyAccept(w) \/ VerifyCannot(w) \/ VerifyStall(w)
  PROVE  WritesFounded
<1>0. row \in Rows /\ SameCopy(row) /\ job[w].got \in Rows /\ job[w].seen \in MaybeContent
  BY RowSame DEF TypeOK, Jobs
<1>1. CASE VerifyRead(w)
  BY <1>1 DEF VerifyRead, journal, WritesFounded
<1>2. CASE ToVerifying(w)
  <2>1. Advance(Key(w, "verifying"), "TRANSFERRED", "VERIFYING", row)
    BY <1>2 DEF ToVerifying, AdvanceAndDispatch
  <2>2. QED
    BY <1>0, <2>1, SameCopyFounded DEF Measuring
<1>3. ASSUME NEW to \in {"FAILED", "QUARANTINED"}, NEW new \in Rows, Judge(w, to, new),
             new.ver = row.ver, new.placed = row.placed
      PROVE  WritesFounded
  <2>1. Founded(job[w].got.state, to, new)
    BY <1>3 DEF Founded, Landed, Vouched, Trusted, DurableRestorePoints
  <2>2. QED
    BY <1>3, <2>1 DEF Judge, AdvanceAndDispatch, WritesFounded
<1>4. /\ Hashed(w) \in Rows /\ Hashed(w).ver = row.ver /\ Hashed(w).placed = row.placed
      /\ Hashed(w).bytes = row.bytes /\ Hashed(w).hash = job[w].seen
  BY <1>0 DEF Hashed, Rows
<1>5. CASE VerifyUnreadable(w)
  BY <1>0, <1>3, <1>5 DEF VerifyUnreadable
<1>6. CASE VerifyMismatch(w) \/ VerifyCannot(w)
  BY <1>3, <1>4, <1>6 DEF VerifyMismatch, VerifyCannot
<1>7. CASE VerifyAccept(w)
  <2> DEFINE new(b) == [Hashed(w) EXCEPT !.rejected = b]
  <2>1. \A b \in BOOLEAN : /\ new(b) \in Rows /\ new(b).ver = row.ver
                           /\ new(b).placed = row.placed /\ new(b).bytes = row.bytes
                           /\ new(b).hash = job[w].seen
    BY <1>4 DEF Rows
  <2>2. Judge(w, "VERIFIED", new(FALSE)) \/ Judge(w, "QUARANTINED", new(TRUE))
    BY <1>7 DEF VerifyAccept
  <2>3. HashPolicy = "sha256" => job[w].seen = remote
    BY <1>7 DEF VerifyAccept, RemoteAgrees
  <2> HIDE DEF new
  <2>4. CASE Judge(w, "QUARANTINED", new(TRUE))
    BY <1>3, <2>1, <2>4
  <2>5. CASE Judge(w, "VERIFIED", new(FALSE))
    <3> DEFINE from == job[w].got.state
    <3>1. Advance(Key(w, "verify"), from, "VERIFIED", new(FALSE))
      BY <2>5 DEF Judge, AdvanceAndDispatch
    <3> HIDE DEF from
    <3>2. CASE UNCHANGED journal
      BY <3>2 DEF WritesFounded
    <3>3. CASE Legal(from, "VERIFIED")
      <4>1. from \in Landed
        <5>1. "VERIFIED" \in Landed
          BY DEF Landed
        <5>2. <<from, "VERIFIED">> # <<"TRANSFERRING", "TRANSFERRED">>
          OBVIOUS
        <5>3. QED
          BY <3>3, <5>1, <5>2, Edges
      <4>2. Founded(from, "VERIFIED", new(FALSE))
        BY <2>1, <2>3, <4>1 DEF Founded, Trusted, DurableRestorePoints
      <4>3. QED
        BY <2>1, <3>1, <4>2 DEF WritesFounded
    <3>4. QED
      BY <3>1, <3>2, <3>3, AdvanceCases
  <2>6. QED
    BY <2>2, <2>4, <2>5
<1>8. CASE VerifyStall(w)
  <2> DEFINE from == job[w].got.state
             charged == [row EXCEPT !.retry = NextAttempt(job[w].got)]
  <2>1. charged \in Rows /\ SameCopy(charged)
    BY <1>0, NextAttemptType DEF Rows, SameCopy
  <2>2. \/ Advance(Key(w, "verify-stall"), from, "QUARANTINED", charged)
        \/ Advance(Key(w, "verify-stall"), from, from, charged)
    BY <1>8, Zenon DEF VerifyStall, AdvanceAndDispatch
  <2>3. \A st : <<st, "QUARANTINED">> \notin Measuring /\ <<st, st>> \notin Measuring
    BY DEF Measuring
  <2>4. "QUARANTINED" \notin Trusted
    BY DEF Trusted, DurableRestorePoints
  <2> HIDE DEF from, charged
  <2>5. QED
    BY <2>1, <2>2, <2>3, <2>4, SameCopyFounded
<1>9. QED
  BY <1>1, <1>2, <1>5, <1>6, <1>7, <1>8

\* What Commit measures either confirms the record or shows a short file.
LEMMA CommitFounded ==
  ASSUME TypeOK, CommitsFull, NEW w \in Workers,
         \/ CommitBegin(w) \/ CommitLink(w) \/ CommitUnlink(w) \/ CommitSync(w)
         \/ CommitRecord(w)
  PROVE  WritesFounded
<1>0. row \in Rows /\ SameCopy(row) /\ job[w].seen \in MaybeContent
  BY RowSame DEF TypeOK, Jobs
<1>1. CASE CommitLink(w) \/ CommitUnlink(w) \/ CommitSync(w)
  BY <1>1 DEF CommitLink, CommitUnlink, CommitSync, journal, WritesFounded
<1>2. CASE CommitBegin(w)
  <2>1. Advance(Key(w, "committing"), "VERIFIED", "COMMITTING", row)
    BY <1>2, Zenon DEF CommitBegin
  <2>2. QED
    BY <1>0, <2>1, SameCopyFounded DEF Measuring
<1>3. CASE CommitRecord(w)
  <2> DEFINE plain == [row EXCEPT !.path = "final", !.placed = TRUE]
             new == Measured(w, plain)
  <2>1. Advance(Key(w, "committed"), "COMMITTING", "COMMITTED", new) /\ At(w, "crecord")
    BY <1>3 DEF CommitRecord, AdvanceAndDispatch
  <2>2. plain \in Rows /\ plain.ver = row.ver /\ plain.placed /\ plain.bytes = row.bytes
        /\ plain.hash = row.hash
    BY <1>0 DEF Rows
  <2>3. job[w].got.bytes = "full"
    BY <2>1 DEF CommitsFull, Committing, At
  <2> HIDE DEF plain
  <2>4. new \in Rows /\ new.ver = row.ver /\ new.placed
        /\ (\/ new.bytes = row.bytes /\ new.hash = row.hash
            \/ new.bytes = "short")
    <3>1. CASE SizeOf(job[w].seen) = "full"
      BY <2>2, <2>3, <3>1 DEF Measured
    <3>2. CASE SizeOf(job[w].seen) = "short"
      <4>1. new = [plain EXCEPT !.bytes = "short", !.hash = job[w].seen]
        BY <2>3, <3>2 DEF Measured
      <4>2. QED
        BY <1>0, <2>2, <4>1 DEF Rows
    <3>3. QED
      BY <3>1, <3>2 DEF SizeOf
  <2> HIDE DEF new
  <2>5. Founded("COMMITTING", "COMMITTED", new)
    BY <2>4 DEF Founded, Landed, Vouched
  <2>6. QED
    BY <2>1, <2>4, <2>5 DEF WritesFounded
<1>4. QED
  BY <1>1, <1>2, <1>3

LEMMA DeleteFounded ==
  ASSUME TypeOK, NEW w \in Workers,
         \/ Retain(w) \/ DeleteLook(w) \/ DeleteIntent(w) \/ DeleteStat(w)
         \/ DeleteBlind(w) \/ DeleteCall(w) \/ DeleteRefuse(w) \/ DeleteComplete(w)
  PROVE  WritesFounded
<1>0. row \in Rows /\ SameCopy(row)
  BY RowSame DEF TypeOK
<1>1. CASE DeleteLook(w) \/ DeleteStat(w) \/ DeleteBlind(w) \/ DeleteCall(w)
  BY <1>1 DEF DeleteLook, DeleteStat, DeleteBlind, DeleteCall, journal, WritesFounded
<1>2. CASE Retain(w)
  <2>1. \/ UNCHANGED journal
        \/ /\ row.state \in {"COMMITTED", "REMOTE_DELETE_PENDING", "REMOTE_RETAINED"}
           /\ Advance(Key(w, "retain"), row.state, "REMOTE_RETAINED", row)
    BY <1>2 DEF Retain
  <2>2. QED
    BY <1>0, <2>1, SameCopyFounded DEF Measuring, WritesFounded
<1>3. CASE DeleteIntent(w)
  <2>1. Advance(Key(w, "delete:pending"), "COMMITTED", "REMOTE_DELETE_PENDING", row)
    BY <1>3, Zenon DEF DeleteIntent
  <2>2. QED
    BY <1>0, <2>1, SameCopyFounded DEF Measuring
<1>4. CASE DeleteRefuse(w)
  <2>1. Advance(Key(w, "delete:refused"), "REMOTE_DELETE_PENDING",
                "REMOTE_DELETE_PENDING", row)
    BY <1>4 DEF DeleteRefuse
  <2>2. QED
    BY <1>0, <2>1, SameCopyFounded DEF Measuring
<1>5. CASE DeleteComplete(w)
  <2>1. Advance(Key(w, "delete:complete"), "REMOTE_DELETE_PENDING", "COMPLETE", row)
    BY <1>5 DEF DeleteComplete
  <2>2. QED
    BY <1>0, <2>1, SameCopyFounded DEF Measuring
<1>6. QED
  BY <1>1, <1>2, <1>3, <1>4, <1>5

LEMMA StepFounded ==
  ASSUME TypeOK, CommitsFull, NEW w \in Workers, Step(w)
  PROVE  WritesFounded
<1>1. CASE StartCycle(w) \/ Reconcile(w) \/ ReconcileLost(w) \/ ReconcileBlind(w)
           \/ List(w)
  BY <1>1, CycleFounded
<1>2. CASE TransferLook(w) \/ TransferCollide(w) \/ TransferClaim(w)
           \/ TransferClear(w) \/ TransferCopy(w) \/ TransferMiscopy(w)
           \/ TransferCopyFails(w) \/ TransferRecord(w) \/ TransferFail(w)
  BY <1>2, TransferFounded
<1>3. CASE ToVerifying(w) \/ VerifyRead(w) \/ VerifyUnreadable(w)
           \/ VerifyMismatch(w) \/ VerifyAccept(w) \/ VerifyCannot(w) \/ VerifyStall(w)
  BY <1>3, VerifyFounded
<1>4. CASE CommitBegin(w) \/ CommitLink(w) \/ CommitUnlink(w) \/ CommitSync(w)
           \/ CommitRecord(w)
  BY <1>4, CommitFounded
<1>5. CASE Retain(w) \/ DeleteLook(w) \/ DeleteIntent(w) \/ DeleteStat(w)
           \/ DeleteBlind(w) \/ DeleteCall(w) \/ DeleteRefuse(w) \/ DeleteComplete(w)
  BY <1>5, DeleteFounded
<1>6. QED
  BY <1>1, <1>2, <1>3, <1>4, <1>5 DEF Step

\* The operator measures only a FAILED artifact's file, and trusts again only
\* over a reinstatement the log keeps.
LEMMA OperatorFounded == ASSUME TypeOK, Operator PROVE WritesFounded
<1>0. row \in Rows /\ disk \in Disks /\ SameCopy(row)
  BY RowSame DEF TypeOK
<1>1. [row EXCEPT !.retry = @ + 1] \in Rows /\ SameCopy([row EXCEPT !.retry = @ + 1])
  BY <1>0 DEF Rows, SameCopy
<1>2. CASE RetryQuarantinedIngestion \/ ReleaseFromQuarantine
  <2>1. "DISCOVERED" \notin Trusted
    BY DEF Trusted, DurableRestorePoints
  <2>2. QED
    BY <1>0, <1>1, <1>2, <2>1, SameCopyFounded
       DEF RetryQuarantinedIngestion, ReleaseFromQuarantine, Measuring
<1>3. CASE RetryInPlace
  <2> DEFINE new == [row EXCEPT !.bytes = SizeOf(disk.final), !.hash = disk.final]
  <2>1. new \in Rows /\ new.ver = row.ver /\ new.placed = row.placed
    BY <1>0 DEF Rows, Disks, SizeOf
  <2>2. Advance(Fresh, "FAILED", "FAILED", new)
    BY <1>3 DEF RetryInPlace
  <2> HIDE DEF new
  <2>3. Founded("FAILED", "FAILED", new)
    BY <2>1 DEF Founded, Landed, Vouched, Trusted, DurableRestorePoints
  <2>4. QED
    BY <2>1, <2>2, <2>3 DEF WritesFounded
<1>4. CASE RetryFailed \/ RetryFailedBlind
  BY <1>1, <1>4, SameCopyFounded DEF RetryFailed, RetryFailedBlind, Measuring
<1>5. CASE Reinstate \/ ReinstateFails \/ ToggleReadOnly
  BY <1>5 DEF Reinstate, ReinstateFails, ToggleReadOnly, journal, WritesFounded
<1>6. CASE HoldForJudgement
  BY <1>0, <1>6, SameCopyFounded DEF HoldForJudgement, Measuring
<1>7. CASE ReinstateFromQuarantine
  <2> DEFINE new == IF op.valid THEN [row EXCEPT !.rejected = FALSE] ELSE row
  <2>1. new \in Rows /\ SameCopy(new)
    BY <1>0 DEF Rows, SameCopy
  <2>2. \/ UNCHANGED journal
        \/ /\ Advance(Fresh, row.state, Target, new)
           /\ row.state \in QuarantineStates
           /\ row.state = "QUARANTINED" => log.origin # "none"
    BY <1>7 DEF ReinstateFromQuarantine
  <2> HIDE DEF new
  <2>3. row.state \in QuarantineStates => <<row.state, Target>> \notin Measuring
    BY DEF QuarantineStates, Measuring
  <2>4. QED
    BY <2>1, <2>2, <2>3, SameCopyFounded DEF WritesFounded
<1>8. CASE ValidateArtifact
  <2> DEFINE to == IF row.state = "COMPLETE" THEN "QUARANTINED_LOST" ELSE "QUARANTINED"
  <2>1. row.state \in DurableRestorePoints /\ Advance(Fresh, row.state, to, row)
    BY <1>8 DEF ValidateArtifact
  <2> HIDE DEF to
  <2>2. <<row.state, to>> \notin Measuring /\ row.state # "QUARANTINED"
    BY <2>1 DEF DurableRestorePoints, Measuring
  <2>3. QED
    BY <1>0, <2>1, <2>2, SameCopyFounded
<1>9. CASE ReleaseFromRetention
  BY <1>0, <1>9, SameCopyFounded DEF ReleaseFromRetention, Measuring
<1>10. QED
  BY <1>2, <1>3, <1>4, <1>5, <1>6, <1>7, <1>8, <1>9 DEF Operator

-----------------------------------------------------------------------------
(* The invariant is inductive.                                             *)

\* Where the record has an identity, it is a version.
LEMMA VersionKnown ==
  ASSUME TypeOK, GoneFirst, row.state # "none"
  PROVE  row.ver \in past /\ row.ver \in Versions /\ row.ver # None
BY DistinctContents DEF GoneFirst, TypeOK

\* The path has the discovered version only if it never had another.
LEMMA VersionStays ==
  ASSUME TypeOK, GoneFirst, row.state # "none", [Next]_vars, remote' = row.ver
  PROVE  remote' = remote
BY VersionKnown, PathMoves DEF GoneFirst

LEMMA JournalMoves ==
  ASSUME TypeOK, CommitsFull, [Next]_vars
  PROVE  Discover \/ WritesFounded
<1>1. CASE Environment \/ UNCHANGED vars
  BY <1>1, EnvironmentWritesNothing DEF WritesFounded, vars, journal
<1>2. QED
  BY <1>1, StepFounded, OperatorFounded DEF Next

LEMMA EvidenceStep ==
  ASSUME RecordInv, [Next]_vars
  PROVE  Evidence'
<1>0. TypeOK /\ GoneFirst /\ Evidence /\ CommitsFull
  BY DEF RecordInv
<1>1. CASE Discover
  <2>1. row = NoRow /\ row'.state = "DISCOVERED" /\ log' = log
    BY <1>0, <1>1, DiscoverWrites
  <2>2. "DISCOVERED" \notin Landed /\ "DISCOVERED" \notin Vouched
        /\ "DISCOVERED" \notin Trusted
    BY DEF Landed, Vouched, Trusted, DurableRestorePoints
  <2>3. Untrusted
    BY <1>0, <2>1 DEF Evidence, NoRow
  <2>4. QED
    BY <2>1, <2>2, <2>3 DEF Evidence, Untrusted
<1>2. CASE WritesFounded
  <2>1. row.state \in States => row.state # "none"
    BY DEF States, InProgress, DurableRestorePoints, ExceptionalStates, QuarantineStates
  <2>2. QED
    BY <1>0, <1>2, <2>1, FoundedKeeps, VersionStays
<1>3. QED
  BY <1>0, <1>1, <1>2, JournalMoves

\* A worker starts to commit over the record it has just read.
LEMMA CommitsFullStep ==
  ASSUME TypeOK, CommitsFull, Evidence', [Next]_vars
  PROVE  CommitsFull'
<1> SUFFICES ASSUME NEW v \in Workers, Committing(v)'
             PROVE  job'[v].got.bytes = "full"
  BY DEF CommitsFull
<1>0. job \in [Workers -> Jobs]
  BY DEF TypeOK
<1>1. CASE job'[v] = job[v]
  BY <1>1 DEF Committing, CommitsFull
<1>2. ASSUME NEW w \in Workers, Step(w) PROVE job'[v].got.bytes = "full"
  <2>1. CASE v # w
    BY <1>0, <1>1, <1>2, <2>1, StepControl DEF Others
  <2>2. CASE v = w
    <3>1. \/ job'[v].got = row' /\ row'.state = "COMMITTING"
          \/ job'[v].got = job[v].got /\ Committing(v)
      BY <1>0, <1>2, <2>2, StepControl
    <3>2. QED
      BY <3>1 DEF CommitsFull, Evidence, Landed
  <2>3. QED
    BY <2>1, <2>2
<1>3. CASE Discover \/ Environment \/ Operator \/ UNCHANGED vars
  <2>1. job'[v].pc # "idle"
    BY DEF Committing
  <2>2. QED
    BY <1>0, <1>1, <1>3, <2>1, OtherControl
<1>4. QED
  BY <1>2, <1>3 DEF Next

\* The kept copy stays the discovered version.
LEMMA KeptLasts ==
  ASSUME TypeOK, GoneFirst, row.state # "none", [Next]_vars, Kept
  PROVE  Kept'
<1>1. row'.ver = row.ver /\ row.ver # None
  BY VersionKnown, NextKeeps DEF IdentityKept
<1>2. damaged => damaged'
  BY WorldMoves DEF Damage, Repair, ProducerReplace, ProducerRemove, DeleteCall
<1>3. Damage \/ Repair => damaged'
  BY DEF Damage, Repair
<1>4. disk.final # None /\ disk.safe
        => Damage \/ Repair \/ (disk'.final = disk.final /\ disk'.safe)
  BY CopyLasts DEF TypeOK
<1>5. QED
  BY <1>1, <1>2, <1>3, <1>4 DEF Kept

\* What DeleteRemote compares before it records an intent (remotedelete.go): if
\* the remote still has the discovered version, it is the durable local copy.
LEMMA LookFinds ==
  ASSUME Compared, CustodyInv, row.state # "none", MayDelete, remote = row.ver
  PROVE  Kept
<1>0. TypeOK /\ GoneFirst /\ SecuredFirst /\ Evidence
  BY DEF CustodyInv, RecordInv
<1>1. row.state \in DurableRestorePoints /\ ~log.reinstated
  BY DEF MayDelete, DurableRestorePoints
<1>2. Secured
  BY <1>0, <1>1 DEF SecuredFirst
<1>3. row.placed
  BY <1>0, <1>1 DEF Evidence, Untrusted, Trusted
<1>4. ReadableCopy(row) = disk.final
  BY <1>3 DEF ReadableCopy
<1>5. row.bytes # "short" /\ (row.hash # None => disk.final = row.hash)
  BY <1>4 DEF MayDelete, MatchesRecord
<1>6. row.hash = row.ver
  BY <1>0, <1>1, <1>5 DEF Evidence, Vouched, Compared
<1>7. row.ver # None
  BY <1>0, VersionKnown
<1>8. QED
  BY <1>2, <1>5, <1>6, <1>7 DEF Secured, Kept

\* Which record a worker on its way to the delete call has compared.
LEMMA DeletingControl ==
  ASSUME job \in [Workers -> Jobs], NEW w \in Workers, Step(w), Deleting(w)'
  PROVE  /\ \/ DeleteLook(w) /\ MayDelete /\ job'[w].got = row
            \/ Deleting(w) /\ job'[w].got = job[w].got
         /\ At(w, "dcall")' => DeleteStat(w) /\ Identified(w) /\ job'[w].got = job[w].got
         /\ UNCHANGED <<remote, disk, damaged>>
<1>1. DeleteLook(w) \/ DeleteIntent(w) \/ DeleteStat(w)
  BY StepControl DEF Deleting
<1>2. CASE DeleteLook(w)
  <2>1. \/ Stop(w)
        \/ MayDelete /\ \E p \in {"dintent", "dstat"} : Remember(w, p, row, None)
    BY <1>2 DEF DeleteLook
  <2>2. MayDelete /\ job'[w].got = row /\ job'[w].pc # "dcall"
    BY <2>1, StopControl, RememberControl DEF Deleting
  <2>3. QED
    BY <1>2, <2>2 DEF DeleteLook, world, At
<1>3. CASE DeleteIntent(w)
  <2>1. Stop(w) \/ Goto(w, "dstat")
    BY <1>3 DEF DeleteIntent
  <2>2. job'[w].got = job[w].got /\ job'[w].pc = "dstat"
    BY <2>1, StopControl, GotoControl DEF Deleting
  <2>3. QED
    BY <1>3, <2>2 DEF DeleteIntent, world, At, Deleting
<1>4. CASE DeleteStat(w)
  <2>1. IF Identified(w) THEN Goto(w, "dcall") ELSE Goto(w, "drefuse")
    BY <1>4 DEF DeleteStat
  <2>2. Identified(w) /\ job'[w].got = job[w].got
    BY <2>1, GotoControl DEF Deleting
  <2>3. QED
    BY <1>4, <2>2 DEF DeleteStat, world, At, Deleting
<1>5. QED
  BY <1>1, <1>2, <1>3, <1>4

\* Nothing is written at the path between a worker's last look and its call.
LEMMA PathHeld ==
  ASSUME "race" \notin FaultKinds, NEW w \in Workers, At(w, "dcall"), [Next]_vars
  PROVE  remote' \in {remote, None}
<1>1. ~ProducerReplace
  BY DEF ProducerReplace
<1>2. CASE Damage \/ Repair \/ ProducerRemove \/ \E v \in Workers : DeleteCall(v)
  BY <1>2 DEF Damage, Repair, ProducerRemove, DeleteCall
<1>3. QED
  BY <1>1, <1>2, WorldMoves

LEMMA DeletesKeptStep ==
  ASSUME Compared, CustodyInv, [Next]_vars
  PROVE  DeletesKept'
<1>0. TypeOK /\ GoneFirst /\ DeletesKept /\ job \in [Workers -> Jobs]
  BY DEF CustodyInv, RecordInv, TypeOK
<1> SUFFICES ASSUME NEW v \in Workers, Deleting(v)'
             PROVE  /\ job'[v].got.ver = row'.ver
                    /\ remote' = row'.ver => Kept'
                    /\ At(v, "dcall")' => remote' \in {None, row'.ver}
  BY DEF DeletesKept, Deleting, At
<1>1. CASE job'[v] = job[v]
  <2>1. Deleting(v) /\ (At(v, "dcall")' => At(v, "dcall"))
    BY <1>1 DEF Deleting, At
  <2>2. row.state # "none"
    BY <1>0, <2>1 DEF GoneFirst, Deleting, At
  <2>3. row'.ver = row.ver
    BY <1>0, <2>2, NextKeeps DEF IdentityKept
  <2>4. remote' = row.ver => remote = row.ver
    BY <1>0, <2>2, VersionStays
  <2>5. job[v].got.ver = row.ver /\ (remote = row.ver => Kept)
    BY <1>0, <2>1 DEF DeletesKept
  <2>6. remote' = row.ver => Kept'
    BY <1>0, <2>2, <2>4, <2>5, KeptLasts
  <2>7. At(v, "dcall") => remote' \in {None, row.ver}
    BY <1>0, PathHeld DEF DeletesKept, Compared
  <2>8. QED
    BY <1>1, <2>1, <2>3, <2>5, <2>6, <2>7
<1>2. ASSUME Step(v)
      PROVE  /\ job'[v].got.ver = row'.ver
             /\ remote' = row'.ver => Kept'
             /\ At(v, "dcall")' => remote' \in {None, row'.ver}
  <2>1. /\ \/ DeleteLook(v) /\ MayDelete /\ job'[v].got = row
           \/ Deleting(v) /\ job'[v].got = job[v].got
        /\ At(v, "dcall")' => Identified(v) /\ job'[v].got = job[v].got
        /\ remote' = remote /\ disk' = disk /\ damaged' = damaged
    BY <1>0, <1>2, DeletingControl
  <2>2. ~At(v, "idle")
    BY <2>1 DEF DeleteLook, Deleting, At
  <2>3. row.state # "none"
    BY <1>0, <2>2 DEF GoneFirst
  <2>4. row'.ver = row.ver
    BY <1>0, <2>3, NextKeeps DEF IdentityKept
  <2>5. job'[v].got.ver = row.ver /\ (remote = row.ver => Kept)
    BY <1>0, <2>1, <2>3, LookFinds DEF DeletesKept
  <2>6. Kept => Kept'
    BY <1>0, <2>3, KeptLasts
  <2>7. At(v, "dcall")' => remote = row.ver
    BY <2>1, <2>5 DEF Identified
  <2>8. QED
    BY <2>1, <2>4, <2>5, <2>6, <2>7
<1>3. ASSUME NEW w \in Workers, Step(w) PROVE v = w \/ job'[v] = job[v]
  BY <1>0, <1>3, StepControl DEF Others
<1>4. CASE Discover \/ Environment \/ Operator \/ UNCHANGED vars
  <2>1. job'[v].pc # "idle"
    BY DEF Deleting
  <2>2. QED
    BY <1>0, <1>1, <1>4, <2>1, OtherControl
<1>5. QED
  BY <1>1, <1>2, <1>3, <1>4 DEF Next

\* The delete call takes the discovered version or nothing.
LEMMA CallTakes ==
  ASSUME CustodyInv, NEW w \in Workers, DeleteCall(w), remote # None
  PROVE  /\ remote = row.ver /\ row.state # "none" /\ Kept
         /\ remote' = None /\ destroyed' = destroyed \cup {remote}
         /\ UNCHANGED <<disk, damaged>>
<1>1. At(w, "dcall") /\ Deleting(w) /\ ~At(w, "idle")
  BY DEF DeleteCall, At, Deleting
<1>2. remote = row.ver /\ Kept
  BY <1>1 DEF CustodyInv, DeletesKept
<1>3. row.state # "none"
  BY <1>1 DEF CustodyInv, RecordInv, GoneFirst
<1>4. QED
  BY <1>2, <1>3 DEF DeleteCall

LEMMA DestroyedStep ==
  ASSUME CustodyInv, [Next]_vars
  PROVE  DestroyedKept'
<1> SUFFICES ASSUME NEW v \in destroyed' PROVE v = row'.ver /\ Kept'
  BY DEF DestroyedKept
<1>0. TypeOK /\ GoneFirst /\ DestroyedKept
  BY DEF CustodyInv, RecordInv
<1>1. CASE v \in destroyed
  <2>1. v = row.ver /\ Kept /\ v \in Versions
    BY <1>0, <1>1 DEF DestroyedKept, TypeOK
  <2>2. row.state # "none"
    BY <1>0, <2>1, DistinctContents DEF GoneFirst, NoRow
  <2>3. QED
    BY <1>0, <2>1, <2>2, KeptLasts, NextKeeps DEF IdentityKept
<1>2. CASE v \notin destroyed
  <2>1. PICK w \in Workers : DeleteCall(w)
    BY <1>2, WorldMoves DEF Damage, Repair, ProducerReplace, ProducerRemove
  <2>2. v = remote /\ remote # None
    BY <1>2, <2>1 DEF DeleteCall
  <2>3. v = row.ver /\ row.state # "none" /\ Kept
    BY <2>1, <2>2, CallTakes
  <2>4. QED
    BY <1>0, <2>3, KeptLasts, NextKeeps DEF IdentityKept
<1>3. QED
  BY <1>1, <1>2

LEMMA RecordStep == RecordInv /\ [Next]_vars => RecordInv'
<1> SUFFICES ASSUME RecordInv, [Next]_vars PROVE RecordInv'
  OBVIOUS
<1>1. TypeOK' /\ SecuredFirst' /\ GoneFirst'
  BY NextTypes, SecuredStep, GoneStep DEF RecordInv
<1>2. Evidence'
  BY EvidenceStep
<1>3. CommitsFull'
  BY <1>2, CommitsFullStep DEF RecordInv
<1>4. QED
  BY <1>1, <1>2, <1>3 DEF RecordInv

LEMMA RecordInit == Init => RecordInv
<1> SUFFICES ASSUME Init PROVE RecordInv
  OBVIOUS
<1>1. TypeOK
  BY InitTypes
<1>2. SecuredFirst /\ GoneFirst
  BY DEF Init, SecuredFirst, GoneFirst, NoRow, DurableRestorePoints, IdleJob, At
<1>3. Evidence
  BY DEF Init, Evidence, NoRow, Landed, Vouched, Untrusted, Trusted, DurableRestorePoints
<1>4. CommitsFull
  BY DEF Init, IdleJob, CommitsFull, Committing
<1>5. QED
  BY <1>1, <1>2, <1>3, <1>4 DEF RecordInv

LEMMA CustodyStep == Compared /\ CustodyInv /\ [Next]_vars => CustodyInv'
BY RecordStep, DeletesKeptStep, DestroyedStep DEF CustodyInv

LEMMA CustodyInit == Init => CustodyInv
<1> SUFFICES ASSUME Init PROVE CustodyInv
  OBVIOUS
<1>1. DeletesKept /\ DestroyedKept
  BY DEF Init, IdleJob, DeletesKept, Deleting, At, DestroyedKept
<1>2. QED
  BY <1>1, RecordInit DEF CustodyInv

\* The evidence every step of the pipeline leaves for the ones that rely on it,
\* however the steps of the workers are interleaved (pipeline.go).
THEOREM CustodyInvariant == Compared => (Spec => []CustodyInv)
<1> SUFFICES ASSUME Compared PROVE Spec => []CustodyInv
  OBVIOUS
<1>1. CustodyInv /\ [Next]_vars => CustodyInv'
  BY CustodyStep
<1>2. QED
  BY <1>1, CustodyInit, PTL DEF Spec

-----------------------------------------------------------------------------
(* What it is for.                                                         *)

\* DeleteRemote's gate (remotedelete.go): whatever the manager deleted from the
\* remote is, bytes for bytes, the file at the final name, however many
\* processes run and wherever they stop.
THEOREM NothingLost == ASSUME Compared PROVE Spec => []NoLoss
<1>1. CustodyInv => NoLoss
  BY DEF CustodyInv, DestroyedKept, Kept, NoLoss
<1>2. QED
  BY <1>1, CustodyInvariant, PTL

\* One step of the pipeline is one step of Custody or none.
LEMMA StepCustody == CustodyInv /\ CustodyInv' /\ [Next]_vars => [Promise!Next]_(Promise!vars)
<1> SUFFICES ASSUME CustodyInv, CustodyInv', [Next]_vars
             PROVE  Promise!Next \/ UNCHANGED Promise!vars
  OBVIOUS
<1>0. /\ TypeOK /\ TypeOK' /\ GoneFirst /\ DestroyedKept
      /\ Held \in MaybeContent /\ Held' \in MaybeContent
  BY DEF CustodyInv, RecordInv, TypeOK, Disks, Held, MaybeContent
<1>1. CASE Damage \/ Repair
  <2>1. damaged' = TRUE /\ remote' = remote /\ destroyed' = destroyed
    BY <1>0, <1>1 DEF Damage, Repair, TypeOK
  <2>2. Promise!Spoil
    BY <1>0, <2>1 DEF Promise!Spoil, MaybeContent
  <2>3. QED
    BY <2>2 DEF Promise!Next
<1>2. CASE ProducerReplace \/ ProducerRemove
  <2>1. Held' = Held /\ destroyed' = destroyed /\ damaged' = damaged
    BY <1>2 DEF ProducerReplace, ProducerRemove, Held
  <2>2. row.state # "none"
    BY <1>0, <1>2 DEF ProducerReplace, ProducerRemove, GoneFirst
  <2>3. \A v \in destroyed : v \in past
    BY <1>0, <2>2, VersionKnown DEF DestroyedKept
  <2>4. remote' \in (Versions \ destroyed) \cup {None}
    BY <1>2, <2>3 DEF ProducerReplace, ProducerRemove
  <2>5. Promise!SourceMoves
    BY <2>1, <2>4 DEF Promise!SourceMoves
  <2>6. QED
    BY <2>5 DEF Promise!Next
<1>3. ASSUME NEW w \in Workers, DeleteCall(w)
      PROVE  Promise!Next \/ UNCHANGED Promise!vars
  <2>1. CASE remote = None
    BY <1>3, <2>1 DEF DeleteCall, Promise!vars, Held
  <2>2. CASE remote # None
    <3>1. /\ remote = row.ver /\ Kept /\ remote' = None
          /\ destroyed' = destroyed \cup {remote} /\ UNCHANGED <<disk, damaged>>
      BY <1>3, <2>2, CallTakes
    <3>2. Held = remote \/ damaged
      BY <3>1 DEF Kept, Held
    <3>3. Promise!Release
      BY <2>2, <3>1, <3>2 DEF Promise!Release, Held
    <3>4. QED
      BY <3>3 DEF Promise!Next
  <2>3. QED
    BY <2>1, <2>2
<1>4. CASE UNCHANGED <<remote, past, destroyed, damaged>> /\ ~Damage /\ ~Repair
  <2>1. CASE Held' = Held
    BY <1>4, <2>1 DEF Promise!vars
  <2>2. CASE Held' # Held
    <3>1. Held = None
      BY <1>0, <1>4, <2>2, CopyLasts DEF Held, TypeOK
    <3>2. Promise!Secure
      BY <1>0, <1>4, <2>2, <3>1 DEF Promise!Secure, MaybeContent
    <3>3. QED
      BY <3>2 DEF Promise!Next
  <2>3. QED
    BY <2>1, <2>2
<1>5. QED
  BY <1>1, <1>2, <1>3, <1>4, WorldMoves

\* The whole pipeline implements Custody (commit.go, remotedelete.go): the source
\* is released only against a durable copy of its own bytes, and a durable copy
\* is never replaced.
THEOREM CustodyIsKept == ASSUME Compared PROVE Spec => KeepsCustody
<1>1. Init => Promise!Init
  BY DEF Init, Promise!Init, Held
<1>2. CustodyInv /\ CustodyInv' /\ [Next]_vars => [Promise!Next]_(Promise!vars)
  BY StepCustody
<1>3. QED
  BY <1>1, <1>2, CustodyInvariant, PTL DEF Spec, KeepsCustody, Promise!Spec

-----------------------------------------------------------------------------
(* One process.  The pipeline looks at a file in one step and records what *)
(* it saw in a later one, and nothing above the journal excludes a second  *)
(* process in between.  What follows is true of one process only, whatever *)
(* fails, whoever writes at the remote path and whatever the operator does.*)

OneProcess == \A v, w \in Workers : v = w

Copying == {"TRANSFERRING", "TRANSFERRED", "VERIFYING", "VERIFIED", "COMMITTING"}

\* The row is still in the state the step was entered for, and where a step has
\* read the row, it is still what was read.
Fits(w) ==
  /\ job[w].pc \in {"tlook", "tcollide", "tclaim"} => row.state \in {"DISCOVERED", "TRANSFERRING"}
  /\ job[w].pc \in {"tclear", "tcopy", "trecord", "tfail"} => row.state = "TRANSFERRING"
  /\ At(w, "verifying") => row.state = "TRANSFERRED"
  /\ job[w].pc \in {"vread", "vjudge"} => row.state = "VERIFYING"
  /\ At(w, "cbegin") => row.state \in {"VERIFIED", "COMMITTING"}
  /\ Committing(w) => row.state = "COMMITTING"
  /\ job[w].pc \in {"tcollide", "tclaim", "vjudge"} \/ Committing(w) => job[w].got = row

Accepts(c) == HasValidator => c \in Accepted

\* What may be under either name once a copy is verified: the hashed bytes,
\* nothing, or what a power loss leaves of them.
Sound(c) == c \in {None, row.hash} \/ (c = Torn /\ "power" \in FaultKinds)

\* The placed copy is the one the record measures, accepted if it is whole.
FinalKept == row.placed =>
  /\ disk.final = row.hash /\ disk.final # None /\ disk.safe
  /\ row.bytes = SizeOf(row.hash)
  /\ IF row.bytes = "short" THEN "power" \in FaultKinds ELSE Accepts(row.hash)
  /\ row.state \notin Copying

\* Before that the final name is free until the copy is committed, and what is
\* verified has been hashed, whole and accepted.
NothingYet == ~row.placed =>
  /\ row.path # "final"
  /\ row.state # "COMMITTING" => disk.final = None
  /\ row.state \in {"VERIFIED", "COMMITTING"} =>
       /\ row.hash # None /\ SizeOf(row.hash) = "full" /\ Accepts(row.hash)
       /\ Sound(disk.partial) /\ Sound(disk.final)

\* What a worker saw of the file is still so when it writes it down.
Sees(w) ==
  /\ At(w, "tclaim") => ~row.placed
  /\ At(w, "vjudge") => job[w].seen \in {None, disk.partial}
  /\ At(w, "crecord") => job[w].seen = disk.final /\ disk.final # None
  /\ job[w].pc \in {"reconcile", "lost"} /\ job[w].got.state \in DurableRestorePoints =>
       /\ row.placed /\ row.state # "FAILED"
       /\ job[w].got.bytes = row.bytes /\ job[w].got.hash = row.hash
       /\ job[w].seen = disk.final
  /\ At(w, "lost") => /\ job[w].got.state \in DurableRestorePoints
                      /\ ~LocalValid(job[w].got, job[w].seen)

\* An intent that still stands belongs to a copy that is committed and not
\* released: it is not found again in the log by another deletion.
IntentStands == IntentLogged /\ ~log.reinstated => row.placed /\ row.state # "COMMITTED"

Deletes(w) ==
  /\ At(w, "dintent") => row.state = "COMMITTED" /\ row.bytes # "short" /\ ~log.reinstated
  /\ At(w, "dstat") \/ At(w, "dcall") =>
       row.state = "REMOTE_DELETE_PENDING" /\ row.bytes # "short"

\* ReleaseFromRetention makes a record COMMITTED under an intent that stands.
Unreleased == "release-retained" \notin Verbs

OneInv ==
  /\ RecordInv
  /\ \A w \in Workers : Fits(w)
  /\ ~damaged => /\ FinalKept /\ NothingYet
                 /\ \A w \in Workers : Sees(w)
                 /\ Unreleased => IntentStands /\ \A w \in Workers : Deletes(w)

\* What a write that is not a replay leaves in the row.
LEMMA Written ==
  ASSUME NEW k, NEW from, NEW to, NEW new \in Rows, Advance(k, from, to, new)
  PROVE  \/ UNCHANGED journal
         \/ /\ row.state = from /\ Legal(from, to) /\ log' = Logged(k, from, to)
            /\ row'.state = to /\ row'.placed = new.placed /\ row'.path = new.path
            /\ row'.bytes = new.bytes /\ row'.hash = new.hash
BY AdvanceCases DEF Rows

\* Where an operator's verb finds the row.
LEMMA OperatorSpares ==
  ASSUME TypeOK, Operator
  PROVE  /\ UNCHANGED <<disk, job, damaged>>
         /\ UNCHANGED journal \/ row.state \notin InProgress \cup {"none"}
<1>1. UNCHANGED <<disk, job, damaged>>
  BY DEF Operator, RetryQuarantinedIngestion, ReleaseFromQuarantine, RetryInPlace,
         RetryFailed, RetryFailedBlind, Reinstate, ReinstateFails, HoldForJudgement,
         ReinstateFromQuarantine, ValidateArtifact, ReleaseFromRetention,
         ToggleReadOnly, Untouched
<1> SUFFICES UNCHANGED journal \/ row.state \notin InProgress \cup {"none"}
  BY <1>1
<1>2. CASE \/ RetryQuarantinedIngestion \/ ReleaseFromQuarantine \/ RetryInPlace
           \/ RetryFailed \/ RetryFailedBlind \/ ReleaseFromRetention
  BY <1>2 DEF RetryQuarantinedIngestion, ReleaseFromQuarantine, RetryInPlace, RetryFailed,
              RetryFailedBlind, ReleaseFromRetention, InProgress
<1>3. CASE Reinstate \/ ReinstateFails \/ ToggleReadOnly
  BY <1>3 DEF Reinstate, ReinstateFails, ToggleReadOnly, journal
<1>4. CASE HoldForJudgement
  <2>1. Advance(Fresh, "FAILED", "QUARANTINED", row)
    BY <1>4 DEF HoldForJudgement
  <2>2. QED
    BY <2>1, AdvanceCases DEF InProgress
<1>5. CASE ReinstateFromQuarantine
  BY <1>5 DEF ReinstateFromQuarantine, QuarantineStates, InProgress
<1>6. CASE ValidateArtifact
  BY <1>6 DEF ValidateArtifact, DurableRestorePoints, InProgress
<1>7. QED
  BY <1>2, <1>3, <1>4, <1>5, <1>6 DEF Operator

\* The places no step has read the row for yet, or where it is only about to.
Starts == {"idle", "tlook", "verifying", "vread", "cbegin", "rlook"}

\* The places where nothing depends on the state of the row.
Free == {"idle", "reconcile", "lost", "list", "rlook", "dintent", "dstat", "dcall",
         "drefuse", "dcomplete"}

LEMMA EntryOf ==
  ASSUME NEW st, StageOf(st) > 0
  PROVE  \/ st \in {"DISCOVERED", "TRANSFERRING"} /\ Entry[StageOf(st)] = "tlook"
         \/ st = "TRANSFERRED" /\ Entry[StageOf(st)] = "verifying"
         \/ st = "VERIFYING" /\ Entry[StageOf(st)] = "vread"
         \/ st \in {"VERIFIED", "COMMITTING"} /\ Entry[StageOf(st)] = "cbegin"
         \/ st \in {"COMMITTED", "REMOTE_DELETE_PENDING"} /\ Entry[StageOf(st)] = "rlook"
BY DEF StageOf, Entry

\* A step that ends hands the row it left to the step that fits it.
LEMMA DispatchFits ==
  ASSUME job \in [Workers -> Jobs], NEW w \in Workers, NEW stage \in Nat,
         Dispatch(w, row', stage)
  PROVE  job'[w].pc \in Starts /\ Fits(w)'
<1>1. CASE StageOf(row'.state) > stage
  <2>1. StageOf(row'.state) \in 0 .. 5
    BY DEF StageOf
  <2>2. StageOf(row'.state) > 0
    BY <1>1, <2>1
  <2> DEFINE next == Entry[StageOf(row'.state)]
  <2>3. job' = [job EXCEPT ![w] = [job[w] EXCEPT !.pc = next, !.got = NoRow,
                                                !.seen = None, !.claimed = FALSE]]
    BY <1>1 DEF Dispatch
  <2> HIDE DEF next
  <2>4. job'[w].pc = next
    BY <2>3 DEF Jobs
  <2>5. QED
    BY <2>2, <2>4, EntryOf DEF next, Fits, Committing, At, Starts
<1>2. CASE ~(StageOf(row'.state) > stage)
  BY <1>2, StopControl DEF Dispatch, Fits, Committing, At, Starts
<1>3. QED
  BY <1>1, <1>2

LEMMA AdvanceAndDispatchFits ==
  ASSUME job \in [Workers -> Jobs], NEW w \in Workers, NEW k, NEW from, NEW to,
         NEW new, NEW stage \in Nat, AdvanceAndDispatch(w, k, from, to, new, stage)
  PROVE  job'[w].pc \in Starts /\ Fits(w)'
BY DispatchFits, StopControl DEF AdvanceAndDispatch, Fits, Committing, At, Starts

LEMMA StopFits ==
  ASSUME job \in [Workers -> Jobs], NEW w \in Workers, Stop(w)
  PROVE  job'[w].pc \in Starts /\ Fits(w)'
BY StopControl DEF Fits, Committing, At, Starts

LEMMA CycleFits ==
  ASSUME job \in [Workers -> Jobs], NEW w \in Workers,
         \/ StartCycle(w) \/ Reconcile(w) \/ ReconcileLost(w) \/ ReconcileBlind(w)
         \/ List(w)
  PROVE  Fits(w)'
<1>1. CASE List(w)
  <2>1. CASE StageOf(row.state) > 0
    <3>1. job'[w].pc = Entry[StageOf(row.state)] /\ row' = row
      BY <1>1, <2>1 DEF List, IdleJob, journal
    <3>2. QED
      BY <2>1, <3>1, EntryOf DEF Fits, Committing, At
  <2>2. CASE ~(StageOf(row.state) > 0)
    BY <1>1, <2>2, StopFits DEF List
  <2>3. QED
    BY <2>1, <2>2
<1>2. CASE StartCycle(w) \/ Reconcile(w) \/ ReconcileLost(w) \/ ReconcileBlind(w)
  <2>1. job'[w].pc \in {"reconcile", "lost", "list"}
    <3>1. CASE StartCycle(w)
      BY <3>1 DEF StartCycle, IdleJob
    <3>2. CASE Reconcile(w)
      <4>1. Goto(w, "lost") \/ Goto(w, "list")
        BY <3>2, Zenon DEF Reconcile
      <4>2. QED
        BY <4>1, GotoControl
    <3>3. CASE ReconcileLost(w) \/ ReconcileBlind(w)
      BY <3>3, GotoControl DEF ReconcileLost, ReconcileBlind
    <3>4. QED
      BY <1>2, <3>1, <3>2, <3>3
  <2>2. QED
    BY <2>1 DEF Fits, Committing, At
<1>3. QED
  BY <1>1, <1>2

LEMMA TransferFits ==
  ASSUME job \in [Workers -> Jobs], NEW w \in Workers, Fits(w),
         \/ TransferLook(w) \/ TransferCollide(w) \/ TransferClaim(w)
         \/ TransferClear(w) \/ TransferCopy(w) \/ TransferMiscopy(w)
         \/ TransferCopyFails(w) \/ TransferRecord(w) \/ TransferFail(w)
  PROVE  Fits(w)'
<1>1. CASE TransferLook(w)
  <2>1. job'[w].pc \in {"tcollide", "tclaim"} /\ job'[w].got = row /\ row' = row
        /\ At(w, "tlook")
    BY <1>1, RememberControl DEF TransferLook, journal
  <2>2. QED
    BY <2>1 DEF Fits, Committing, At
<1>2. CASE TransferClaim(w)
  <2>1. \/ Stop(w)
        \/ /\ row'.state = "TRANSFERRING"
           /\ \E c : job' = [job EXCEPT ![w] = [@ EXCEPT !.pc = "tclear", !.got = row',
                                                        !.claimed = c]]
    BY <1>2, Zenon DEF TransferClaim
  <2>2. CASE Stop(w)
    BY <2>2, StopFits
  <2>3. ASSUME NEW c, row'.state = "TRANSFERRING",
               job' = [job EXCEPT ![w] = [job[w] EXCEPT !.pc = "tclear", !.got = row',
                                                       !.claimed = c]]
        PROVE  Fits(w)'
    <3>1. job'[w].pc = "tclear"
      BY <2>3 DEF Jobs
    <3>2. QED
      BY <2>3, <3>1 DEF Fits, Committing, At
  <2>4. QED
    BY <2>1, <2>2, <2>3
<1>3. CASE TransferClear(w) \/ TransferCopy(w) \/ TransferMiscopy(w) \/ TransferCopyFails(w)
  <2>1. job'[w].pc \in {"tcopy", "trecord", "tfail"} /\ row' = row
        /\ job[w].pc \in {"tclear", "tcopy"}
    BY <1>3, GotoControl DEF TransferClear, TransferCopy, TransferMiscopy, Copied,
                             TransferCopyFails, journal, At
  <2>2. QED
    BY <2>1 DEF Fits, Committing, At
<1>4. CASE TransferRecord(w)
  <2>1. \/ Goto(w, "tfail") /\ UNCHANGED journal
        \/ AdvanceAndDispatch(w, Key(w, "transferred"), "TRANSFERRING", "TRANSFERRED",
                              [row EXCEPT !.bytes = "full"], 1)
    BY <1>4 DEF TransferRecord
  <2>2. CASE Goto(w, "tfail") /\ UNCHANGED journal
    BY <1>4, <2>2, GotoControl DEF TransferRecord, Fits, Committing, At, journal
  <2>3. QED
    BY <2>1, <2>2, AdvanceAndDispatchFits
<1>5. CASE TransferCollide(w) \/ TransferFail(w)
  BY <1>5, StopFits DEF TransferCollide, TransferFail
<1>6. QED
  BY <1>1, <1>2, <1>3, <1>4, <1>5

LEMMA VerifyFits ==
  ASSUME job \in [Workers -> Jobs], NEW w \in Workers, Fits(w),
         \/ ToVerifying(w) \/ VerifyRead(w) \/ VerifyUnreadable(w)
         \/ VerifyMismatch(w) \/ VerifyAccept(w) \/ VerifyCannot(w) \/ VerifyStall(w)
  PROVE  Fits(w)'
<1>1. CASE ToVerifying(w)
  BY <1>1, AdvanceAndDispatchFits DEF ToVerifying
<1>2. CASE VerifyRead(w)
  <2>1. \E c : Remember(w, "vjudge", row, c)
    BY <1>2 DEF VerifyRead
  <2>2. job'[w].pc = "vjudge" /\ job'[w].got = row /\ row' = row /\ At(w, "vread")
    BY <1>2, <2>1, RememberControl DEF VerifyRead, journal
  <2>3. QED
    BY <2>2 DEF Fits, Committing, At
<1>3. ASSUME NEW to, NEW new, Judge(w, to, new) PROVE Fits(w)'
  BY <1>3, AdvanceAndDispatchFits DEF Judge
<1>4. CASE VerifyUnreadable(w) \/ VerifyMismatch(w) \/ VerifyCannot(w)
  BY <1>3, <1>4 DEF VerifyUnreadable, VerifyMismatch, VerifyCannot
<1>5. CASE VerifyAccept(w)
  BY <1>3, <1>5 DEF VerifyAccept
<1>6. CASE VerifyStall(w)
  <2>1. \/ Stop(w)
        \/ \E k, from, new : AdvanceAndDispatch(w, k, from, "QUARANTINED", new, 3)
    BY <1>6, Zenon DEF VerifyStall
  <2>2. QED
    BY <2>1, StopFits, AdvanceAndDispatchFits
<1>7. QED
  BY <1>1, <1>2, <1>4, <1>5, <1>6

LEMMA CommitFits ==
  ASSUME job \in [Workers -> Jobs], NEW w \in Workers, Fits(w),
         \/ CommitBegin(w) \/ CommitLink(w) \/ CommitUnlink(w) \/ CommitSync(w)
         \/ CommitRecord(w)
  PROVE  Fits(w)'
<1>1. CASE CommitBegin(w)
  <2>1. \/ Stop(w)
        \/ row'.state = "COMMITTING" /\ Remember(w, "clink", row', None)
        \/ Dispatch(w, row', 4)
    BY <1>1, Zenon DEF CommitBegin
  <2>2. CASE row'.state = "COMMITTING" /\ Remember(w, "clink", row', None)
    BY <2>2, RememberControl DEF Fits, Committing, At
  <2>3. QED
    BY <2>1, <2>2, StopFits, DispatchFits
<1>2. CASE CommitLink(w) \/ CommitUnlink(w) \/ CommitSync(w)
  <2>1. \/ Stop(w) \/ Goto(w, "cunlink") \/ Goto(w, "csync")
        \/ Remember(w, "crecord", job[w].got, disk.final)
    BY <1>2 DEF CommitLink, CommitUnlink, CommitSync
  <2>2. Committing(w) /\ row' = row
    BY <1>2 DEF CommitLink, CommitUnlink, CommitSync, journal, Committing, At
  <2>3. CASE \/ Goto(w, "cunlink") \/ Goto(w, "csync")
             \/ Remember(w, "crecord", job[w].got, disk.final)
    <3>1. Committing(w)' /\ job'[w].got = job[w].got
      BY <2>3, GotoControl, RememberControl DEF Committing
    <3>2. QED
      BY <2>2, <3>1 DEF Fits, Committing, At
  <2>4. QED
    BY <2>1, <2>3, StopFits
<1>3. CASE CommitRecord(w)
  BY <1>3, AdvanceAndDispatchFits DEF CommitRecord
<1>4. QED
  BY <1>1, <1>2, <1>3

LEMMA DeleteFits ==
  ASSUME job \in [Workers -> Jobs], NEW w \in Workers,
         \/ Retain(w) \/ DeleteLook(w) \/ DeleteIntent(w) \/ DeleteStat(w)
         \/ DeleteBlind(w) \/ DeleteCall(w) \/ DeleteRefuse(w) \/ DeleteComplete(w)
  PROVE  Fits(w)'
<1>1. \/ Stop(w) \/ \E p \in Free : Goto(w, p) \/ \E r, c : Remember(w, p, r, c)
  BY DEF Retain, DeleteLook, DeleteIntent, DeleteStat, DeleteBlind, DeleteCall,
         DeleteRefuse, DeleteComplete, Free
<1>2. job'[w].pc \in Free
  BY <1>1, StopControl, GotoControl, RememberControl DEF Free
<1>3. QED
  BY <1>2 DEF Free, Fits, Committing, At

LEMMA StepFits ==
  ASSUME job \in [Workers -> Jobs], NEW w \in Workers, Fits(w), Step(w)
  PROVE  Fits(w)'
<1>1. CASE StartCycle(w) \/ Reconcile(w) \/ ReconcileLost(w) \/ ReconcileBlind(w)
           \/ List(w)
  BY <1>1, CycleFits
<1>2. CASE TransferLook(w) \/ TransferCollide(w) \/ TransferClaim(w)
           \/ TransferClear(w) \/ TransferCopy(w) \/ TransferMiscopy(w)
           \/ TransferCopyFails(w) \/ TransferRecord(w) \/ TransferFail(w)
  BY <1>2, TransferFits
<1>3. CASE ToVerifying(w) \/ VerifyRead(w) \/ VerifyUnreadable(w)
           \/ VerifyMismatch(w) \/ VerifyAccept(w) \/ VerifyCannot(w) \/ VerifyStall(w)
  BY <1>3, VerifyFits
<1>4. CASE CommitBegin(w) \/ CommitLink(w) \/ CommitUnlink(w) \/ CommitSync(w)
           \/ CommitRecord(w)
  BY <1>4, CommitFits
<1>5. CASE Retain(w) \/ DeleteLook(w) \/ DeleteIntent(w) \/ DeleteStat(w)
           \/ DeleteBlind(w) \/ DeleteCall(w) \/ DeleteRefuse(w) \/ DeleteComplete(w)
  BY <1>5, DeleteFits
<1>6. QED
  BY <1>1, <1>2, <1>3, <1>4, <1>5 DEF Step

\* Nobody else moves a row that is being worked on.
LEMMA OthersFit ==
  ASSUME TypeOK, GoneFirst, NEW w \in Workers, Fits(w),
         Discover \/ Environment \/ Operator \/ UNCHANGED vars
  PROVE  Fits(w)'
<1>0. job \in [Workers -> Jobs]
  BY DEF TypeOK
<1>1. CASE job'[w].pc \in Free
  BY <1>1 DEF Free, Fits, Committing, At
<1>2. CASE job'[w].pc \notin Free
  <2>1. job'[w] = job[w]
    BY <1>0, <1>2, OtherControl DEF Free
  <2>2. job[w].pc \in Places /\ job[w].pc \notin Free
    BY <1>0, <1>2, <2>1 DEF Jobs
  <2>3. row.state \in InProgress
    BY <2>2 DEF Places, Free, Fits, Committing, At, InProgress
  <2>4. row' = row
    <3>1. ~Discover
      BY <2>3 DEF Discover, NoRow, InProgress
    <3>2. QED
      BY <2>3, <3>1, OperatorSpares, EnvironmentWritesNothing DEF journal, vars
  <2>5. QED
    BY <2>1, <2>4 DEF Fits, Committing, At
<1>3. QED
  BY <1>1, <1>2

LEMMA FitsStep ==
  ASSUME OneProcess, TypeOK, GoneFirst, \A w \in Workers : Fits(w), [Next]_vars
  PROVE  \A w \in Workers : Fits(w)'
<1> SUFFICES ASSUME NEW v \in Workers PROVE Fits(v)'
  OBVIOUS
<1>1. ASSUME NEW w \in Workers, Step(w) PROVE Fits(v)'
  <2>1. v = w
    BY DEF OneProcess
  <2>2. QED
    BY <1>1, <2>1, StepFits DEF TypeOK
<1>2. CASE Discover \/ Environment \/ Operator \/ UNCHANGED vars
  BY <1>2, OthersFit
<1>3. QED
  BY <1>1, <1>2 DEF Next

\* A write that leaves the file's columns alone keeps what is said of the file
\* if it does not take a placed copy back into the pipeline.
Relabels(from, to, new) ==
  /\ new.placed = row.placed /\ new.path \in {row.path, "partial"}
  /\ new.bytes = row.bytes /\ new.hash = row.hash
  /\ from # "COMMITTING"
  /\ to \in Copying => from \in Copying \/ ~row.placed
  /\ to = "VERIFIED" => from = "VERIFIED"
  /\ to = "COMMITTING" => from = "VERIFIED"

LEMMA RelabelKeeps ==
  ASSUME FinalKept, NothingYet, disk' = disk, NEW k, NEW from, NEW to,
         NEW new \in Rows, Advance(k, from, to, new), Relabels(from, to, new)
  PROVE  FinalKept' /\ NothingYet'
<1>1. CASE UNCHANGED journal
  BY <1>1 DEF journal, FinalKept, NothingYet, Sound, Accepts
<1>2. CASE /\ row.state = from /\ row'.state = to
           /\ row'.placed = new.placed /\ row'.path = new.path
           /\ row'.bytes = new.bytes /\ row'.hash = new.hash
  <2>1. FinalKept'
    BY <1>2 DEF FinalKept, Relabels, Accepts
  <2>2. NothingYet'
    BY <1>2 DEF NothingYet, Relabels, Accepts, Sound
  <2>3. QED
    BY <2>1, <2>2
<1>3. QED
  BY <1>1, <1>2, Written

\* Before the final name is taken, measuring the .partial makes a verified copy
\* of it only if it is whole and accepted.
Measures(from, to, new) ==
  /\ from \in {"TRANSFERRING", "VERIFYING"} /\ to # "COMMITTING"
  /\ new.placed = row.placed /\ new.path = row.path
  /\ to = "VERIFIED" => /\ new.hash # None /\ new.hash = disk.partial
                        /\ SizeOf(new.hash) = "full" /\ Accepts(new.hash)

LEMMA MeasureKeeps ==
  ASSUME FinalKept, NothingYet, disk' = disk, NEW k, NEW from, NEW to,
         NEW new \in Rows, Advance(k, from, to, new), Measures(from, to, new)
  PROVE  FinalKept' /\ NothingYet'
<1>1. CASE UNCHANGED journal
  BY <1>1 DEF journal, FinalKept, NothingYet, Sound, Accepts
<1>2. CASE /\ row.state = from /\ row'.state = to
           /\ row'.placed = new.placed /\ row'.path = new.path
           /\ row'.bytes = new.bytes /\ row'.hash = new.hash
  <2>1. row.state \in Copying
    BY <1>2 DEF Measures, Copying
  <2>2. ~row'.placed
    BY <1>2, <2>1 DEF FinalKept, Measures
  <2>3. FinalKept'
    BY <2>2 DEF FinalKept
  <2>4. NothingYet'
    BY <1>2, <2>2 DEF NothingYet, Measures, Accepts, Sound
  <2>5. QED
    BY <2>3, <2>4
<1>3. QED
  BY <1>1, <1>2, Written

LEMMA StillKeeps ==
  ASSUME FinalKept, NothingYet, disk' = disk, row' = row
  PROVE  FinalKept' /\ NothingYet'
BY DEF FinalKept, NothingYet, Sound, Accepts

LEMMA CycleKeeps ==
  ASSUME TypeOK, FinalKept, NothingYet, NEW w \in Workers,
         \/ StartCycle(w) \/ Reconcile(w) \/ ReconcileLost(w) \/ ReconcileBlind(w)
         \/ List(w)
  PROVE  FinalKept' /\ NothingYet'
<1>0. row \in Rows
  BY DEF TypeOK
<1>1. CASE StartCycle(w) \/ ReconcileBlind(w) \/ List(w)
  BY <1>1, StillKeeps DEF StartCycle, ReconcileBlind, List, journal
<1>2. CASE ReconcileLost(w)
  <2>1. Advance(Fresh, "COMPLETE", "QUARANTINED_LOST", row) /\ disk' = disk
    BY <1>2 DEF ReconcileLost
  <2>2. Relabels("COMPLETE", "QUARANTINED_LOST", row)
    BY DEF Relabels, Copying
  <2>3. QED
    BY <1>0, <2>1, <2>2, RelabelKeeps
<1>3. CASE Reconcile(w)
  <2> DEFINE r == job[w].got
             to == ReconcileTo(r, LocalValid(r, job[w].seen))
  <2>1. /\ IF to # r.state THEN Advance(Fresh, r.state, to, row) ELSE UNCHANGED journal
        /\ disk' = disk
    BY <1>3, Zenon DEF Reconcile
  <2>2. CASE to = r.state
    BY <2>1, <2>2, StillKeeps DEF journal
  <2>3. CASE to # r.state
    <3>1. Advance(Fresh, r.state, to, row)
      BY <2>1, <2>3
    <3>2. /\ r.state \in {"COMMITTED", "REMOTE_RETAINED", "COMPLETE",
                         "REMOTE_DELETE_PENDING"}
          /\ to \in {"QUARANTINED", "QUARANTINED_LOST", "COMPLETE"}
      BY <2>3 DEF ReconcileTo
    <3> HIDE DEF r, to
    <3>3. Relabels(r.state, to, row)
      BY <3>2 DEF Relabels, Copying
    <3>4. QED
      BY <1>0, <2>1, <3>1, <3>3, RelabelKeeps
  <2>4. QED
    BY <2>2, <2>3
<1>4. QED
  BY <1>1, <1>2, <1>3

\* While a copy is under way only the .partial is touched.
LEMMA PartialKeeps ==
  ASSUME FinalKept, NothingYet, row' = row, row.state = "TRANSFERRING",
         disk'.final = disk.final, disk'.safe = disk.safe
  PROVE  FinalKept' /\ NothingYet'
BY DEF FinalKept, NothingYet, Sound, Accepts, Copying

LEMMA TransferKeeps ==
  ASSUME TypeOK, FinalKept, NothingYet, NEW w \in Workers, Fits(w), Sees(w),
         \/ TransferLook(w) \/ TransferCollide(w) \/ TransferClaim(w)
         \/ TransferClear(w) \/ TransferCopy(w) \/ TransferMiscopy(w)
         \/ TransferCopyFails(w) \/ TransferRecord(w) \/ TransferFail(w)
  PROVE  FinalKept' /\ NothingYet'
<1>0. row \in Rows /\ disk \in Disks /\ job[w].got \in Rows
  BY DEF TypeOK, Jobs
<1>1. CASE TransferLook(w) \/ TransferCopyFails(w)
  BY <1>1, StillKeeps DEF TransferLook, TransferCopyFails, journal
<1>2. CASE TransferCollide(w)
  <2>1. Advance(Key(w, "failed:collision"), job[w].got.state, "FAILED", row) /\ disk' = disk
    BY <1>2 DEF TransferCollide
  <2>2. job[w].got.state \in {"DISCOVERED", "TRANSFERRING"}
    BY <1>2 DEF TransferCollide, Fits, At
  <2>3. Relabels(job[w].got.state, "FAILED", row)
    BY <2>2 DEF Relabels, Copying
  <2>4. QED
    BY <1>0, <2>1, <2>3, RelabelKeeps
<1>3. CASE TransferClaim(w)
  <2> DEFINE new == [row EXCEPT !.path = "partial"]
             from == job[w].got.state
  <2>1. /\ new \in Rows /\ new.path = "partial" /\ new.placed = row.placed
        /\ new.bytes = row.bytes /\ new.hash = row.hash
    BY <1>0 DEF Rows
  <2>2. Advance(Key(w, "transferring"), from, "TRANSFERRING", new) /\ disk' = disk
    BY <1>3, Zenon DEF TransferClaim
  <2>3. At(w, "tclaim")
    BY <1>3, Zenon DEF TransferClaim
  <2>4. from \in {"DISCOVERED", "TRANSFERRING"} /\ ~row.placed
    BY <2>3 DEF Fits, Sees, At
  <2> HIDE DEF new, from
  <2>5. Relabels(from, "TRANSFERRING", new)
    BY <2>1, <2>4 DEF Relabels
  <2>6. QED
    BY <2>1, <2>2, <2>5, RelabelKeeps
<1>4. CASE TransferClear(w) \/ TransferCopy(w) \/ TransferMiscopy(w)
  <2>1. row' = row /\ row.state = "TRANSFERRING"
    BY <1>4 DEF TransferClear, TransferCopy, TransferMiscopy, Copied, Fits, At, journal
  <2>2. \E c, s : disk' = [disk EXCEPT !.partial = c, !.same = FALSE, !.synced = s]
                \/ disk' = [disk EXCEPT !.partial = c, !.same = FALSE]
    BY <1>4 DEF TransferClear, TransferCopy, TransferMiscopy, Copied
  <2>3. disk'.final = disk.final /\ disk'.safe = disk.safe
    BY <1>0, <2>2 DEF Disks
  <2>4. QED
    BY <2>1, <2>3, PartialKeeps
<1>5. CASE TransferRecord(w)
  <2> DEFINE new == [row EXCEPT !.bytes = "full"]
  <2>1. new \in Rows /\ new.placed = row.placed /\ new.path = row.path
    BY <1>0 DEF Rows
  <2>2. /\ \/ UNCHANGED journal
           \/ Advance(Key(w, "transferred"), "TRANSFERRING", "TRANSFERRED", new)
        /\ disk' = disk
    BY <1>5 DEF TransferRecord, AdvanceAndDispatch
  <2> HIDE DEF new
  <2>3. Measures("TRANSFERRING", "TRANSFERRED", new)
    BY <2>1 DEF Measures
  <2>4. QED
    BY <2>1, <2>2, <2>3, MeasureKeeps, StillKeeps DEF journal
<1>6. CASE TransferFail(w)
  <2> DEFINE charged == [row EXCEPT !.retry = NextAttempt(job[w].got)]
  <2>1. /\ charged \in Rows /\ charged.placed = row.placed /\ charged.path = row.path
        /\ charged.bytes = row.bytes /\ charged.hash = row.hash
    BY <1>0, NextAttemptType DEF Rows
  <2>2. /\ \/ Advance(Key(w, "failed:copy"), "TRANSFERRING", "FAILED", row)
           \/ Advance(Key(w, "failed:copy"), "TRANSFERRING", "FAILED", charged)
           \/ Advance(Key(w, "copy:unclaimed"), "TRANSFERRING", "TRANSFERRING", charged)
        /\ disk' = disk
    BY <1>6, SMTT(30) DEF TransferFail
  <2> HIDE DEF charged
  <2>3. /\ Relabels("TRANSFERRING", "FAILED", row) /\ Relabels("TRANSFERRING", "FAILED", charged)
        /\ Relabels("TRANSFERRING", "TRANSFERRING", charged)
    BY <2>1 DEF Relabels, Copying
  <2>4. QED
    BY <1>0, <2>1, <2>2, <2>3, RelabelKeeps
<1>7. QED
  BY <1>1, <1>2, <1>3, <1>4, <1>5, <1>6

\* Verify judges the .partial it has read, and nothing has changed since.
LEMMA VerifyKeeps ==
  ASSUME TypeOK, FinalKept, NothingYet, Evidence, NEW w \in Workers, Fits(w), Sees(w),
         \/ ToVerifying(w) \/ VerifyRead(w) \/ VerifyUnreadable(w)
         \/ VerifyMismatch(w) \/ VerifyAccept(w) \/ VerifyCannot(w) \/ VerifyStall(w)
  PROVE  FinalKept' /\ NothingYet'
<1>0. row \in Rows /\ job[w].got \in Rows /\ job[w].seen \in MaybeContent
  BY DEF TypeOK, Jobs
<1>1. CASE VerifyRead(w)
  BY <1>1, StillKeeps DEF VerifyRead, journal
<1>2. CASE ToVerifying(w)
  <2>1. Advance(Key(w, "verifying"), "TRANSFERRED", "VERIFYING", row) /\ disk' = disk
    BY <1>2 DEF ToVerifying, AdvanceAndDispatch
  <2>2. Relabels("TRANSFERRED", "VERIFYING", row)
    BY DEF Relabels, Copying
  <2>3. QED
    BY <1>0, <2>1, <2>2, RelabelKeeps
<1>3. At(w, "vjudge") => /\ job[w].got = row /\ row.state = "VERIFYING"
                         /\ row.bytes = "full" /\ job[w].seen \in {None, disk.partial}
  BY DEF Fits, Sees, Evidence, Landed, At
<1>4. ASSUME NEW to, NEW new \in Rows, At(w, "vjudge"), Judge(w, to, new),
             Measures("VERIFYING", to, new)
      PROVE  FinalKept' /\ NothingYet'
  <2>1. Advance(Key(w, "verify"), "VERIFYING", to, new) /\ disk' = disk
    BY <1>3, <1>4 DEF Judge, AdvanceAndDispatch
  <2>2. QED
    BY <1>4, <2>1, MeasureKeeps
<1>5. /\ Hashed(w) \in Rows /\ Hashed(w).placed = row.placed
      /\ Hashed(w).path = row.path /\ Hashed(w).hash = job[w].seen
  BY <1>0 DEF Hashed, Rows
<1>6. CASE VerifyUnreadable(w)
  <2>1. Measures("VERIFYING", "FAILED", row)
    BY DEF Measures
  <2>2. QED
    BY <1>0, <1>4, <1>6, <2>1 DEF VerifyUnreadable
<1>7. CASE VerifyMismatch(w) \/ VerifyCannot(w)
  <2>1. Measures("VERIFYING", "FAILED", Hashed(w))
        /\ Measures("VERIFYING", "QUARANTINED", Hashed(w))
    BY <1>5 DEF Measures
  <2>2. QED
    BY <1>4, <1>5, <1>7, <2>1 DEF VerifyMismatch, VerifyCannot
<1>8. CASE VerifyAccept(w)
  <2> DEFINE new(b) == [Hashed(w) EXCEPT !.rejected = b]
  <2>1. \A b \in BOOLEAN : /\ new(b) \in Rows /\ new(b).placed = row.placed
                           /\ new(b).path = row.path /\ new(b).hash = job[w].seen
    BY <1>5 DEF Rows
  <2>2. At(w, "vjudge") /\ Readable(w)
    BY <1>8 DEF VerifyAccept
  <2>3. \/ ValidatorAccepts(w) /\ Judge(w, "VERIFIED", new(FALSE))
        \/ Judge(w, "QUARANTINED", new(TRUE))
    BY <1>8 DEF VerifyAccept
  <2>4. job[w].seen # None /\ SizeOf(job[w].seen) = "full"
    BY <1>3, <2>2 DEF Readable, ExpectedSize
  <2> HIDE DEF new
  <2>5. Measures("VERIFYING", "QUARANTINED", new(TRUE))
    BY <2>1 DEF Measures
  <2>6. ValidatorAccepts(w) => Measures("VERIFYING", "VERIFIED", new(FALSE))
    BY <1>3, <2>1, <2>2, <2>4 DEF Measures, ValidatorAccepts, Accepts
  <2>7. QED
    BY <1>4, <2>1, <2>2, <2>3, <2>5, <2>6
<1>9. CASE VerifyStall(w)
  <2> DEFINE from == job[w].got.state
             charged == [row EXCEPT !.retry = NextAttempt(job[w].got)]
  <2>1. charged \in Rows /\ charged.placed = row.placed /\ charged.path = row.path
    BY <1>0, NextAttemptType DEF Rows
  <2>2. \/ Advance(Key(w, "verify-stall"), from, "QUARANTINED", charged)
        \/ Advance(Key(w, "verify-stall"), from, from, charged)
    BY <1>9, Zenon DEF VerifyStall, AdvanceAndDispatch
  <2>3. At(w, "vjudge") /\ disk' = disk
    BY <1>9, Zenon DEF VerifyStall
  <2>4. from = "VERIFYING"
    BY <1>3, <2>3
  <2> HIDE DEF from, charged
  <2>5. Measures("VERIFYING", "QUARANTINED", charged) /\ Measures("VERIFYING", "VERIFYING", charged)
    BY <2>1 DEF Measures
  <2>6. QED
    BY <2>1, <2>2, <2>3, <2>4, <2>5, MeasureKeeps
<1>10. QED
  BY <1>1, <1>2, <1>6, <1>7, <1>8, <1>9

\* Commit puts what the .partial holds under the final name, and records what
\* it then measures there.
LEMMA CommitKeeps ==
  ASSUME TypeOK, SecuredFirst, ~damaged, FinalKept, NothingYet, CommitsFull,
         NEW w \in Workers, Fits(w), Sees(w),
         \/ CommitBegin(w) \/ CommitLink(w) \/ CommitUnlink(w) \/ CommitSync(w)
         \/ CommitRecord(w)
  PROVE  FinalKept' /\ NothingYet'
<1>0. row \in Rows /\ disk \in Disks /\ job[w].seen \in MaybeContent
  BY DEF TypeOK, Jobs
<1>1. CASE CommitBegin(w)
  <2>1. Advance(Key(w, "committing"), "VERIFIED", "COMMITTING", row) /\ disk' = disk
    BY <1>1, Zenon DEF CommitBegin
  <2>2. Relabels("VERIFIED", "COMMITTING", row)
    BY DEF Relabels, Copying
  <2>3. QED
    BY <1>0, <2>1, <2>2, RelabelKeeps
<1>2. Committing(w) => row.state = "COMMITTING" /\ ~row.placed
  BY DEF Fits, FinalKept, Copying
<1>3. CASE CommitLink(w) \/ CommitUnlink(w) \/ CommitSync(w)
  <2>1. row' = row /\ Committing(w)
    BY <1>3 DEF CommitLink, CommitUnlink, CommitSync, journal, Committing, At
  <2>2. /\ disk'.final \in {disk.final, disk.partial}
        /\ disk'.partial \in {disk.partial, None}
    <3>1. CASE CommitLink(w)
      <4>1. \/ disk' = disk
            \/ disk' = [disk EXCEPT !.final = disk.partial, !.same = TRUE,
                                    !.synced = TRUE, !.safe = FALSE]
        BY <3>1 DEF CommitLink
      <4>2. QED
        BY <1>0, <4>1 DEF Disks
    <3>2. CASE CommitUnlink(w)
      BY <1>0, <3>2 DEF CommitUnlink, Disks
    <3>3. CASE CommitSync(w)
      BY <1>0, <3>3 DEF CommitSync, Disks
    <3>4. QED
      BY <1>3, <3>1, <3>2, <3>3
  <2>3. QED
    BY <1>2, <2>1, <2>2 DEF FinalKept, NothingYet, Sound, Accepts
<1>4. CASE CommitRecord(w)
  <2> DEFINE plain == [row EXCEPT !.path = "final", !.placed = TRUE]
             new == Measured(w, plain)
  <2>1. /\ Advance(Key(w, "committed"), "COMMITTING", "COMMITTED", new)
        /\ At(w, "crecord") /\ disk' = disk
    BY <1>4 DEF CommitRecord, AdvanceAndDispatch
  <2>2. Committing(w)
    BY <2>1 DEF Committing, At
  <2>3. plain \in Rows /\ plain.placed /\ plain.bytes = row.bytes /\ plain.hash = row.hash
    BY <1>0 DEF Rows
  <2>4. /\ job[w].got = row /\ row.bytes = "full"
        /\ job[w].seen = disk.final /\ disk.final # None /\ disk.safe
    BY <2>1, <2>2 DEF Fits, CommitsFull, Sees, SecuredFirst, Secured
  <2>5. /\ SizeOf(row.hash) = "full" /\ Accepts(row.hash)
        /\ disk.final = row.hash \/ (disk.final = Torn /\ "power" \in FaultKinds)
    BY <1>2, <2>2, <2>4 DEF NothingYet, Sound
  <2> HIDE DEF plain
  <2>6. /\ new \in Rows /\ new.placed /\ new.hash = disk.final
        /\ new.bytes = SizeOf(disk.final)
        /\ new.bytes = "short" => "power" \in FaultKinds
        /\ new.bytes # "short" => new.hash = row.hash
    <3>1. CASE SizeOf(disk.final) = "full"
      <4>1. new = plain
        BY <2>4, <3>1 DEF Measured
      <4>2. disk.final = row.hash
        BY <2>5, <3>1 DEF SizeOf
      <4>3. QED
        BY <2>3, <2>4, <3>1, <4>1, <4>2
    <3>2. CASE SizeOf(disk.final) = "short"
      <4>1. new = [plain EXCEPT !.bytes = "short", !.hash = disk.final]
        BY <2>4, <3>2 DEF Measured
      <4>2. "power" \in FaultKinds
        BY <2>5, <3>2
      <4>3. QED
        BY <1>0, <2>3, <3>2, <4>1, <4>2 DEF Rows, Disks
    <3>3. QED
      BY <3>1, <3>2 DEF SizeOf
  <2> HIDE DEF new
  <2>7. CASE UNCHANGED journal
    BY <2>1, <2>7, StillKeeps DEF journal
  <2>8. CASE /\ row'.state = "COMMITTED" /\ row'.placed = new.placed
             /\ row'.bytes = new.bytes /\ row'.hash = new.hash
    <3>1. FinalKept'
      BY <2>1, <2>4, <2>5, <2>6, <2>8 DEF FinalKept, Accepts, Copying
    <3>2. NothingYet'
      BY <2>6, <2>8 DEF NothingYet
    <3>3. QED
      BY <3>1, <3>2
  <2>9. QED
    BY <2>1, <2>6, <2>7, <2>8, Written
<1>5. QED
  BY <1>1, <1>3, <1>4

LEMMA DeleteKeeps ==
  ASSUME TypeOK, FinalKept, NothingYet, NEW w \in Workers,
         \/ Retain(w) \/ DeleteLook(w) \/ DeleteIntent(w) \/ DeleteStat(w)
         \/ DeleteBlind(w) \/ DeleteCall(w) \/ DeleteRefuse(w) \/ DeleteComplete(w)
  PROVE  FinalKept' /\ NothingYet'
<1>0. row \in Rows
  BY DEF TypeOK
<1>1. disk' = disk
  BY DEF Retain, DeleteLook, DeleteIntent, DeleteStat, DeleteBlind, DeleteCall,
         DeleteRefuse, DeleteComplete
<1>2. ASSUME NEW k, NEW from \in DurableRestorePoints, NEW to \in DurableRestorePoints,
             Advance(k, from, to, row)
      PROVE  FinalKept' /\ NothingYet'
  <2>1. Relabels(from, to, row)
    BY DEF Relabels, Copying, DurableRestorePoints
  <2>2. QED
    BY <1>0, <1>1, <1>2, <2>1, RelabelKeeps
<1>3. CASE DeleteLook(w) \/ DeleteStat(w) \/ DeleteBlind(w) \/ DeleteCall(w)
  BY <1>1, <1>3, StillKeeps DEF DeleteLook, DeleteStat, DeleteBlind, DeleteCall, journal
<1>4. CASE Retain(w)
  <2>1. \/ UNCHANGED journal
        \/ /\ row.state \in {"COMMITTED", "REMOTE_DELETE_PENDING", "REMOTE_RETAINED"}
           /\ Advance(Key(w, "retain"), row.state, "REMOTE_RETAINED", row)
    BY <1>4 DEF Retain
  <2>2. QED
    BY <1>1, <1>2, <2>1, StillKeeps DEF journal, DurableRestorePoints
<1>5. CASE DeleteIntent(w)
  <2>1. Advance(Key(w, "delete:pending"), "COMMITTED", "REMOTE_DELETE_PENDING", row)
    BY <1>5, Zenon DEF DeleteIntent
  <2>2. QED
    BY <1>2, <2>1 DEF DurableRestorePoints
<1>6. CASE DeleteRefuse(w)
  <2>1. Advance(Key(w, "delete:refused"), "REMOTE_DELETE_PENDING",
                "REMOTE_DELETE_PENDING", row)
    BY <1>6 DEF DeleteRefuse
  <2>2. QED
    BY <1>2, <2>1 DEF DurableRestorePoints
<1>7. CASE DeleteComplete(w)
  <2>1. Advance(Key(w, "delete:complete"), "REMOTE_DELETE_PENDING", "COMPLETE", row)
    BY <1>7 DEF DeleteComplete
  <2>2. QED
    BY <1>2, <2>1 DEF DurableRestorePoints
<1>8. QED
  BY <1>3, <1>4, <1>5, <1>6, <1>7

\* What a power loss leaves under the two names.
LEMMA PowerLossLeaves ==
  ASSUME disk \in Disks, PowerLoss
  PROVE  /\ disk'.partial \in {disk.partial, disk.final, Torn, None}
         /\ disk'.final \in {disk.final, None}
         /\ row' = row /\ log' = log /\ "power" \in FaultKinds
<1>1. "power" \in FaultKinds /\ row' = row /\ log' = log /\ disk' \in AfterPowerLoss
  BY DEF PowerLoss, Fault, journal
<1>2. Surviving \subseteq {disk.partial, Torn, None}
  BY DEF Surviving
<1> DEFINE settled == [disk EXCEPT !.synced = TRUE, !.safe = TRUE]
<1>3. \/ \E p \in Surviving : disk' = [settled EXCEPT !.partial = p]
      \/ disk' = [settled EXCEPT !.partial = disk.final, !.same = TRUE]
      \/ disk' = [settled EXCEPT !.partial = disk.final, !.final = None, !.same = FALSE]
      \/ \E p \in Surviving : disk' = [settled EXCEPT !.partial = p, !.final = None]
  BY <1>1, Zenon DEF AfterPowerLoss
<1>4. settled.final = disk.final /\ settled \in Disks
  BY DEF Disks
<1> HIDE DEF settled
<1>5. /\ disk'.partial \in {disk.partial, disk.final, Torn, None}
      /\ disk'.final \in {disk.final, None}
  BY <1>2, <1>3, <1>4 DEF Disks
<1>6. QED
  BY <1>1, <1>5

LEMMA EnvironmentKeeps ==
  ASSUME TypeOK, ~damaged', FinalKept, NothingYet, Discover \/ Environment \/ UNCHANGED vars
  PROVE  FinalKept' /\ NothingYet'
<1>0. disk \in Disks
  BY DEF TypeOK
<1>1. CASE UNCHANGED vars
  BY <1>1, StillKeeps DEF vars
<1>2. CASE Discover
  <2>1. /\ row = NoRow /\ disk' = disk
        /\ row' = [NoRow EXCEPT !.state = "DISCOVERED", !.ver = remote]
    BY <1>2 DEF Discover
  <2>2. QED
    BY <2>1 DEF NoRow, FinalKept, NothingYet
<1>3. CASE PowerLoss
  <2>1. FinalKept'
    <3>1. CASE row.placed
      <4>1. disk'.final = disk.final /\ disk'.safe
        <5>1. ~Damage /\ ~Repair
          BY DEF Damage, Repair
        <5>2. disk.final # None /\ disk.safe
          BY <3>1 DEF FinalKept
        <5>3. QED
          BY <1>0, <1>3, <5>1, <5>2, CopyLasts DEF Next, Environment
      <4>2. QED
        BY <1>0, <1>3, <4>1, PowerLossLeaves DEF FinalKept, Accepts
    <3>2. CASE ~row.placed
      BY <1>0, <1>3, <3>2, PowerLossLeaves DEF FinalKept
    <3>3. QED
      BY <3>1, <3>2
  <2>2. NothingYet'
    BY <1>0, <1>3, PowerLossLeaves DEF NothingYet, Accepts, Sound
  <2>3. QED
    BY <2>1, <2>2
<1>4. CASE Damage \/ Repair
  BY <1>4 DEF Damage, Repair
<1>5. CASE (\E w \in Workers : Crash(w)) \/ ProducerReplace \/ ProducerRemove
  BY <1>5, StillKeeps DEF Crash, ProducerReplace, ProducerRemove, journal
<1>6. QED
  BY <1>1, <1>2, <1>3, <1>4, <1>5 DEF Environment

\* What an operator's verb does to a row whose copy nobody has damaged: the
\* file's columns stay, and a copy that is trusted is only distrusted if it is
\* short.
Decides ==
  /\ row.state \notin InProgress \cup {"none"} /\ row'.state \notin Copying
  /\ row'.placed = row.placed /\ row'.path = row.path
  /\ row'.bytes = row.bytes /\ row'.hash = row.hash
  /\ row'.state = "FAILED" => row.state = "FAILED"
  /\ row.state \in DurableRestorePoints =>
       \/ row.bytes = "short" /\ row'.state \in QuarantineStates
       \/ row'.state = "COMMITTED" /\ ~Unreleased

LEMMA OperatorDecides ==
  ASSUME TypeOK, Evidence, FinalKept, NothingYet, Operator
  PROVE  UNCHANGED journal \/ Decides
<1>0. row \in Rows /\ disk \in Disks
  BY DEF TypeOK
<1>1. ASSUME NEW from, NEW to, NEW new \in Rows, Advance(Fresh, from, to, new),
             to \notin Copying, from \notin InProgress \cup {"none"},
             new.placed = row.placed, new.path = row.path, new.bytes = row.bytes,
             new.hash = row.hash, to = "FAILED" => from = "FAILED",
             from \in DurableRestorePoints =>
                 \/ row.bytes = "short" /\ to \in QuarantineStates
                 \/ to = "COMMITTED" /\ ~Unreleased
      PROVE  UNCHANGED journal \/ Decides
  BY <1>1, Written DEF Decides
<1> DEFINE again == [row EXCEPT !.retry = @ + 1]
<1>2. /\ again \in Rows /\ again.placed = row.placed /\ again.path = row.path
      /\ again.bytes = row.bytes /\ again.hash = row.hash
  BY <1>0 DEF Rows
<1> HIDE DEF again
<1>3. /\ {"FAILED", "QUARANTINED"} \cap (InProgress \cup {"none"} \cup DurableRestorePoints) = {}
      /\ "DISCOVERED" \notin Copying /\ "FAILED" \notin Copying /\ "QUARANTINED" \notin Copying
  BY DEF InProgress, DurableRestorePoints, Copying
<1>4. CASE RetryQuarantinedIngestion \/ ReleaseFromQuarantine
  <2>1. \/ Advance(Fresh, "QUARANTINED", "DISCOVERED", row)
        \/ Advance(Fresh, "QUARANTINED", "DISCOVERED", again)
    BY <1>4 DEF RetryQuarantinedIngestion, ReleaseFromQuarantine, again
  <2>2. QED
    BY <1>0, <1>1, <1>2, <1>3, <2>1
<1>5. CASE RetryFailed \/ RetryFailedBlind
  <2>1. Advance(Fresh, "FAILED", "DISCOVERED", again)
    BY <1>5 DEF RetryFailed, RetryFailedBlind, again
  <2>2. QED
    BY <1>1, <1>2, <1>3, <2>1
<1>6. CASE RetryInPlace
  <2> DEFINE new == [row EXCEPT !.bytes = SizeOf(disk.final), !.hash = disk.final]
  <2>1. row.path = "final" /\ Advance(Fresh, "FAILED", "FAILED", new)
    BY <1>6 DEF RetryInPlace, AlreadyHere
  <2>2. disk.final = row.hash /\ row.bytes = SizeOf(row.hash)
    BY <2>1 DEF FinalKept, NothingYet
  <2>3. /\ new \in Rows /\ new.placed = row.placed /\ new.path = row.path
        /\ new.bytes = row.bytes /\ new.hash = row.hash
    BY <1>0, <2>2 DEF Rows, Disks, SizeOf
  <2> HIDE DEF new
  <2>4. QED
    BY <1>1, <1>3, <2>1, <2>3
<1>7. CASE Reinstate \/ ReinstateFails \/ ToggleReadOnly
  BY <1>7 DEF Reinstate, ReinstateFails, ToggleReadOnly, journal
<1>8. CASE HoldForJudgement
  <2>1. Advance(Fresh, "FAILED", "QUARANTINED", row)
    BY <1>8 DEF HoldForJudgement
  <2>2. QED
    BY <1>0, <1>1, <1>3, <2>1
<1>9. CASE ReinstateFromQuarantine
  <2> DEFINE new == IF op.valid THEN [row EXCEPT !.rejected = FALSE] ELSE row
  <2>1. /\ new \in Rows /\ new.placed = row.placed /\ new.path = row.path
        /\ new.bytes = row.bytes /\ new.hash = row.hash
    BY <1>0 DEF Rows
  <2>2. \/ UNCHANGED journal
        \/ Advance(Fresh, row.state, Target, new) /\ row.state \in QuarantineStates
    BY <1>9 DEF ReinstateFromQuarantine
  <2> HIDE DEF new
  <2>3. Target \in {"COMPLETE", "COMMITTED", "REMOTE_RETAINED"}
    BY DEF Target, ReinstatementTarget
  <2>4. /\ Target \notin Copying /\ Target # "FAILED"
        /\ QuarantineStates \cap (InProgress \cup {"none"} \cup DurableRestorePoints) = {}
    BY <2>3 DEF Copying, QuarantineStates, InProgress, DurableRestorePoints
  <2>5. QED
    BY <1>1, <2>1, <2>2, <2>4
<1>10. CASE ValidateArtifact
  <2> DEFINE to == IF row.state = "COMPLETE" THEN "QUARANTINED_LOST" ELSE "QUARANTINED"
  <2>1. /\ row.state \in DurableRestorePoints /\ Advance(Fresh, row.state, to, row)
        /\ ~ChecksPass(row, ReadableCopy(row))
    BY <1>10 DEF ValidateArtifact
  <2>2. row.placed
    BY <2>1 DEF Evidence, Untrusted, Trusted
  <2>3. row.bytes = "short"
    BY <2>1, <2>2 DEF ReadableCopy, ChecksPass, FinalKept, Accepts
  <2>4. /\ to \notin Copying /\ to # "FAILED" /\ to \in QuarantineStates
        /\ row.state \notin InProgress \cup {"none"}
    BY <2>1 DEF Copying, QuarantineStates, InProgress, DurableRestorePoints
  <2> HIDE DEF to
  <2>5. QED
    BY <1>0, <1>1, <2>1, <2>3, <2>4
<1>11. CASE ReleaseFromRetention
  <2>1. Advance(Fresh, "REMOTE_RETAINED", "COMMITTED", row) /\ ~Unreleased
    BY <1>11 DEF ReleaseFromRetention, Intervene, Unreleased
  <2>2. /\ "COMMITTED" \notin Copying /\ "REMOTE_RETAINED" \notin InProgress \cup {"none"}
    BY DEF Copying, InProgress
  <2>3. QED
    BY <1>0, <1>1, <2>1, <2>2
<1>12. QED
  BY <1>4, <1>5, <1>6, <1>7, <1>8, <1>9, <1>10, <1>11 DEF Operator

LEMMA OperatorKeeps ==
  ASSUME TypeOK, Evidence, FinalKept, NothingYet, Operator
  PROVE  FinalKept' /\ NothingYet'
<1>1. disk' = disk
  BY OperatorSpares
<1>2. CASE UNCHANGED journal
  BY <1>1, <1>2, StillKeeps DEF journal
<1>3. CASE Decides
  <2>1. FinalKept'
    BY <1>1, <1>3 DEF Decides, FinalKept, Accepts
  <2>2. NothingYet'
    BY <1>1, <1>3 DEF Decides, NothingYet, Copying, InProgress
  <2>3. QED
    BY <2>1, <2>2
<1>4. QED
  BY <1>2, <1>3, OperatorDecides

LEMMA StepKeeps ==
  ASSUME RecordInv, ~damaged, FinalKept, NothingYet, NEW w \in Workers,
         Fits(w), Sees(w), Step(w)
  PROVE  FinalKept' /\ NothingYet'
<1>0. TypeOK /\ SecuredFirst /\ Evidence /\ CommitsFull
  BY DEF RecordInv
<1>1. CASE StartCycle(w) \/ Reconcile(w) \/ ReconcileLost(w) \/ ReconcileBlind(w)
           \/ List(w)
  BY <1>0, <1>1, CycleKeeps
<1>2. CASE TransferLook(w) \/ TransferCollide(w) \/ TransferClaim(w)
           \/ TransferClear(w) \/ TransferCopy(w) \/ TransferMiscopy(w)
           \/ TransferCopyFails(w) \/ TransferRecord(w) \/ TransferFail(w)
  BY <1>0, <1>2, TransferKeeps
<1>3. CASE ToVerifying(w) \/ VerifyRead(w) \/ VerifyUnreadable(w)
           \/ VerifyMismatch(w) \/ VerifyAccept(w) \/ VerifyCannot(w) \/ VerifyStall(w)
  BY <1>0, <1>3, VerifyKeeps
<1>4. CASE CommitBegin(w) \/ CommitLink(w) \/ CommitUnlink(w) \/ CommitSync(w)
           \/ CommitRecord(w)
  BY <1>0, <1>4, CommitKeeps
<1>5. CASE Retain(w) \/ DeleteLook(w) \/ DeleteIntent(w) \/ DeleteStat(w)
           \/ DeleteBlind(w) \/ DeleteCall(w) \/ DeleteRefuse(w) \/ DeleteComplete(w)
  BY <1>0, <1>5, DeleteKeeps
<1>6. QED
  BY <1>1, <1>2, <1>3, <1>4, <1>5 DEF Step

\* A row that is not in progress is moved by a reconciliation or by the
\* deletion step, and by nothing else.
LEMMA FreeSteps ==
  ASSUME NEW w \in Workers, Fits(w), Step(w), row.state \notin InProgress
  PROVE  \/ StartCycle(w) \/ Reconcile(w) \/ ReconcileLost(w) \/ ReconcileBlind(w)
         \/ List(w)
         \/ Retain(w) \/ DeleteLook(w) \/ DeleteIntent(w) \/ DeleteStat(w)
         \/ DeleteBlind(w) \/ DeleteCall(w) \/ DeleteRefuse(w) \/ DeleteComplete(w)
<1>1. job[w].pc \notin {"tlook", "tcollide", "tclaim", "tclear", "tcopy", "trecord", "tfail",
                        "verifying", "vread", "vjudge", "cbegin", "clink", "cunlink",
                        "csync", "crecord"}
  BY DEF Fits, Committing, At, InProgress
<1>2. ~(TransferLook(w) \/ TransferCollide(w) \/ TransferClaim(w) \/ TransferClear(w)
        \/ TransferCopy(w) \/ TransferMiscopy(w) \/ TransferCopyFails(w)
        \/ TransferRecord(w) \/ TransferFail(w))
  BY <1>1, Zenon DEF TransferLook, TransferCollide, TransferClaim, TransferClear, TransferCopy,
              TransferMiscopy, Copied, TransferCopyFails, TransferRecord, TransferFail, At
<1>3. ~(ToVerifying(w) \/ VerifyRead(w) \/ VerifyUnreadable(w) \/ VerifyMismatch(w)
        \/ VerifyAccept(w) \/ VerifyCannot(w) \/ VerifyStall(w))
  BY <1>1, Zenon DEF ToVerifying, VerifyRead, VerifyUnreadable, VerifyMismatch, VerifyAccept,
              VerifyCannot, VerifyStall, At
<1>4. ~(CommitBegin(w) \/ CommitLink(w) \/ CommitUnlink(w) \/ CommitSync(w) \/ CommitRecord(w))
  BY <1>1, Zenon DEF CommitBegin, CommitLink, CommitUnlink, CommitSync, CommitRecord, At
<1>5. QED
  BY <1>2, <1>3, <1>4 DEF Step

\* What a worker's step does to a row that is not in progress.
LEMMA FreeMoves ==
  ASSUME TypeOK, NEW w \in Workers, Fits(w), Step(w), row.state \notin InProgress
  PROVE  \/ UNCHANGED journal
         \/ row'.state \in QuarantineStates /\ (Reconcile(w) \/ ReconcileLost(w))
         \/ row'.state \in {"COMPLETE", "REMOTE_DELETE_PENDING", "REMOTE_RETAINED"}
<1>0. row \in Rows
  BY DEF TypeOK
<1>1. CASE StartCycle(w) \/ ReconcileBlind(w) \/ List(w)
  BY <1>1 DEF StartCycle, ReconcileBlind, List, journal
<1>2. CASE ReconcileLost(w)
  <2>1. Advance(Fresh, "COMPLETE", "QUARANTINED_LOST", row)
    BY <1>2 DEF ReconcileLost
  <2>2. QED
    BY <1>0, <1>2, <2>1, Written DEF QuarantineStates
<1>3. CASE Reconcile(w)
  <2> DEFINE r == job[w].got
             to == ReconcileTo(r, LocalValid(r, job[w].seen))
  <2>1. IF to # r.state THEN Advance(Fresh, r.state, to, row) ELSE UNCHANGED journal
    BY <1>3, Zenon DEF Reconcile
  <2>2. to # r.state => to \in {"QUARANTINED", "QUARANTINED_LOST", "COMPLETE"}
    BY DEF ReconcileTo
  <2> HIDE DEF r, to
  <2>3. QED
    BY <1>0, <1>3, <2>1, <2>2, Written DEF QuarantineStates
<1>4. CASE DeleteLook(w) \/ DeleteStat(w) \/ DeleteBlind(w) \/ DeleteCall(w)
  BY <1>4 DEF DeleteLook, DeleteStat, DeleteBlind, DeleteCall, journal
<1>5. CASE Retain(w)
  <2>1. \/ UNCHANGED journal
        \/ Advance(Key(w, "retain"), row.state, "REMOTE_RETAINED", row)
    BY <1>5 DEF Retain
  <2>2. QED
    BY <1>0, <2>1, Written
<1>6. CASE DeleteIntent(w)
  <2>1. Advance(Key(w, "delete:pending"), "COMMITTED", "REMOTE_DELETE_PENDING", row)
    BY <1>6, Zenon DEF DeleteIntent
  <2>2. QED
    BY <1>0, <2>1, Written
<1>7. CASE DeleteRefuse(w)
  <2>1. Advance(Key(w, "delete:refused"), "REMOTE_DELETE_PENDING",
                "REMOTE_DELETE_PENDING", row)
    BY <1>7 DEF DeleteRefuse
  <2>2. QED
    BY <1>0, <2>1, Written
<1>8. CASE DeleteComplete(w)
  <2>1. Advance(Key(w, "delete:complete"), "REMOTE_DELETE_PENDING", "COMPLETE", row)
    BY <1>8 DEF DeleteComplete
  <2>2. QED
    BY <1>0, <2>1, Written
<1>9. QED
  BY <1>1, <1>2, <1>3, <1>4, <1>5, <1>6, <1>7, <1>8, FreeSteps

\* An entry that was not in the log names the state the row is now in.
LEMMA IntentLeaves ==
  ASSUME TypeOK, [Next]_vars, ~IntentLogged, IntentLogged'
  PROVE  row'.state = "REMOTE_DELETE_PENDING"
<1>1. ASSUME NEW k, NEW from, NEW to, NEW new \in Rows, Advance(k, from, to, new)
      PROVE  row'.state = "REMOTE_DELETE_PENDING"
  <2>1. ~UNCHANGED journal
    BY DEF journal, IntentLogged
  <2>2. row'.state = to /\ log' = Logged(k, from, to)
    BY <1>1, <2>1, Written
  <2>3. log'.used \subseteq log.used \cup {<<k, to>>}
    BY <2>2 DEF Logged
  <2>4. QED
    BY <2>2, <2>3 DEF IntentLogged
<1>2. ~UNCHANGED log
  BY DEF IntentLogged
<1>3. ASSUME NEW w \in Workers, Step(w) PROVE row'.state = "REMOTE_DELETE_PENDING"
  BY <1>1, <1>2, <1>3, StepWrites DEF WritesSome, Writes, journal
<1>4. CASE Operator
  BY <1>1, <1>2, <1>4, OperatorWritesSo DEF OperatorWrites, journal
<1>5. ~Environment /\ ~Discover /\ ~UNCHANGED vars
  BY <1>2, EnvironmentWritesNothing DEF journal, Discover, vars
<1>6. QED
  BY <1>3, <1>4, <1>5 DEF Next

\* A committed record is one that was committing, was reinstated, or was
\* released from retention.
LEMMA CommittedWhen ==
  ASSUME RecordInv, FinalKept, NothingYet, Unreleased, \A w \in Workers : Fits(w),
         [Next]_vars, row.placed
  PROVE  /\ row'.placed
         /\ row'.state = "COMMITTED" => row.state = "COMMITTED" \/ log'.reinstated
         /\ log.reinstated => log'.reinstated
<1>0. TypeOK /\ Evidence /\ CommitsFull
  BY DEF RecordInv
<1>1. WritesFounded
  <2>1. ~Discover
    BY DEF Discover, NoRow
  <2>2. QED
    BY <1>0, <2>1, JournalMoves
<1>2. CASE UNCHANGED journal
  BY <1>2 DEF journal
<1>3. ASSUME NEW k, NEW from, NEW to, NEW new \in Rows, Advance(k, from, to, new),
             Founded(from, to, new), ~UNCHANGED journal
      PROVE  /\ row'.placed
             /\ row'.state = "COMMITTED" => row.state = "COMMITTED" \/ log'.reinstated
             /\ log.reinstated => log'.reinstated
  <2>1. /\ row.state = from /\ Legal(from, to) /\ log' = Logged(k, from, to)
        /\ row'.state = to /\ row'.placed = new.placed
    BY <1>3, Written
  <2>2. /\ log.reinstated => log'.reinstated
        /\ <<from, to>> \in ReinstatementEdges => log'.reinstated
    BY <2>1 DEF Logged
  <2>3. row'.placed
    BY <1>3, <2>1 DEF Founded
  <2>4. ASSUME to = "COMMITTED", from # "COMMITTED", <<from, to>> \notin ReinstatementEdges
        PROVE  FALSE
    <3>1. from \in {"COMMITTING", "REMOTE_RETAINED"}
      BY <2>1, <2>4 DEF Legal, Transitions, ReinstatementEdges, QuarantineStates,
                        DurableRestorePoints
    <3>2. row.state = "REMOTE_RETAINED"
      BY <2>1, <3>1 DEF FinalKept, Copying
    <3>3. row.state \notin InProgress /\ row.state \in DurableRestorePoints
      BY <3>2 DEF InProgress, DurableRestorePoints
    <3>4. "COMMITTED" \notin QuarantineStates
      BY DEF QuarantineStates
    <3>5. ~(\E w \in Workers : Step(w))
      BY <1>0, <1>3, <2>1, <2>4, <3>3, <3>4, FreeMoves
    <3>6. ~Operator
      BY <1>0, <1>3, <2>1, <2>4, <3>3, <3>4, OperatorDecides DEF Decides
    <3>7. QED
      BY <1>3, <3>5, <3>6, EnvironmentWritesNothing, <3>2 DEF Next, Discover, NoRow, vars, journal
  <2>5. QED
    BY <2>1, <2>2, <2>3, <2>4
<1>4. QED
  BY <1>1, <1>2, <1>3 DEF WritesFounded

LEMMA IntentStandsStep ==
  ASSUME RecordInv, RecordInv', FinalKept, NothingYet, Unreleased,
         \A w \in Workers : Fits(w), [Next]_vars, IntentStands
  PROVE  IntentStands'
<1>0. TypeOK /\ Evidence'
  BY DEF RecordInv
<1> SUFFICES ASSUME IntentLogged', ~log'.reinstated
             PROVE  row'.placed /\ row'.state # "COMMITTED"
  BY DEF IntentStands
<1>1. CASE ~IntentLogged
  <2>1. row'.state = "REMOTE_DELETE_PENDING"
    BY <1>0, <1>1, IntentLeaves
  <2>2. QED
    BY <1>0, <2>1 DEF Evidence, Untrusted, Trusted, DurableRestorePoints
<1>2. CASE IntentLogged /\ row.placed
  BY <1>2, CommittedWhen DEF IntentStands
<1>3. CASE IntentLogged /\ log.reinstated
  <2>1. log'.reinstated
    <3>1. ASSUME NEW k, NEW from, NEW to, NEW new, Advance(k, from, to, new)
          PROVE  log'.reinstated
      <4>1. log' = log \/ log' = Logged(k, from, to)
        BY <3>1, AdvanceCases DEF journal
      <4>2. Logged(k, from, to).reinstated = (log.reinstated \/ <<from, to>> \in ReinstatementEdges)
        BY DEF Logged
      <4>3. QED
        BY <1>3, <4>1, <4>2
    <3>2. CASE UNCHANGED log
      BY <1>3, <3>2
    <3>3. CASE Discover \/ WritesFounded
      BY <3>1, <3>2, <3>3 DEF Discover, WritesFounded, journal
    <3>4. QED
      BY <1>0, <3>3, JournalMoves DEF RecordInv
  <2>2. QED
    BY <2>1
<1>4. QED
  BY <1>1, <1>2, <1>3 DEF IntentStands

\* A worker has seen something only at these places.
Watchful == {"tclaim", "vjudge", "crecord", "reconcile", "lost"}

LEMMA CycleSees ==
  ASSUME TypeOK, Evidence, FinalKept, NothingYet, NEW w \in Workers, Sees(w),
         \/ StartCycle(w) \/ Reconcile(w) \/ ReconcileLost(w) \/ ReconcileBlind(w)
         \/ List(w)
  PROVE  Sees(w)'
<1>0. job \in [Workers -> Jobs] /\ row \in Rows
  BY DEF TypeOK
<1>1. CASE StartCycle(w)
  <2>1. /\ job'[w].pc = "reconcile" /\ job'[w].got = row /\ job'[w].seen = ReadableCopy(row)
        /\ row' = row /\ disk' = disk
    BY <1>0, <1>1 DEF StartCycle, IdleJob, journal
  <2>2. ASSUME row.state \in DurableRestorePoints
        PROVE  row.placed /\ row.state # "FAILED" /\ ReadableCopy(row) = disk.final
    <3>1. row.placed
      BY <2>2 DEF Evidence, Untrusted, Trusted
    <3>2. QED
      BY <2>2, <3>1 DEF ReadableCopy, DurableRestorePoints
  <2>3. QED
    BY <2>1, <2>2 DEF Sees, At
<1>2. CASE Reconcile(w)
  <2> DEFINE r == job[w].got
             valid == LocalValid(r, job[w].seen)
             to == ReconcileTo(r, valid)
  <2>1. /\ At(w, "reconcile") /\ disk' = disk
        /\ IF to # r.state THEN Advance(Fresh, r.state, to, row) ELSE UNCHANGED journal
        /\ \/ Goto(w, "list")
           \/ Goto(w, "lost") /\ to = "COMPLETE" /\ ~valid
    BY <1>2, Zenon DEF Reconcile
  <2>2. CASE Goto(w, "list")
    BY <1>0, <2>2, GotoControl DEF Sees, At
  <2>3. CASE Goto(w, "lost") /\ to = "COMPLETE" /\ ~valid
    <3>1. /\ job'[w].pc = "lost" /\ job'[w].got = job[w].got /\ job'[w].seen = job[w].seen
      BY <1>0, <2>3 DEF Goto, Jobs
    <3>2. r.state = "REMOTE_DELETE_PENDING" /\ to # r.state
      BY <2>3 DEF ReconcileTo
    <3>3. job[w].got.state \in DurableRestorePoints
      BY <3>2 DEF DurableRestorePoints
    <3>4. Advance(Fresh, r.state, to, row)
      BY <2>1, <3>2
    <3> HIDE DEF r, to
    <3>5. row' = row \/ (row'.placed = row.placed /\ row'.state = "COMPLETE"
                           /\ row'.bytes = row.bytes /\ row'.hash = row.hash)
      BY <1>0, <2>3, <3>4, Written DEF journal
    <3>6. LocalValid(job'[w].got, job'[w].seen) = LocalValid(job[w].got, job[w].seen)
      BY <3>1
    <3>7. ~LocalValid(job'[w].got, job'[w].seen)
      BY <2>3, <3>6 DEF r
    <3>8. QED
      BY <2>1, <3>1, <3>3, <3>5, <3>7 DEF Sees, At
  <2>4. QED
    BY <2>1, <2>2, <2>3
<1>3. CASE ReconcileLost(w) \/ ReconcileBlind(w)
  BY <1>0, <1>3, GotoControl DEF ReconcileLost, ReconcileBlind, Sees, At
<1>4. CASE List(w)
  <2>1. CASE StageOf(row.state) > 0
    <3>1. job'[w].pc = Entry[StageOf(row.state)]
      BY <1>0, <1>4, <2>1 DEF List, IdleJob
    <3>2. QED
      BY <2>1, <3>1, EntryOf DEF Sees, At
  <2>2. CASE ~(StageOf(row.state) > 0)
    BY <1>0, <1>4, <2>2, StopControl DEF List, Sees, At
  <2>3. QED
    BY <2>1, <2>2
<1>5. QED
  BY <1>1, <1>2, <1>3, <1>4

LEMMA TransferSees ==
  ASSUME job \in [Workers -> Jobs], FinalKept, NEW w \in Workers,
         \/ TransferLook(w) \/ TransferCollide(w) \/ TransferClaim(w)
         \/ TransferClear(w) \/ TransferCopy(w) \/ TransferMiscopy(w)
         \/ TransferCopyFails(w) \/ TransferRecord(w) \/ TransferFail(w)
  PROVE  Sees(w)'
<1>0. job'[w].pc \notin Watchful => Sees(w)'
  BY DEF Watchful, Sees, At
<1>1. CASE TransferLook(w)
  <2>1. /\ row' = row
        /\ \/ job'[w].pc = "tcollide"
           \/ job'[w].pc = "tclaim" /\ disk.final = None
    BY <1>1, RememberControl DEF TransferLook, journal
  <2>2. QED
    BY <2>1 DEF FinalKept, Sees, At
<1>2. CASE TransferClaim(w)
  <2>1. \/ Stop(w)
        \/ \E c : job' = [job EXCEPT ![w] = [@ EXCEPT !.pc = "tclear", !.got = row',
                                                     !.claimed = c]]
    BY <1>2, Zenon DEF TransferClaim
  <2>2. ASSUME NEW c, job' = [job EXCEPT ![w] = [@ EXCEPT !.pc = "tclear", !.got = row',
                                                       !.claimed = c]]
        PROVE  job'[w].pc = "tclear"
    <3>1. job'[w] = [job[w] EXCEPT !.pc = "tclear", !.got = row', !.claimed = c]
      BY <2>2
    <3>2. job[w] \in Jobs
      OBVIOUS
    <3>3. QED
      BY <3>1, <3>2 DEF Jobs
  <2>3. job'[w].pc \in {"idle", "tclear"}
    BY <2>1, <2>2, StopControl
  <2>4. QED
    BY <1>0, <2>3 DEF Watchful
<1>3. CASE TransferClear(w) \/ TransferCopy(w) \/ TransferMiscopy(w) \/ TransferCopyFails(w)
  BY <1>0, <1>3, GotoControl DEF TransferClear, TransferCopy, TransferMiscopy, Copied,
                                 TransferCopyFails, Watchful
<1>4. CASE TransferRecord(w)
  <2>1. Goto(w, "tfail") \/ job'[w].pc \in Starts
    BY <1>4, AdvanceAndDispatchFits DEF TransferRecord
  <2>2. QED
    BY <1>0, <2>1, GotoControl DEF Watchful, Starts
<1>5. CASE TransferCollide(w) \/ TransferFail(w)
  BY <1>0, <1>5, StopControl DEF TransferCollide, TransferFail, Watchful
<1>6. QED
  BY <1>1, <1>2, <1>3, <1>4, <1>5

LEMMA VerifySees ==
  ASSUME job \in [Workers -> Jobs], FinalKept, NothingYet, NEW w \in Workers, Fits(w),
         \/ ToVerifying(w) \/ VerifyRead(w) \/ VerifyUnreadable(w)
         \/ VerifyMismatch(w) \/ VerifyAccept(w) \/ VerifyCannot(w) \/ VerifyStall(w)
  PROVE  Sees(w)'
<1>0. job'[w].pc \in Starts => Sees(w)'
  BY DEF Starts, Sees, At
<1>1. CASE VerifyRead(w)
  <2>1. /\ Remember(w, "vjudge", row, CASE row.path = "partial" -> disk.partial
                                        [] row.path = "final"   -> disk.final
                                        [] OTHER -> None)
        /\ At(w, "vread") /\ disk' = disk
    BY <1>1 DEF VerifyRead
  <2>2. row.path # "final"
    BY <2>1 DEF Fits, At, FinalKept, NothingYet, Copying
  <2>3. job'[w].pc = "vjudge" /\ job'[w].seen \in {None, disk.partial}
    BY <2>1, <2>2, RememberControl
  <2>4. QED
    BY <2>1, <2>3 DEF Sees, At
<1>2. ASSUME NEW to, NEW new, Judge(w, to, new) PROVE Sees(w)'
  BY <1>0, <1>2, AdvanceAndDispatchFits DEF Judge
<1>3. CASE ToVerifying(w)
  BY <1>0, <1>3, AdvanceAndDispatchFits DEF ToVerifying
<1>4. CASE VerifyUnreadable(w) \/ VerifyMismatch(w) \/ VerifyCannot(w)
  BY <1>2, <1>4 DEF VerifyUnreadable, VerifyMismatch, VerifyCannot
<1>5. CASE VerifyAccept(w)
  BY <1>2, <1>5 DEF VerifyAccept
<1>6. CASE VerifyStall(w)
  <2>1. \/ Stop(w)
        \/ \E k, from, new : AdvanceAndDispatch(w, k, from, "QUARANTINED", new, 3)
    BY <1>6, Zenon DEF VerifyStall
  <2>2. QED
    BY <1>0, <2>1, StopFits, AdvanceAndDispatchFits
<1>7. QED
  BY <1>1, <1>3, <1>4, <1>5, <1>6

LEMMA CommitSees ==
  ASSUME job \in [Workers -> Jobs], disk \in Disks, NEW w \in Workers,
         \/ CommitBegin(w) \/ CommitLink(w) \/ CommitUnlink(w) \/ CommitSync(w)
         \/ CommitRecord(w)
  PROVE  Sees(w)'
<1>0. job'[w].pc \notin Watchful => Sees(w)'
  BY DEF Watchful, Sees, At
<1>1. CASE CommitBegin(w)
  <2>1. Stop(w) \/ Remember(w, "clink", row', None) \/ Dispatch(w, row', 4)
    BY <1>1, Zenon DEF CommitBegin
  <2>2. QED
    BY <1>0, <2>1, StopControl, RememberControl, DispatchFits DEF Starts, Watchful
<1>2. CASE CommitLink(w) \/ CommitUnlink(w)
  <2>1. Stop(w) \/ Goto(w, "cunlink") \/ Goto(w, "csync")
    BY <1>2 DEF CommitLink, CommitUnlink
  <2>2. QED
    BY <1>0, <2>1, StopControl, GotoControl DEF Watchful
<1>3. CASE CommitSync(w)
  <2>1. disk'.final = disk.final
    BY <1>3 DEF CommitSync, Disks
  <2>2. \/ Stop(w)
        \/ disk.final # None /\ Remember(w, "crecord", job[w].got, disk.final)
    BY <1>3 DEF CommitSync
  <2>3. CASE Stop(w)
    BY <1>0, <2>3, StopControl DEF Watchful
  <2>4. CASE disk.final # None /\ Remember(w, "crecord", job[w].got, disk.final)
    BY <2>1, <2>4, RememberControl DEF Sees, At
  <2>5. QED
    BY <2>2, <2>3, <2>4
<1>4. CASE CommitRecord(w)
  <2>1. job'[w].pc \in Starts
    BY <1>4, AdvanceAndDispatchFits DEF CommitRecord
  <2>2. QED
    BY <1>0, <2>1 DEF Starts, Watchful
<1>5. QED
  BY <1>1, <1>2, <1>3, <1>4

LEMMA StepSees ==
  ASSUME RecordInv, FinalKept, NothingYet, NEW w \in Workers, Fits(w), Sees(w), Step(w)
  PROVE  Sees(w)'
<1>0. TypeOK /\ Evidence /\ job \in [Workers -> Jobs] /\ disk \in Disks
  BY DEF RecordInv, TypeOK
<1>1. CASE StartCycle(w) \/ Reconcile(w) \/ ReconcileLost(w) \/ ReconcileBlind(w)
           \/ List(w)
  BY <1>0, <1>1, CycleSees
<1>2. CASE TransferLook(w) \/ TransferCollide(w) \/ TransferClaim(w)
           \/ TransferClear(w) \/ TransferCopy(w) \/ TransferMiscopy(w)
           \/ TransferCopyFails(w) \/ TransferRecord(w) \/ TransferFail(w)
  BY <1>0, <1>2, TransferSees
<1>3. CASE ToVerifying(w) \/ VerifyRead(w) \/ VerifyUnreadable(w)
           \/ VerifyMismatch(w) \/ VerifyAccept(w) \/ VerifyCannot(w) \/ VerifyStall(w)
  BY <1>0, <1>3, VerifySees
<1>4. CASE CommitBegin(w) \/ CommitLink(w) \/ CommitUnlink(w) \/ CommitSync(w)
           \/ CommitRecord(w)
  BY <1>0, <1>4, CommitSees
<1>5. CASE Retain(w) \/ DeleteLook(w) \/ DeleteIntent(w) \/ DeleteStat(w)
           \/ DeleteBlind(w) \/ DeleteCall(w) \/ DeleteRefuse(w) \/ DeleteComplete(w)
  <2>1. \/ Stop(w)
        \/ \E p \in {"dintent", "dstat", "dcall", "drefuse", "dcomplete"} :
             Goto(w, p) \/ \E r, c : Remember(w, p, r, c)
    BY <1>5 DEF Retain, DeleteLook, DeleteIntent, DeleteStat, DeleteBlind, DeleteCall,
                DeleteRefuse, DeleteComplete
  <2>2. job'[w].pc \in {"idle", "dintent", "dstat", "dcall", "drefuse", "dcomplete"}
    BY <1>0, <2>1, StopControl, GotoControl, RememberControl
  <2>3. QED
    BY <2>2 DEF Sees, At
<1>6. QED
  BY <1>1, <1>2, <1>3, <1>4, <1>5 DEF Step

\* A worker on its way to the delete call goes under an intent of its own: the
\* one it writes is not a replay.
LEMMA StepDeletes ==
  ASSUME TypeOK, IntentStands, NEW w \in Workers, Deletes(w), Step(w)
  PROVE  Deletes(w)'
<1>0. job \in [Workers -> Jobs] /\ row \in Rows
  BY DEF TypeOK
<1>1. job'[w].pc \notin {"dintent", "dstat", "dcall"} => Deletes(w)'
  BY DEF Deletes, At
<1>2. CASE DeleteLook(w)
  <2>1. /\ row' = row /\ log' = log
        /\ \/ Stop(w)
           \/ /\ MayDelete
              /\ Remember(w, IF row.state = "COMMITTED" THEN "dintent" ELSE "dstat", row, None)
    BY <1>2 DEF DeleteLook, journal
  <2>2. CASE Stop(w)
    BY <1>0, <1>1, <2>2, StopControl
  <2>3. CASE /\ MayDelete
             /\ Remember(w, IF row.state = "COMMITTED" THEN "dintent" ELSE "dstat", row, None)
    <3>1. /\ row.state \in {"COMMITTED", "REMOTE_DELETE_PENDING"}
          /\ ~log.reinstated /\ row.bytes # "short"
      BY <2>3 DEF MayDelete, MatchesRecord
    <3>2. job'[w].pc = IF row.state = "COMMITTED" THEN "dintent" ELSE "dstat"
      BY <1>0, <2>3, RememberControl
    <3>3. QED
      BY <2>1, <3>1, <3>2 DEF Deletes, At
  <2>4. QED
    BY <2>1, <2>2, <2>3
<1>3. CASE DeleteIntent(w)
  <2> DEFINE k == Key(w, "delete:pending")
  <2>1. /\ Advance(k, "COMMITTED", "REMOTE_DELETE_PENDING", row) /\ At(w, "dintent")
        /\ \/ Stop(w)
           \/ Succeeds(k, "COMMITTED", "REMOTE_DELETE_PENDING") /\ Goto(w, "dstat")
    BY <1>3, Zenon DEF DeleteIntent
  <2>2. CASE Stop(w)
    BY <1>0, <1>1, <2>2, StopControl
  <2>3. CASE Succeeds(k, "COMMITTED", "REMOTE_DELETE_PENDING") /\ Goto(w, "dstat")
    <3>1. row.state = "COMMITTED" /\ row.bytes # "short" /\ ~log.reinstated
      BY <2>1 DEF Deletes
    <3>2. ~IntentLogged
      BY <3>1 DEF IntentStands
    <3>3. k.step = "delete:pending"
      BY DEF Key
    <3> HIDE DEF k
    <3>4. <<k, "REMOTE_DELETE_PENDING">> \notin log.used
      BY <3>2, <3>3 DEF IntentLogged
    <3>5. Outcome(k, "COMMITTED", "REMOTE_DELETE_PENDING") = "applied"
      BY <2>3, <3>4 DEF Succeeds, Outcome
    <3>6. row' = [row EXCEPT !.state = "REMOTE_DELETE_PENDING"]
      BY <2>1, <3>5 DEF Advance
    <3>7. row'.state = "REMOTE_DELETE_PENDING" /\ row'.bytes = row.bytes
      BY <1>0, <3>6 DEF Rows
    <3>8. job'[w].pc = "dstat"
      BY <1>0, <2>3, GotoControl
    <3>9. QED
      BY <3>1, <3>7, <3>8 DEF Deletes, At
  <2>4. QED
    BY <2>1, <2>2, <2>3
<1>4. CASE DeleteStat(w)
  <2>1. row' = row /\ At(w, "dstat") /\ (Goto(w, "dcall") \/ Goto(w, "drefuse"))
    BY <1>4 DEF DeleteStat, journal
  <2>2. job'[w].pc \in {"dcall", "drefuse"}
    BY <1>0, <2>1, GotoControl
  <2>3. QED
    BY <2>1, <2>2 DEF Deletes, At
<1>5. QED
  BY <1>0, <1>1, <1>2, <1>3, <1>4, StepControl

\* Nobody else disturbs what a worker is about.
LEMMA OthersSee ==
  ASSUME RecordInv, ~damaged', FinalKept, NothingYet, NEW w \in Workers, Fits(w), Sees(w),
         Discover \/ Environment \/ Operator \/ UNCHANGED vars
  PROVE  /\ Sees(w)'
         /\ Unreleased /\ Deletes(w) => Deletes(w)'
<1>0. TypeOK /\ GoneFirst /\ Evidence /\ job \in [Workers -> Jobs]
  BY DEF RecordInv, TypeOK
<1>1. CASE job'[w].pc = "idle"
  BY <1>1 DEF Sees, Deletes, At
<1>2. CASE job'[w].pc # "idle"
  <2>1. job'[w] = job[w]
    BY <1>0, <1>2, OtherControl
  <2>2. CASE UNCHANGED journal /\ disk' = disk
    BY <2>1, <2>2 DEF journal, Sees, Deletes, At
  <2>3. ~Discover
    BY <1>0, <1>2, <2>1 DEF Discover, GoneFirst, NoRow, At
  <2>4. CASE Environment
    <3>1. ~PowerLoss
      BY <1>2 DEF PowerLoss, IdleJob
    <3>2. ~Damage /\ ~Repair
      BY DEF Damage, Repair
    <3>3. disk' = disk
      BY <2>4, <3>1, <3>2 DEF Environment, Crash, ProducerReplace, ProducerRemove
    <3>4. QED
      BY <2>2, <2>4, <3>3, EnvironmentWritesNothing
  <2>5. CASE Operator
    <3>1. disk' = disk
      BY <1>0, <2>5, OperatorSpares
    <3>2. CASE Decides
      <4>1. row.state \notin InProgress
        BY <3>2 DEF Decides
      <4>2. ~At(w, "tclaim") /\ ~At(w, "vjudge") /\ ~At(w, "crecord")
        BY <4>1 DEF Fits, Committing, At, InProgress
      <4>3. Sees(w)'
        BY <2>1, <3>1, <3>2, <4>2 DEF Decides, Sees, At
      <4>4. Unreleased /\ row.state \in DurableRestorePoints => row.bytes = "short"
        BY <3>2 DEF Decides
      <4>5. Unreleased /\ Deletes(w) => ~At(w, "dintent") /\ ~At(w, "dstat") /\ ~At(w, "dcall")
        BY <4>4 DEF Deletes, DurableRestorePoints
      <4>6. Unreleased /\ Deletes(w) => Deletes(w)'
        BY <2>1, <4>5 DEF Deletes, At
      <4>7. QED
        BY <4>3, <4>6
    <3>3. QED
      BY <1>0, <2>2, <2>5, <3>1, <3>2, OperatorDecides
  <2>6. CASE UNCHANGED vars
    BY <2>2, <2>6 DEF vars, journal
  <2>7. QED
    BY <2>3, <2>4, <2>5, <2>6
<1>3. QED
  BY <1>1, <1>2

\* What is damaged stays so: nothing is said of the file from then on.
LEMMA DamageLasts == ASSUME [Next]_vars, ~damaged' PROVE ~damaged
BY WorldMoves DEF Damage, Repair, ProducerReplace, ProducerRemove, DeleteCall

LEMMA OneStep == OneProcess /\ OneInv /\ [Next]_vars => OneInv'
<1> SUFFICES ASSUME OneProcess, OneInv, [Next]_vars PROVE OneInv'
  OBVIOUS
<1>0. RecordInv /\ TypeOK /\ GoneFirst /\ Evidence /\ \A w \in Workers : Fits(w)
  BY DEF OneInv, RecordInv
<1>1. RecordInv'
  BY <1>0, RecordStep
<1>2. \A w \in Workers : Fits(w)'
  BY <1>0, FitsStep
<1>3. ASSUME ~damaged'
      PROVE  /\ FinalKept' /\ NothingYet'
             /\ \A w \in Workers : Sees(w)'
             /\ Unreleased => IntentStands' /\ \A w \in Workers : Deletes(w)'
  <2>1. /\ ~damaged /\ FinalKept /\ NothingYet
        /\ \A w \in Workers : Sees(w)
        /\ Unreleased => IntentStands /\ \A w \in Workers : Deletes(w)
    BY <1>3, DamageLasts DEF OneInv
  <2>2. ASSUME NEW w \in Workers, Step(w)
        PROVE  /\ FinalKept' /\ NothingYet'
               /\ \A v \in Workers : Sees(v)'
               /\ Unreleased => \A v \in Workers : Deletes(v)'
    <3>1. FinalKept' /\ NothingYet'
      BY <1>0, <2>1, <2>2, StepKeeps
    <3>2. Sees(w)'
      BY <1>0, <2>1, <2>2, StepSees
    <3>3. Unreleased => Deletes(w)'
      BY <1>0, <2>1, <2>2, StepDeletes
    <3>4. QED
      BY <3>1, <3>2, <3>3 DEF OneProcess
  <2>3. ASSUME Discover \/ Environment \/ Operator \/ UNCHANGED vars
        PROVE  /\ FinalKept' /\ NothingYet'
               /\ \A v \in Workers : Sees(v)'
               /\ Unreleased => \A v \in Workers : Deletes(v)'
    <3>1. FinalKept' /\ NothingYet'
      BY <1>0, <1>3, <2>1, <2>3, EnvironmentKeeps, OperatorKeeps
    <3>2. QED
      BY <1>0, <1>3, <2>1, <2>3, <3>1, OthersSee
  <2>4. Unreleased => IntentStands'
    BY <1>0, <1>1, <2>1, IntentStandsStep
  <2>5. QED
    BY <2>2, <2>3, <2>4 DEF Next
<1>4. QED
  BY <1>1, <1>2, <1>3 DEF OneInv

LEMMA OneInit == Init => OneInv
<1> SUFFICES ASSUME Init PROVE OneInv
  OBVIOUS
<1>1. \A w \in Workers : job[w].pc = "idle"
  BY DEF Init, IdleJob
<1>2. \A w \in Workers : Fits(w) /\ Sees(w) /\ Deletes(w)
  BY <1>1 DEF Fits, Sees, Deletes, Committing, At
<1>3. FinalKept /\ NothingYet
  BY DEF Init, NoRow, FinalKept, NothingYet
<1>4. IntentStands
  BY DEF Init, IntentLogged, IntentStands
<1>5. QED
  BY <1>2, <1>3, <1>4, RecordInit DEF OneInv

\* Between a step that reads the row or looks at a file and the step that acts on
\* it nothing a single process does comes in between (pipeline.go), and what the
\* world and the operator do changes nothing it relies on.
THEOREM OneProcessInvariant == OneProcess => (Spec => []OneInv)
<1> SUFFICES ASSUME OneProcess PROVE Spec => []OneInv
  OBVIOUS
<1>1. OneInv /\ [Next]_vars => OneInv'
  BY OneStep
<1>2. QED
  BY <1>1, OneInit, PTL DEF Spec

\* Verify hashes the .partial and Commit links it in a later step (verify.go,
\* commit.go): with one process the committed bytes are still the hashed ones,
\* under any policy. Of a file a power loss cut short in between, Commit records
\* what it finds.
THEOREM HashedIsCommitted == ASSUME OneProcess PROVE Spec => []CommittedIsWhatWasHashed
<1>1. OneInv => CommittedIsWhatWasHashed
  <2> SUFFICES ASSUME OneInv, row.state \in DurableRestorePoints, ~damaged
               PROVE  disk.final = row.hash
    BY DEF CommittedIsWhatWasHashed
  <2>1. row.placed
    BY DEF OneInv, RecordInv, Evidence, Untrusted, Trusted
  <2>2. QED
    BY <2>1 DEF OneInv, FinalKept
<1>2. QED
  BY <1>1, OneProcessInvariant, PTL

\* A validator that is configured has accepted every copy a record calls durable
\* (verify.go, quarantine.go): the exception is what a power loss makes of an
\* accepted .partial before it is linked.
THEOREM AcceptedIsTrusted ==
  ASSUME OneProcess, "power" \notin FaultKinds PROVE Spec => []OnlyAcceptedTrusted
<1>1. OneInv => OnlyAcceptedTrusted
  <2> SUFFICES ASSUME OneInv, HasValidator, row.state \in DurableRestorePoints, ~damaged
               PROVE  disk.final \in Accepted
    BY DEF OnlyAcceptedTrusted
  <2>1. row.placed
    BY DEF OneInv, RecordInv, Evidence, Untrusted, Trusted
  <2>2. QED
    BY <2>1 DEF OneInv, FinalKept, Accepts
<1>2. QED
  BY <1>1, OneProcessInvariant, PTL

\* What Reconcile distrusts of an undamaged copy is short by the record's own
\* account.
LEMMA ReconcileFounded ==
  ASSUME RecordInv, FinalKept, NEW w \in Workers, Sees(w), Reconcile(w) \/ ReconcileLost(w),
         row.state \in DurableRestorePoints, row'.state \in QuarantineStates
  PROVE  row.bytes = "short"
<1>0. row \in Rows /\ DurableRestorePoints \cap QuarantineStates = {}
  BY DEF RecordInv, TypeOK, DurableRestorePoints, QuarantineStates
<1>1. ASSUME row.placed, row.bytes # "short", job[w].got.bytes = row.bytes,
             job[w].got.hash = row.hash, job[w].seen = disk.final
      PROVE  LocalValid(job[w].got, job[w].seen)
  <2>1. disk.final = row.hash /\ disk.final # None /\ row.bytes = SizeOf(row.hash)
    BY <1>1 DEF FinalKept
  <2>2. SizeOf(row.hash) = "full"
    BY <1>1, <2>1 DEF SizeOf
  <2>3. QED
    BY <1>1, <2>1, <2>2 DEF LocalValid, MatchesRecord
<1>2. CASE ReconcileLost(w)
  <2>1. At(w, "lost")
    BY <1>2 DEF ReconcileLost
  <2>2. QED
    BY <1>1, <2>1 DEF Sees, At
<1>3. CASE Reconcile(w)
  <2> DEFINE r == job[w].got
             valid == LocalValid(r, job[w].seen)
             to == ReconcileTo(r, valid)
  <2>1. /\ At(w, "reconcile")
        /\ IF to # r.state THEN Advance(Fresh, r.state, to, row) ELSE UNCHANGED journal
    BY <1>3, Zenon DEF Reconcile
  <2>2. to # r.state /\ Advance(Fresh, r.state, to, row)
    BY <1>0, <2>1 DEF journal
  <2>3. to \in QuarantineStates
    <3> HIDE DEF r, to
    <3>1. QED
      BY <1>0, <2>2, Written DEF journal
  <2>4. ~valid /\ r.state \in DurableRestorePoints
    BY <2>2, <2>3 DEF ReconcileTo, QuarantineStates, DurableRestorePoints
  <2>5. QED
    BY <1>1, <2>1, <2>4 DEF Sees, At
<1>4. QED
  BY <1>2, <1>3

\* A copy the record calls durable is only distrusted over a reason found in
\* that copy (verify.go, reconcile.go), however old the listing a reconciliation
\* works from.
THEOREM DistrustHasReason == ASSUME OneProcess PROVE Spec => DistrustIsFounded
<1> DEFINE Founds == row.state \in DurableRestorePoints /\ row'.state \in QuarantineStates
                       => damaged \/ disk.final # row.hash \/ row.bytes = "short"
<1>1. OneInv /\ [Next]_vars => Founds
  <2> SUFFICES ASSUME OneInv, [Next]_vars, row.state \in DurableRestorePoints,
                      row'.state \in QuarantineStates, ~damaged
               PROVE  row.bytes = "short"
    OBVIOUS
  <2>1. /\ RecordInv /\ TypeOK /\ Evidence /\ FinalKept /\ NothingYet
        /\ \A w \in Workers : Fits(w) /\ Sees(w)
    BY DEF OneInv, RecordInv
  <2>2. /\ row' # row /\ row.state \notin InProgress
        /\ row'.state \notin {"COMPLETE", "REMOTE_DELETE_PENDING", "REMOTE_RETAINED", "COMMITTED"}
    BY DEF DurableRestorePoints, QuarantineStates, InProgress
  <2>3. ASSUME NEW w \in Workers, Step(w) PROVE row.bytes = "short"
    <3>1. Reconcile(w) \/ ReconcileLost(w)
      BY <2>1, <2>2, <2>3, FreeMoves DEF journal
    <3>2. QED
      BY <2>1, <3>1, ReconcileFounded
  <2>4. CASE Operator
    BY <2>1, <2>2, <2>4, OperatorDecides DEF Decides, journal
  <2>5. ~Discover /\ ~Environment /\ ~UNCHANGED vars
    BY <2>2, EnvironmentWritesNothing DEF Discover, NoRow, DurableRestorePoints, journal, vars
  <2>6. QED
    BY <2>3, <2>4, <2>5 DEF Next
<1>2. OneInv /\ [Next]_vars => [Founds]_vars
  BY <1>1
<1>3. QED
  BY <1>2, OneProcessInvariant, PTL DEF Spec, DistrustIsFounded

\* A record that reads COMMITTED or earlier says the remote is untouched
\* (crash_safety.go), and one that reads REMOTE_RETAINED that it will stay so
\* (state.go): with one process the delete call finds the record where the
\* intent left it.
THEOREM DeletionsAreIntended ==
  ASSUME OneProcess, Unreleased PROVE Spec => DeletesUnderIntent
<1> DEFINE Intends == destroyed' # destroyed =>
                        damaged \/ row.state \notin InProgress \cup {"COMMITTED", "REMOTE_RETAINED"}
<1>1. OneInv /\ [Next]_vars => Intends
  <2> SUFFICES ASSUME OneInv, [Next]_vars, destroyed' # destroyed, ~damaged
               PROVE  row.state \notin InProgress \cup {"COMMITTED", "REMOTE_RETAINED"}
    OBVIOUS
  <2>1. PICK w \in Workers : DeleteCall(w)
    BY WorldMoves DEF Damage, Repair, ProducerReplace, ProducerRemove
  <2>2. row.state = "REMOTE_DELETE_PENDING"
    BY <2>1 DEF DeleteCall, OneInv, Deletes
  <2>3. QED
    BY <2>2 DEF InProgress
<1>2. OneInv /\ [Next]_vars => [Intends]_vars
  BY <1>1
<1>3. QED
  BY <1>2, OneProcessInvariant, PTL DEF Spec, DeletesUnderIntent

=============================================================================
