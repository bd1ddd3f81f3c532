----------------------- MODULE ArtifactPipelineProofs -----------------------
(***************************************************************************)
(* Theorems about ArtifactPipeline, for any number of processes, versions, *)
(* faults and interventions.                                               *)
(***************************************************************************)
EXTENDS ArtifactPipeline, TLAPS

-----------------------------------------------------------------------------
(* Type correctness.                                                       *)

\* One journal write keeps the record and the log well formed: whatever state
\* it is asked for, it writes only one that Legal accepts.
LEMMA AdvanceTypes ==
  ASSUME row \in Rows, log \in Logs, NEW k \in Keys, NEW from, NEW to,
         NEW new \in Rows, Advance(k, from, to, new)
  PROVE  row' \in Rows /\ log' \in Logs
<1>1. CASE Outcome(k, from, to) # "applied"
  BY <1>1 DEF Advance, journal
<1>2. CASE Outcome(k, from, to) = "applied"
  <2>1. from \in States /\ to \in States
    BY <1>2, SMTT(30) DEF Outcome, Legal
  <2>2. row' = [new EXCEPT !.state = to] /\ log' = Logged(k, from, to)
    BY <1>2 DEF Advance
  <2>3. row' \in Rows
    BY <2>1, <2>2 DEF Rows
  <2>4. log' \in Logs
    <3>1. Logged(k, from, to).used \in SUBSET (Keys \X States)
      BY <2>1 DEF Logged, Logs
    <3>2. Logged(k, from, to).origin \in QuarantineOrigins \cup {"none"}
      BY DEF Logged, Logs
    <3>3. QED
      BY <2>2, <3>1, <3>2 DEF Logged, Logs
  <2>5. QED
    BY <2>3, <2>4
<1>3. QED
  BY <1>1, <1>2

\* The keys a worker writes under, and the one everybody else does.
LEMMA KeyTypes ==
  ASSUME job \in [Workers -> Jobs], NEW w \in Workers, NEW step \in Steps
  PROVE  Key(w, step) \in Keys /\ Fresh \in Keys
BY DEF Key, Fresh, Keys, Jobs, Steps

LEMMA NoRowType == NoRow \in Rows
BY DEF NoRow, Rows, MaybeContent, States, InProgress

\* Moving a worker on keeps the jobs well formed.
LEMMA GotoTypes ==
  ASSUME job \in [Workers -> Jobs], NEW w \in Workers, NEW p \in Places, Goto(w, p)
  PROVE  job' \in [Workers -> Jobs]
BY DEF Goto, Jobs

LEMMA RememberTypes ==
  ASSUME job \in [Workers -> Jobs], NEW w \in Workers, NEW p \in Places,
         NEW r \in Rows, NEW c \in MaybeContent, Remember(w, p, r, c)
  PROVE  job' \in [Workers -> Jobs]
BY DEF Remember, Jobs

LEMMA StopTypes ==
  ASSUME job \in [Workers -> Jobs], NEW w \in Workers, Stop(w)
  PROVE  job' \in [Workers -> Jobs]
BY NoRowType DEF Stop, IdleJob, Jobs, Places, MaybeContent

LEMMA DispatchTypes ==
  ASSUME job \in [Workers -> Jobs], NEW w \in Workers, NEW r, NEW stage \in Nat,
         Dispatch(w, r, stage)
  PROVE  job' \in [Workers -> Jobs]
<1>1. CASE StageOf(r.state) > stage
  <2>1. StageOf(r.state) \in 1 .. 5
    BY <1>1 DEF StageOf
  <2>2. Entry[StageOf(r.state)] \in Places
    BY <2>1 DEF Entry, Places
  <2>3. [job[w] EXCEPT !.pc = Entry[StageOf(r.state)], !.got = NoRow, !.seen = None,
                       !.claimed = FALSE] \in Jobs
    <3>1. job[w] \in Jobs /\ None \in MaybeContent
      BY DEF MaybeContent
    <3>2. QED
      BY <2>2, <3>1, NoRowType DEF Jobs
  <2>4. job' = [job EXCEPT ![w] = [job[w] EXCEPT !.pc = Entry[StageOf(r.state)], !.got = NoRow,
                                                 !.seen = None, !.claimed = FALSE]]
    BY <1>1 DEF Dispatch
  <2>5. QED
    BY <2>3, <2>4
<1>2. CASE ~(StageOf(r.state) > stage)
  BY <1>2, StopTypes DEF Dispatch
<1>3. QED
  BY <1>1, <1>2

LEMMA FaultTypes ==
  ASSUME faults \in 0 .. MaxFaults, NEW kind, Fault(kind)
  PROVE  faults' \in 0 .. MaxFaults
<1>1. MaxFaults \in Nat
  BY Parameters
<1>2. faults < MaxFaults /\ faults' = faults + 1
  BY DEF Fault
<1>3. QED
  BY <1>1, <1>2

\* What a step of a worker has to establish: it never touches the rest.
LEMMA WorkerTypes ==
  ASSUME TypeOK, row' \in Rows, log' \in Logs, disk' \in Disks,
         job' \in [Workers -> Jobs], faults' \in 0 .. MaxFaults, UNCHANGED world
  PROVE  TypeOK'
BY DEF TypeOK, world

LEMMA ReadableCopyType ==
  ASSUME disk \in Disks, NEW r
  PROVE  ReadableCopy(r) \in MaybeContent
BY DEF ReadableCopy, Disks, MaybeContent

\* A cycle up to the point where it picks the artifact up.
LEMMA CycleTypes ==
  ASSUME TypeOK, NEW w \in Workers,
         \/ StartCycle(w) \/ Reconcile(w) \/ ReconcileLost(w) \/ ReconcileBlind(w)
         \/ List(w)
  PROVE  TypeOK'
<1>0. Fresh \in Keys
  BY DEF Fresh, Keys, Steps
<1>1. CASE StartCycle(w)
  <2>1. job' \in [Workers -> Jobs]
    BY <1>1, ReadableCopyType DEF StartCycle, TypeOK, IdleJob, Jobs, Places
  <2>2. QED
    BY <1>1, <2>1, WorkerTypes DEF StartCycle, TypeOK, journal
<1>2. CASE Reconcile(w)
  <2> DEFINE r == job[w].got
             valid == LocalValid(r, job[w].seen)
             to == ReconcileTo(r, valid)
             lost == to = "COMPLETE" /\ ~valid /\ Succeeds(Fresh, r.state, to)
  <2>1. /\ IF to # r.state THEN Advance(Fresh, r.state, to, row) ELSE UNCHANGED journal
        /\ Goto(w, IF lost THEN "lost" ELSE "list")
        /\ UNCHANGED <<disk, faults, world>>
    BY <1>2 DEF Reconcile
  <2> HIDE DEF to, lost
  <2>2. row' \in Rows /\ log' \in Logs
    BY <1>0, <2>1, AdvanceTypes DEF TypeOK, journal
  <2>3. job' \in [Workers -> Jobs]
    BY <2>1, GotoTypes DEF TypeOK, Places
  <2>4. QED
    BY <2>1, <2>2, <2>3, WorkerTypes DEF TypeOK
<1>3. CASE ReconcileLost(w)
  <2>1. row' \in Rows /\ log' \in Logs
    BY <1>0, <1>3, AdvanceTypes DEF ReconcileLost, TypeOK
  <2>2. job' \in [Workers -> Jobs]
    BY <1>3, GotoTypes DEF ReconcileLost, TypeOK, Places
  <2>3. QED
    BY <1>3, <2>1, <2>2, WorkerTypes DEF ReconcileLost, TypeOK
<1>4. CASE ReconcileBlind(w)
  <2>1. job' \in [Workers -> Jobs]
    BY <1>4, GotoTypes DEF ReconcileBlind, TypeOK, Places
  <2>2. QED
    BY <1>4, <2>1, FaultTypes, WorkerTypes DEF ReconcileBlind, TypeOK, journal
<1>5. CASE List(w)
  <2>1. CASE StageOf(row.state) > 0
    <3>1. StageOf(row.state) \in 1 .. 5
      BY <2>1 DEF StageOf
    <3>2. Entry[StageOf(row.state)] \in Places
      BY <3>1 DEF Entry, Places
    <3>3. row.retry \in Nat
      BY DEF TypeOK, Rows
    <3>4. [IdleJob EXCEPT !.pc = Entry[StageOf(row.state)], !.base = row.retry,
                          !.ro = job[w].ro] \in Jobs
      <4>1. job[w].ro \in BOOLEAN
        BY DEF TypeOK, Jobs
      <4>2. QED
        BY <3>2, <3>3, <4>1, NoRowType DEF IdleJob, Jobs, MaybeContent
    <3>. job' \in [Workers -> Jobs]
      BY <1>5, <2>1, <3>4 DEF List, TypeOK
    <3>5. QED
      BY <1>5, WorkerTypes DEF List, TypeOK, journal
  <2>2. CASE ~(StageOf(row.state) > 0)
    <3>1. job' \in [Workers -> Jobs]
      BY <1>5, <2>2, StopTypes DEF List, TypeOK
    <3>2. QED
      BY <1>5, <3>1, WorkerTypes DEF List, TypeOK, journal
  <2>3. QED
    BY <2>1, <2>2
<1>6. QED
  BY <1>1, <1>2, <1>3, <1>4, <1>5

LEMMA AdvanceAndDispatchTypes ==
  ASSUME TypeOK, NEW w \in Workers, NEW k \in Keys, NEW from, NEW to,
         NEW new \in Rows, NEW stage \in Nat,
         AdvanceAndDispatch(w, k, from, to, new, stage)
  PROVE  row' \in Rows /\ log' \in Logs /\ job' \in [Workers -> Jobs]
<1>1. row' \in Rows /\ log' \in Logs
  BY AdvanceTypes DEF AdvanceAndDispatch, TypeOK
<1>2. job' \in [Workers -> Jobs]
  BY DispatchTypes, StopTypes DEF AdvanceAndDispatch, TypeOK
<1>3. QED
  BY <1>1, <1>2

LEMMA NextAttemptType == ASSUME NEW r \in Rows PROVE NextAttempt(r) \in Nat
BY DEF NextAttempt, Rows

LEMMA TransferTypes ==
  ASSUME TypeOK, NEW w \in Workers,
         \/ TransferLook(w) \/ TransferCollide(w) \/ TransferClaim(w)
         \/ TransferClear(w) \/ TransferCopy(w) \/ TransferMiscopy(w)
         \/ TransferCopyFails(w) \/ TransferRecord(w) \/ TransferFail(w)
  PROVE  TypeOK'
<1>0. job \in [Workers -> Jobs] /\ disk \in Disks /\ row \in Rows /\ log \in Logs
      /\ faults \in 0 .. MaxFaults
  BY DEF TypeOK
<1>1. CASE TransferLook(w)
  <2>1. job' \in [Workers -> Jobs]
    BY <1>0, <1>1, RememberTypes DEF TransferLook, Places, MaybeContent
  <2>2. QED
    BY <1>0, <1>1, <2>1, WorkerTypes DEF TransferLook, journal
<1>2. CASE TransferCollide(w)
  <2>1. Key(w, "failed:collision") \in Keys
    BY <1>0, KeyTypes DEF Steps
  <2>2. row' \in Rows /\ log' \in Logs
    BY <1>0, <1>2, <2>1, AdvanceTypes DEF TransferCollide
  <2>3. job' \in [Workers -> Jobs]
    BY <1>0, <1>2, StopTypes DEF TransferCollide
  <2>4. QED
    BY <1>0, <1>2, <2>2, <2>3, WorkerTypes DEF TransferCollide
<1>3. CASE TransferClaim(w)
  <2> DEFINE k == Key(w, "transferring")
             from == job[w].got.state
             claim == Outcome(k, from, "TRANSFERRING") = "applied" /\ from # "TRANSFERRING"
  <2>1. /\ Advance(k, from, "TRANSFERRING", [row EXCEPT !.path = "partial"])
        /\ \/ job' = [job EXCEPT ![w] = [@ EXCEPT !.pc = "tclear", !.got = row',
                                                  !.claimed = claim]]
           \/ Stop(w)
        /\ UNCHANGED <<disk, faults, world>>
    BY <1>3, Zenon DEF TransferClaim
  <2>2. k \in Keys
    BY <1>0, KeyTypes DEF Steps
  <2>3. [row EXCEPT !.path = "partial"] \in Rows
    BY <1>0 DEF Rows
  <2>4. claim \in BOOLEAN
    OBVIOUS
  <2> HIDE DEF k, from, claim
  <2>5. row' \in Rows /\ log' \in Logs
    BY <1>0, <2>1, <2>2, <2>3, AdvanceTypes
  <2>6. job' \in [Workers -> Jobs]
    <3>1. CASE Stop(w)
      BY <1>0, <3>1, StopTypes
    <3>2. CASE job' = [job EXCEPT ![w] = [@ EXCEPT !.pc = "tclear", !.got = row',
                                                   !.claimed = claim]]
      <4>1. "tclear" \in Places /\ job[w] \in Jobs
        BY <1>0 DEF Places
      <4>2. [job[w] EXCEPT !.pc = "tclear", !.got = row', !.claimed = claim] \in Jobs
        BY <2>4, <2>5, <4>1 DEF Jobs
      <4>3. QED
        BY <1>0, <3>2, <4>2
    <3>3. QED
      BY <2>1, <3>1, <3>2
  <2>7. QED
    BY <1>0, <2>1, <2>5, <2>6, WorkerTypes
<1>4. CASE TransferClear(w)
  <2>1. job' \in [Workers -> Jobs]
    BY <1>0, <1>4, GotoTypes DEF TransferClear, Places
  <2>2. disk' \in Disks
    BY <1>0, <1>4 DEF TransferClear, Disks, MaybeContent
  <2>3. QED
    BY <1>0, <1>4, <2>1, <2>2, WorkerTypes DEF TransferClear, journal
<1>5. ASSUME NEW c \in Contents, Copied(w, c)
      PROVE  job' \in [Workers -> Jobs] /\ disk' \in Disks
  <2>1. job' \in [Workers -> Jobs]
    BY <1>0, <1>5, GotoTypes DEF Copied, Places
  <2>2. disk' \in Disks
    BY <1>0, <1>5 DEF Copied, Disks, MaybeContent
  <2>3. QED
    BY <2>1, <2>2
<1>6. CASE TransferCopy(w)
  <2>1. Copied(w, remote) /\ faults' = faults
    BY <1>6 DEF TransferCopy
  <2>2. remote \in Contents
    BY <2>1 DEF Copied, TypeOK, Contents
  <2>3. job' \in [Workers -> Jobs] /\ disk' \in Disks
    BY <1>5, <2>1, <2>2
  <2>4. QED
    BY <1>0, <2>1, <2>3, WorkerTypes DEF Copied, journal
<1>7. CASE TransferMiscopy(w)
  <2>1. PICK c \in {Torn, Mangled} : Copied(w, c)
    BY <1>7 DEF TransferMiscopy
  <2>2. c \in Contents
    BY <2>1 DEF Contents
  <2>3. job' \in [Workers -> Jobs] /\ disk' \in Disks
    BY <1>5, <2>1, <2>2
  <2>4. faults' \in 0 .. MaxFaults
    BY <1>0, <1>7, FaultTypes DEF TransferMiscopy
  <2>5. QED
    BY <1>0, <2>1, <2>3, <2>4, WorkerTypes DEF Copied, journal
<1>8. CASE TransferCopyFails(w)
  <2>1. job' \in [Workers -> Jobs]
    BY <1>0, <1>8, GotoTypes DEF TransferCopyFails, Places
  <2>2. faults' \in 0 .. MaxFaults
    BY <1>0, <1>8, FaultTypes DEF TransferCopyFails
  <2>3. QED
    BY <1>0, <1>8, <2>1, <2>2, WorkerTypes DEF TransferCopyFails, journal
<1>9. CASE TransferRecord(w)
  <2>1. Key(w, "transferred") \in Keys
    BY <1>0, KeyTypes DEF Steps
  <2>2. [row EXCEPT !.bytes = "full"] \in Rows
    BY <1>0 DEF Rows
  <2>3. row' \in Rows /\ log' \in Logs /\ job' \in [Workers -> Jobs]
    <3>1. CASE AdvanceAndDispatch(w, Key(w, "transferred"), "TRANSFERRING", "TRANSFERRED",
                                  [row EXCEPT !.bytes = "full"], 1)
      BY <2>1, <2>2, <3>1, AdvanceAndDispatchTypes
    <3>2. CASE Goto(w, "tfail") /\ UNCHANGED journal
      BY <1>0, <3>2, GotoTypes DEF Places, journal
    <3>3. QED
      BY <1>9, <3>1, <3>2 DEF TransferRecord
  <2>4. QED
    BY <1>0, <1>9, <2>3, WorkerTypes DEF TransferRecord
<1>10. CASE TransferFail(w)
  <2> DEFINE attempt == NextAttempt(job[w].got)
             spent == attempt >= CopyBudget /\ log.charged
             charged == [row EXCEPT !.retry = attempt]
  <2>1. Key(w, "failed:copy") \in Keys /\ Key(w, "copy:unclaimed") \in Keys
    BY <1>0, KeyTypes DEF Steps
  <2>2. charged \in Rows
    <3>1. attempt \in Nat
      BY <1>0, NextAttemptType DEF Jobs
    <3>2. QED
      BY <1>0, <3>1 DEF Rows
  <2>3. \/ Advance(Key(w, "failed:copy"), "TRANSFERRING", "FAILED", row)
        \/ Advance(Key(w, "failed:copy"), "TRANSFERRING", "FAILED", charged)
        \/ Advance(Key(w, "copy:unclaimed"), "TRANSFERRING", "TRANSFERRING", charged)
    BY <1>10 DEF TransferFail
  <2> HIDE DEF attempt, spent, charged
  <2>4. row' \in Rows /\ log' \in Logs
    BY <1>0, <2>1, <2>2, <2>3, AdvanceTypes
  <2>5. job' \in [Workers -> Jobs]
    BY <1>0, <1>10, StopTypes DEF TransferFail
  <2>6. QED
    BY <1>0, <1>10, <2>4, <2>5, WorkerTypes DEF TransferFail
<1>11. QED
  BY <1>1, <1>2, <1>3, <1>4, <1>6, <1>7, <1>8, <1>9, <1>10

\* What a verdict writes, whatever the verdict.
LEMMA JudgeTypes ==
  ASSUME TypeOK, NEW w \in Workers, NEW to, NEW new \in Rows, Judge(w, to, new),
         faults' \in 0 .. MaxFaults
  PROVE  TypeOK'
<1>1. Key(w, "verify") \in Keys
  BY KeyTypes DEF TypeOK, Steps
<1>2. row' \in Rows /\ log' \in Logs /\ job' \in [Workers -> Jobs]
  BY <1>1, AdvanceAndDispatchTypes DEF Judge
<1>3. QED
  BY <1>2, WorkerTypes DEF Judge, TypeOK

LEMMA HashedTypes ==
  ASSUME TypeOK, NEW w \in Workers
  PROVE  /\ Hashed(w) \in Rows
         /\ \A b \in BOOLEAN : [Hashed(w) EXCEPT !.rejected = b] \in Rows
<1>1. job[w].seen \in MaybeContent /\ row \in Rows
  BY DEF TypeOK, Jobs
<1>2. Hashed(w) \in Rows
  BY <1>1 DEF Hashed, Rows
<1>3. QED
  BY <1>2 DEF Rows

LEMMA VerifyTypes ==
  ASSUME TypeOK, NEW w \in Workers,
         \/ ToVerifying(w) \/ VerifyRead(w) \/ VerifyUnreadable(w)
         \/ VerifyMismatch(w) \/ VerifyAccept(w) \/ VerifyCannot(w) \/ VerifyStall(w)
  PROVE  TypeOK'
<1>0. job \in [Workers -> Jobs] /\ disk \in Disks /\ row \in Rows /\ log \in Logs
      /\ faults \in 0 .. MaxFaults
  BY DEF TypeOK
<1>1. CASE ToVerifying(w)
  <2>1. Key(w, "verifying") \in Keys
    BY <1>0, KeyTypes DEF Steps
  <2>2. row' \in Rows /\ log' \in Logs /\ job' \in [Workers -> Jobs]
    BY <1>0, <1>1, <2>1, AdvanceAndDispatchTypes DEF ToVerifying
  <2>3. QED
    BY <1>0, <1>1, <2>2, WorkerTypes DEF ToVerifying
<1>2. CASE VerifyRead(w)
  <2> DEFINE c == CASE row.path = "partial" -> disk.partial
                    [] row.path = "final"   -> disk.final
                    [] OTHER -> None
  <2>1. c \in MaybeContent
    BY <1>0 DEF Disks, MaybeContent
  <2>2. Remember(w, "vjudge", row, c) /\ UNCHANGED <<journal, disk, faults, world>>
    BY <1>2 DEF VerifyRead
  <2> HIDE DEF c
  <2>3. job' \in [Workers -> Jobs]
    BY <1>0, <2>1, <2>2, RememberTypes DEF Places
  <2>4. QED
    BY <1>0, <2>2, <2>3, WorkerTypes DEF journal
<1>3. CASE VerifyUnreadable(w)
  BY <1>0, <1>3, JudgeTypes DEF VerifyUnreadable
<1>4. CASE VerifyMismatch(w)
  BY <1>0, <1>4, HashedTypes, JudgeTypes DEF VerifyMismatch
<1>5. CASE VerifyAccept(w)
  <2>1. CASE Judge(w, "VERIFIED", [Hashed(w) EXCEPT !.rejected = FALSE])
    BY <1>0, <1>5, <2>1, HashedTypes, JudgeTypes DEF VerifyAccept
  <2>2. CASE Judge(w, "QUARANTINED", [Hashed(w) EXCEPT !.rejected = TRUE])
    BY <1>0, <1>5, <2>2, HashedTypes, JudgeTypes DEF VerifyAccept
  <2>3. QED
    BY <1>5, <2>1, <2>2 DEF VerifyAccept
<1>6. CASE VerifyCannot(w)
  BY <1>0, <1>6, FaultTypes, HashedTypes, JudgeTypes DEF VerifyCannot
<1>7. CASE VerifyStall(w)
  <2> DEFINE attempt == NextAttempt(job[w].got)
             from == job[w].got.state
             k == Key(w, "verify-stall")
             charged == [row EXCEPT !.retry = attempt]
  <2>1. /\ \/ AdvanceAndDispatch(w, k, from, "QUARANTINED", charged, 3)
           \/ Advance(k, from, from, charged) /\ Stop(w)
        /\ UNCHANGED <<disk, world>>
    BY <1>7, Zenon DEF VerifyStall
  <2>2. k \in Keys
    BY <1>0, KeyTypes DEF Steps
  <2>3. charged \in Rows
    <3>1. attempt \in Nat
      BY <1>0, NextAttemptType DEF Jobs
    <3>2. QED
      BY <1>0, <3>1 DEF Rows
  <2>4. faults' \in 0 .. MaxFaults
    BY <1>0, <1>7, FaultTypes DEF VerifyStall
  <2> HIDE DEF attempt, from, k, charged
  <2>5. row' \in Rows /\ log' \in Logs /\ job' \in [Workers -> Jobs]
    BY <1>0, <2>1, <2>2, <2>3, AdvanceTypes, AdvanceAndDispatchTypes, StopTypes
  <2>6. QED
    BY <1>0, <2>1, <2>4, <2>5, WorkerTypes
<1>8. QED
  BY <1>1, <1>2, <1>3, <1>4, <1>5, <1>6, <1>7

LEMMA CommitTypes ==
  ASSUME TypeOK, NEW w \in Workers,
         \/ CommitBegin(w) \/ CommitLink(w) \/ CommitUnlink(w) \/ CommitSync(w)
         \/ CommitRecord(w)
  PROVE  TypeOK'
<1>0. job \in [Workers -> Jobs] /\ disk \in Disks /\ row \in Rows /\ log \in Logs
      /\ faults \in 0 .. MaxFaults
  BY DEF TypeOK
<1>1. CASE CommitBegin(w)
  <2>1. Key(w, "committing") \in Keys
    BY <1>0, KeyTypes DEF Steps
  <2>2. row' \in Rows /\ log' \in Logs
    BY <1>0, <1>1, <2>1, AdvanceTypes DEF CommitBegin
  <2>3. Stop(w) \/ Remember(w, "clink", row', None) \/ Dispatch(w, row', 4)
    BY <1>1 DEF CommitBegin
  <2>4. job' \in [Workers -> Jobs]
    BY <1>0, <2>2, <2>3, StopTypes, RememberTypes, DispatchTypes DEF Places, MaybeContent
  <2>5. QED
    BY <1>0, <1>1, <2>2, <2>4, WorkerTypes DEF CommitBegin
<1>2. CASE CommitLink(w)
  <2>1. \/ Goto(w, "cunlink") \/ Stop(w) \/ Goto(w, "csync")
    BY <1>2 DEF CommitLink
  <2>2. job' \in [Workers -> Jobs]
    BY <1>0, <2>1, GotoTypes, StopTypes DEF Places
  <2>3. \/ UNCHANGED disk
        \/ disk' = [disk EXCEPT !.final = disk.partial, !.same = TRUE,
                                !.synced = TRUE, !.safe = FALSE]
    BY <1>2 DEF CommitLink
  <2>4. disk' \in Disks
    BY <1>0, <2>3 DEF Disks
  <2>5. QED
    BY <1>0, <1>2, <2>2, <2>4, WorkerTypes DEF CommitLink, journal
<1>3. CASE CommitUnlink(w)
  <2>1. job' \in [Workers -> Jobs]
    BY <1>0, <1>3, GotoTypes DEF CommitUnlink, Places
  <2>2. disk' \in Disks
    BY <1>0, <1>3 DEF CommitUnlink, Disks, MaybeContent
  <2>3. QED
    BY <1>0, <1>3, <2>1, <2>2, WorkerTypes DEF CommitUnlink, journal
<1>4. CASE CommitSync(w)
  <2>1. disk' \in Disks
    BY <1>0, <1>4 DEF CommitSync, Disks
  <2>2. job[w].got \in Rows /\ disk.final \in MaybeContent
    BY <1>0 DEF Jobs, Disks
  <2>3. Stop(w) \/ Remember(w, "crecord", job[w].got, disk.final)
    BY <1>4 DEF CommitSync
  <2>4. job' \in [Workers -> Jobs]
    BY <1>0, <2>2, <2>3, StopTypes, RememberTypes DEF Places
  <2>5. QED
    BY <1>0, <1>4, <2>1, <2>4, WorkerTypes DEF CommitSync, journal
<1>5. CASE CommitRecord(w)
  <2> DEFINE new == [row EXCEPT !.path = "final", !.placed = TRUE]
  <2>1. Key(w, "committed") \in Keys
    BY <1>0, KeyTypes DEF Steps
  <2>2. new \in Rows
    BY <1>0 DEF Rows
  <2>3. Measured(w, new) \in Rows
    <3>1. job[w].seen \in MaybeContent
      BY <1>0 DEF Jobs
    <3>2. SizeOf(job[w].seen) \in {"short", "full"}
      BY DEF SizeOf
    <3>3. QED
      BY <2>2, <3>1, <3>2 DEF Measured, Rows
  <2>4. AdvanceAndDispatch(w, Key(w, "committed"), "COMMITTING", "COMMITTED",
                           Measured(w, new), 4)
    BY <1>5 DEF CommitRecord
  <2> HIDE DEF new
  <2>5. row' \in Rows /\ log' \in Logs /\ job' \in [Workers -> Jobs]
    BY <1>0, <2>1, <2>3, <2>4, AdvanceAndDispatchTypes
  <2>6. QED
    BY <1>0, <1>5, <2>5, WorkerTypes DEF CommitRecord
<1>6. QED
  BY <1>1, <1>2, <1>3, <1>4, <1>5

LEMMA DeleteTypes ==
  ASSUME TypeOK, NEW w \in Workers,
         \/ Retain(w) \/ DeleteLook(w) \/ DeleteIntent(w) \/ DeleteStat(w)
         \/ DeleteBlind(w) \/ DeleteCall(w) \/ DeleteRefuse(w) \/ DeleteComplete(w)
  PROVE  TypeOK'
<1>0. job \in [Workers -> Jobs] /\ disk \in Disks /\ row \in Rows /\ log \in Logs
      /\ faults \in 0 .. MaxFaults
  BY DEF TypeOK
<1>k. /\ Key(w, "retain") \in Keys /\ Key(w, "delete:pending") \in Keys
      /\ Key(w, "delete:refused") \in Keys /\ Key(w, "delete:complete") \in Keys
  BY <1>0, KeyTypes DEF Steps
<1>1. CASE Retain(w)
  <2>1. row' \in Rows /\ log' \in Logs
    BY <1>0, <1>1, <1>k, AdvanceTypes DEF Retain, journal
  <2>2. job' \in [Workers -> Jobs]
    BY <1>0, <1>1, StopTypes DEF Retain
  <2>3. QED
    BY <1>0, <1>1, <2>1, <2>2, WorkerTypes DEF Retain
<1>2. CASE DeleteLook(w)
  <2>1. \/ Stop(w) \/ Remember(w, "dintent", row, None) \/ Remember(w, "dstat", row, None)
    BY <1>2 DEF DeleteLook
  <2>2. job' \in [Workers -> Jobs]
    BY <1>0, <2>1, StopTypes, RememberTypes DEF Places, MaybeContent
  <2>3. QED
    BY <1>0, <1>2, <2>2, WorkerTypes DEF DeleteLook, journal
<1>3. CASE DeleteIntent(w)
  <2>1. row' \in Rows /\ log' \in Logs
    BY <1>0, <1>3, <1>k, AdvanceTypes DEF DeleteIntent
  <2>2. job' \in [Workers -> Jobs]
    BY <1>0, <1>3, GotoTypes, StopTypes DEF DeleteIntent, Places
  <2>3. QED
    BY <1>0, <1>3, <2>1, <2>2, WorkerTypes DEF DeleteIntent
<1>4. CASE DeleteStat(w)
  <2>1. job' \in [Workers -> Jobs]
    BY <1>0, <1>4, GotoTypes DEF DeleteStat, Places
  <2>2. QED
    BY <1>0, <1>4, <2>1, WorkerTypes DEF DeleteStat, journal
<1>5. CASE DeleteBlind(w)
  <2>1. job' \in [Workers -> Jobs] /\ faults' \in 0 .. MaxFaults
    BY <1>0, <1>5, GotoTypes, FaultTypes DEF DeleteBlind, Places
  <2>2. QED
    BY <1>0, <1>5, <2>1, WorkerTypes DEF DeleteBlind, journal
<1>6. CASE DeleteCall(w)
  <2>1. Goto(w, "dcomplete") \/ Goto(w, "drefuse")
    BY <1>6 DEF DeleteCall
  <2>2. job' \in [Workers -> Jobs]
    BY <1>0, <2>1, GotoTypes DEF Places
  <2>3. faults' \in 0 .. MaxFaults
    BY <1>0, <1>6, FaultTypes DEF DeleteCall
  <2>4. /\ remote' = None /\ destroyed' = destroyed \cup ({remote} \ {None})
        /\ UNCHANGED <<journal, disk, past, readOnly, op, damaged, ops>>
    BY <1>6 DEF DeleteCall
  <2>5. destroyed' \subseteq Versions
    BY <2>4 DEF TypeOK
  <2>6. QED
    BY <2>2, <2>3, <2>4, <2>5 DEF TypeOK, journal
<1>7. CASE DeleteRefuse(w)
  <2>1. row' \in Rows /\ log' \in Logs
    BY <1>0, <1>7, <1>k, AdvanceTypes DEF DeleteRefuse
  <2>2. job' \in [Workers -> Jobs]
    BY <1>0, <1>7, StopTypes DEF DeleteRefuse
  <2>3. QED
    BY <1>0, <1>7, <2>1, <2>2, WorkerTypes DEF DeleteRefuse
<1>8. CASE DeleteComplete(w)
  <2>1. row' \in Rows /\ log' \in Logs
    BY <1>0, <1>8, <1>k, AdvanceTypes DEF DeleteComplete
  <2>2. job' \in [Workers -> Jobs]
    BY <1>0, <1>8, StopTypes DEF DeleteComplete
  <2>3. QED
    BY <1>0, <1>8, <2>1, <2>2, WorkerTypes DEF DeleteComplete
<1>9. QED
  BY <1>1, <1>2, <1>3, <1>4, <1>5, <1>6, <1>7, <1>8

LEMMA StepTypes ==
  ASSUME TypeOK, NEW w \in Workers, Step(w)
  PROVE  TypeOK'
<1>1. CASE StartCycle(w) \/ Reconcile(w) \/ ReconcileLost(w) \/ ReconcileBlind(w)
           \/ List(w)
  BY <1>1, CycleTypes
<1>2. CASE TransferLook(w) \/ TransferCollide(w) \/ TransferClaim(w)
           \/ TransferClear(w) \/ TransferCopy(w) \/ TransferMiscopy(w)
           \/ TransferCopyFails(w) \/ TransferRecord(w) \/ TransferFail(w)
  BY <1>2, TransferTypes
<1>3. CASE ToVerifying(w) \/ VerifyRead(w) \/ VerifyUnreadable(w)
           \/ VerifyMismatch(w) \/ VerifyAccept(w) \/ VerifyCannot(w) \/ VerifyStall(w)
  BY <1>3, VerifyTypes
<1>4. CASE CommitBegin(w) \/ CommitLink(w) \/ CommitUnlink(w) \/ CommitSync(w)
           \/ CommitRecord(w)
  BY <1>4, CommitTypes
<1>5. CASE Retain(w) \/ DeleteLook(w) \/ DeleteIntent(w) \/ DeleteStat(w)
           \/ DeleteBlind(w) \/ DeleteCall(w) \/ DeleteRefuse(w) \/ DeleteComplete(w)
  BY <1>5, DeleteTypes
<1>6. QED
  BY <1>1, <1>2, <1>3, <1>4, <1>5 DEF Step

LEMMA DiscoverTypes == ASSUME TypeOK, Discover PROVE TypeOK'
<1>1. row' = [NoRow EXCEPT !.state = "DISCOVERED", !.ver = remote] /\ remote \in Versions
      /\ UNCHANGED <<log, disk, job, faults, world>>
  BY DEF Discover, TypeOK
<1>2. row' \in Rows
  BY <1>1, NoRowType DEF Rows, States, InProgress
<1>3. QED
  BY <1>1, <1>2, WorkerTypes DEF TypeOK

\* The directory a power loss leaves holds nothing that was not there, but for
\* what is torn or gone.
LEMMA PowerLossDisks == ASSUME disk \in Disks PROVE AfterPowerLoss \subseteq Disks
<1>1. Surviving \subseteq MaybeContent
  BY DEF Surviving, Disks, MaybeContent, Contents
<1> DEFINE settled == [disk EXCEPT !.synced = TRUE, !.safe = TRUE]
<1>2. settled \in Disks /\ disk.final \in MaybeContent /\ None \in MaybeContent
  BY DEF Disks, MaybeContent
<1> HIDE DEF settled
<1>3. {[settled EXCEPT !.partial = p] : p \in Surviving} \subseteq Disks
  BY <1>1, <1>2 DEF Disks
<1>4. {[settled EXCEPT !.partial = disk.final, !.same = TRUE],
       [settled EXCEPT !.partial = disk.final, !.final = None, !.same = FALSE]}
        \subseteq Disks
  BY <1>2 DEF Disks
<1>5. {[settled EXCEPT !.partial = p, !.final = None] : p \in Surviving} \subseteq Disks
  BY <1>1, <1>2 DEF Disks
<1>6. QED
  BY <1>3, <1>4, <1>5 DEF AfterPowerLoss, settled

LEMMA EnvironmentTypes == ASSUME TypeOK, Environment PROVE TypeOK'
<1>0. job \in [Workers -> Jobs] /\ disk \in Disks /\ row \in Rows /\ log \in Logs
      /\ faults \in 0 .. MaxFaults /\ ops \in 0 .. MaxOps
  BY DEF TypeOK
<1>1. ASSUME NEW w \in Workers, Crash(w) PROVE TypeOK'
  <2>1. job' \in [Workers -> Jobs] /\ faults' \in 0 .. MaxFaults
    BY <1>0, <1>1, StopTypes, FaultTypes DEF Crash
  <2>2. QED
    BY <1>0, <1>1, <2>1, WorkerTypes DEF Crash, journal
<1>2. CASE PowerLoss
  <2>1. disk' \in Disks /\ faults' \in 0 .. MaxFaults
    BY <1>0, <1>2, PowerLossDisks, FaultTypes DEF PowerLoss
  <2>2. IdleJob \in Jobs
    BY NoRowType DEF IdleJob, Jobs, Places, MaybeContent
  <2>3. job' \in [Workers -> Jobs]
    BY <1>2, <2>2 DEF PowerLoss
  <2>4. QED
    BY <1>2, <2>1, <2>3 DEF PowerLoss, TypeOK, IdleOp, journal
<1>3. CASE Damage
  <2>1. disk' \in Disks
    BY <1>0, <1>3 DEF Damage, Disks, MaybeContent, Contents
  <2>2. faults' \in 0 .. MaxFaults
    BY <1>0, <1>3, FaultTypes DEF Damage
  <2>3. QED
    BY <1>3, <2>1, <2>2 DEF Damage, TypeOK, journal
<1>4. CASE Repair
  <2>1. disk' \in Disks
    BY <1>0, <1>4 DEF Repair, Disks, Rows
  <2>2. ops' \in 0 .. MaxOps
    <3>1. MaxOps \in Nat
      BY Parameters
    <3>2. ops < MaxOps /\ ops' = ops + 1
      BY <1>4 DEF Repair
    <3>3. QED
      BY <1>0, <3>1, <3>2
  <2>3. QED
    BY <1>4, <2>1, <2>2 DEF Repair, TypeOK, journal
<1>5. CASE ProducerReplace
  <2>1. faults' \in 0 .. MaxFaults
    BY <1>0, <1>5, FaultTypes DEF ProducerReplace
  <2>2. QED
    BY <1>5, <2>1 DEF ProducerReplace, TypeOK, journal
<1>6. CASE ProducerRemove
  <2>1. faults' \in 0 .. MaxFaults
    BY <1>0, <1>6, FaultTypes DEF ProducerRemove
  <2>2. QED
    BY <1>6, <2>1 DEF ProducerRemove, TypeOK, journal
<1>7. QED
  BY <1>1, <1>2, <1>3, <1>4, <1>5, <1>6 DEF Environment

LEMMA InterveneTypes ==
  ASSUME ops \in 0 .. MaxOps, NEW verb, Intervene(verb)
  PROVE  ops' \in 0 .. MaxOps
<1>1. MaxOps \in Nat
  BY Parameters
<1>2. ops < MaxOps /\ ops' = ops + 1
  BY DEF Intervene
<1>3. QED
  BY <1>1, <1>2

Verbing == [pc : {"idle", "check", "hold", "reinstate"}, hash : BOOLEAN, valid : BOOLEAN]

\* What a verb of the operator has to establish: it never touches the rest.
LEMMA VerbTypes ==
  ASSUME TypeOK, row' \in Rows, log' \in Logs, op' \in Verbing,
         ops' \in 0 .. MaxOps, Untouched
  PROVE  TypeOK'
BY DEF TypeOK, Untouched, Verbing

\* Another attempt's record is a record.
LEMMA AttemptType ==
  ASSUME row \in Rows
  PROVE  [row EXCEPT !.retry = @ + 1] \in Rows
BY DEF Rows

LEMMA OperatorTypes == ASSUME TypeOK, Operator PROVE TypeOK'
<1>0. row \in Rows /\ log \in Logs /\ disk \in Disks /\ ops \in 0 .. MaxOps
      /\ op \in Verbing /\ Fresh \in Keys
  BY DEF TypeOK, Verbing, Fresh, Keys, Steps
<1>1. CASE RetryQuarantinedIngestion
  <2>1. row' \in Rows /\ log' \in Logs
    BY <1>0, <1>1, AdvanceTypes DEF RetryQuarantinedIngestion
  <2>2. QED
    BY <1>0, <1>1, <2>1, InterveneTypes, VerbTypes DEF RetryQuarantinedIngestion
<1>2. CASE ReleaseFromQuarantine
  <2>1. row' \in Rows /\ log' \in Logs
    BY <1>0, <1>2, AttemptType, AdvanceTypes DEF ReleaseFromQuarantine
  <2>2. QED
    BY <1>0, <1>2, <2>1, InterveneTypes, VerbTypes DEF ReleaseFromQuarantine
<1>3. CASE RetryInPlace
  <2>1. [row EXCEPT !.bytes = SizeOf(disk.final), !.hash = disk.final] \in Rows
    BY <1>0 DEF Rows, Disks, SizeOf
  <2>2. row' \in Rows /\ log' \in Logs
    BY <1>0, <1>3, <2>1, AdvanceTypes DEF RetryInPlace
  <2>3. op' \in Verbing
    BY <1>0, <1>3 DEF RetryInPlace, Verbing
  <2>4. QED
    BY <1>0, <1>3, <2>2, <2>3, InterveneTypes, VerbTypes DEF RetryInPlace
<1>4. CASE RetryFailed
  <2>1. row' \in Rows /\ log' \in Logs
    BY <1>0, <1>4, AttemptType, AdvanceTypes DEF RetryFailed
  <2>2. QED
    BY <1>0, <1>4, <2>1, InterveneTypes, VerbTypes DEF RetryFailed
<1>5. CASE Reinstate
  <2>1. ops' \in 0 .. MaxOps
    BY <1>0, <1>5, InterveneTypes DEF Reinstate
  <2>2. op' \in Verbing
    BY <1>5, Parameters DEF Reinstate, GatherEvidence, Verbing
  <2>3. QED
    BY <1>0, <1>5, <2>1, <2>2, VerbTypes DEF Reinstate, journal
<1>6. CASE ReinstateFails
  BY <1>0, <1>6, VerbTypes DEF ReinstateFails, IdleOp, Verbing, journal
<1>7. CASE HoldForJudgement
  <2>1. row' \in Rows /\ log' \in Logs
    BY <1>0, <1>7, AdvanceTypes DEF HoldForJudgement
  <2>2. op' \in Verbing
    BY <1>0, <1>7 DEF HoldForJudgement, IdleOp, Verbing
  <2>3. QED
    BY <1>0, <1>7, <2>1, <2>2, VerbTypes DEF HoldForJudgement
<1>8. CASE ReinstateFromQuarantine
  <2> DEFINE new == IF op.valid THEN [row EXCEPT !.rejected = FALSE] ELSE row
  <2>1. new \in Rows
    BY <1>0 DEF Rows
  <2>2. \/ Advance(Fresh, row.state, Target, new)
        \/ UNCHANGED journal
    BY <1>8 DEF ReinstateFromQuarantine
  <2> HIDE DEF new
  <2>3. row' \in Rows /\ log' \in Logs
    BY <1>0, <2>1, <2>2, AdvanceTypes DEF journal
  <2>4. QED
    BY <1>0, <1>8, <2>3, VerbTypes DEF ReinstateFromQuarantine, IdleOp, Verbing
<1>9. CASE ValidateArtifact
  <2>1. row' \in Rows /\ log' \in Logs
    BY <1>0, <1>9, AdvanceTypes DEF ValidateArtifact
  <2>2. QED
    BY <1>0, <1>9, <2>1, InterveneTypes, VerbTypes DEF ValidateArtifact
<1>10. CASE ReleaseFromRetention
  <2>1. row' \in Rows /\ log' \in Logs
    BY <1>0, <1>10, AdvanceTypes DEF ReleaseFromRetention
  <2>2. QED
    BY <1>0, <1>10, <2>1, InterveneTypes, VerbTypes DEF ReleaseFromRetention
<1>11. CASE ToggleReadOnly
  <2>1. ops' \in 0 .. MaxOps
    BY <1>0, <1>11, InterveneTypes DEF ToggleReadOnly
  <2>2. QED
    BY <1>11, <2>1 DEF ToggleReadOnly, TypeOK, journal
<1>12. CASE RetryFailedBlind
  <2>1. row' \in Rows /\ log' \in Logs
    BY <1>0, <1>12, AttemptType, AdvanceTypes DEF RetryFailedBlind
  <2>2. ops' \in 0 .. MaxOps
    BY <1>0, <1>12, InterveneTypes DEF RetryFailedBlind
  <2>3. faults' \in 0 .. MaxFaults
    BY <1>12, FaultTypes DEF RetryFailedBlind, TypeOK
  <2>4. QED
    BY <1>12, <2>1, <2>2, <2>3 DEF RetryFailedBlind, TypeOK
<1>13. QED
  BY <1>1, <1>2, <1>3, <1>4, <1>5, <1>6, <1>7, <1>8, <1>9, <1>10, <1>11, <1>12 DEF Operator

LEMMA InitTypes == ASSUME Init PROVE TypeOK
<1>1. IdleJob \in Jobs
  BY NoRowType DEF IdleJob, Jobs, Places, MaybeContent
<1>2. MaxFaults \in Nat /\ MaxOps \in Nat
  BY Parameters
<1>3. faults \in 0 .. MaxFaults /\ ops \in 0 .. MaxOps
  BY <1>2 DEF Init
<1>4. row \in Rows /\ job \in [Workers -> Jobs]
  BY <1>1, NoRowType DEF Init
<1>5. log \in Logs /\ disk \in Disks
  BY DEF Init, Logs, Disks, MaybeContent
<1>6. QED
  BY <1>3, <1>4, <1>5 DEF Init, TypeOK, IdleOp

LEMMA NextTypes == TypeOK /\ [Next]_vars => TypeOK'
<1> SUFFICES ASSUME TypeOK, [Next]_vars PROVE TypeOK'
  OBVIOUS
<1>1. CASE Discover
  BY <1>1, DiscoverTypes
<1>2. ASSUME NEW w \in Workers, Step(w) PROVE TypeOK'
  BY <1>2, StepTypes
<1>3. CASE Environment
  BY <1>3, EnvironmentTypes
<1>4. CASE Operator
  BY <1>4, OperatorTypes
<1>5. CASE UNCHANGED vars
  BY <1>5 DEF vars, TypeOK
<1>6. QED
  BY <1>1, <1>2, <1>3, <1>4, <1>5 DEF Next

\* Every write the code makes to the journal (state/journal.go) keeps the record
\* one the lifecycle knows, for any number of processes, faults and verbs.
THEOREM TypeCorrect == Spec => []TypeOK
<1>1. Init => TypeOK
  BY InitTypes
<1>2. QED
  BY <1>1, NextTypes, PTL DEF Spec

-----------------------------------------------------------------------------
(* Control: where a step may leave the worker that takes it.               *)

\* The places past which something irreversible depends on what came before.
Late == {"clink", "cunlink", "csync", "crecord", "dintent", "dstat", "dcall", "drefuse",
         "dcomplete"}

Committing(w) == job[w].pc \in {"clink", "cunlink", "csync", "crecord"}

Others(w) == \A v \in Workers : v # w => job'[v] = job[v]

LEMMA GotoControl ==
  ASSUME job \in [Workers -> Jobs], NEW w \in Workers, NEW p, Goto(w, p)
  PROVE  Others(w) /\ job'[w].pc = p /\ job'[w].got = job[w].got
BY DEF Goto, Others, Jobs

LEMMA RememberControl ==
  ASSUME job \in [Workers -> Jobs], NEW w \in Workers, NEW p, NEW r, NEW c,
         Remember(w, p, r, c)
  PROVE  Others(w) /\ job'[w].pc = p /\ job'[w].got = r /\ job'[w].seen = c
<1>1. job' = [job EXCEPT ![w] = [job[w] EXCEPT !.pc = p, !.got = r, !.seen = c]]
  BY DEF Remember
<1>2. [job[w] EXCEPT !.pc = p, !.got = r, !.seen = c].pc = p
  BY DEF Jobs
<1>3. QED
  BY <1>1, <1>2 DEF Others, Jobs

LEMMA StopControl ==
  ASSUME job \in [Workers -> Jobs], NEW w \in Workers, Stop(w)
  PROVE  Others(w) /\ job'[w].pc = "idle"
BY DEF Stop, Others, IdleJob

LEMMA DispatchControl ==
  ASSUME job \in [Workers -> Jobs], NEW w \in Workers, NEW r, NEW stage \in Nat,
         Dispatch(w, r, stage)
  PROVE  Others(w) /\ job'[w].pc \notin Late
<1>1. CASE StageOf(r.state) > stage
  <2>1. StageOf(r.state) \in 1 .. 5
    BY <1>1 DEF StageOf
  <2>2. Entry[StageOf(r.state)] \notin Late
    BY <2>1 DEF Entry, Late
  <2>3. QED
    BY <1>1, <2>2 DEF Dispatch, Others, Jobs
<1>2. CASE ~(StageOf(r.state) > stage)
  BY <1>2, StopControl DEF Dispatch, Late
<1>3. QED
  BY <1>1, <1>2

LEMMA AdvanceAndDispatchControl ==
  ASSUME job \in [Workers -> Jobs], NEW w \in Workers, NEW k, NEW from, NEW to,
         NEW new, NEW stage \in Nat, AdvanceAndDispatch(w, k, from, to, new, stage)
  PROVE  Others(w) /\ job'[w].pc \notin Late
BY DispatchControl, StopControl DEF AdvanceAndDispatch, Late

LEMMA CycleControl ==
  ASSUME job \in [Workers -> Jobs], NEW w \in Workers,
         \/ StartCycle(w) \/ Reconcile(w) \/ ReconcileLost(w) \/ ReconcileBlind(w)
         \/ List(w)
  PROVE  Others(w) /\ job'[w].pc \notin Late
<1>1. CASE StartCycle(w)
  <2>1. [IdleJob EXCEPT !.pc = "reconcile", !.got = row, !.seen = ReadableCopy(row),
                        !.ro = readOnly].pc = "reconcile"
    BY DEF IdleJob
  <2>2. QED
    BY <1>1, <2>1 DEF StartCycle, Others, Late
<1>2. CASE Reconcile(w)
  <2>1. Goto(w, "lost") \/ Goto(w, "list")
    BY <1>2, Zenon DEF Reconcile
  <2>2. QED
    BY <2>1, GotoControl DEF Late
<1>3. CASE ReconcileLost(w)
  BY <1>3, GotoControl DEF ReconcileLost, Late
<1>4. CASE ReconcileBlind(w)
  BY <1>4, GotoControl DEF ReconcileBlind, Late
<1>5. CASE List(w)
  <2>1. CASE StageOf(row.state) > 0
    <3>1. StageOf(row.state) \in 1 .. 5
      BY <2>1 DEF StageOf
    <3>2. Entry[StageOf(row.state)] \notin Late
      BY <3>1 DEF Entry, Late
    <3>3. [IdleJob EXCEPT !.pc = Entry[StageOf(row.state)], !.base = row.retry,
                          !.ro = job[w].ro].pc = Entry[StageOf(row.state)]
      BY DEF IdleJob
    <3>4. QED
      BY <1>5, <2>1, <3>2, <3>3 DEF List, Others
  <2>2. CASE ~(StageOf(row.state) > 0)
    BY <1>5, <2>2, StopControl DEF List, Late
  <2>3. QED
    BY <2>1, <2>2
<1>6. QED
  BY <1>1, <1>2, <1>3, <1>4, <1>5

LEMMA TransferControl ==
  ASSUME job \in [Workers -> Jobs], NEW w \in Workers,
         \/ TransferLook(w) \/ TransferCollide(w) \/ TransferClaim(w)
         \/ TransferClear(w) \/ TransferCopy(w) \/ TransferMiscopy(w)
         \/ TransferCopyFails(w) \/ TransferRecord(w) \/ TransferFail(w)
  PROVE  Others(w) /\ job'[w].pc \notin Late
<1>1. CASE TransferLook(w)
  BY <1>1, RememberControl DEF TransferLook, Late
<1>2. CASE TransferCollide(w)
  BY <1>2, StopControl DEF TransferCollide, Late
<1>3. CASE TransferClaim(w)
  <2>1. \/ \E c : job' = [job EXCEPT ![w] = [@ EXCEPT !.pc = "tclear", !.got = row',
                                                     !.claimed = c]]
        \/ Stop(w)
    BY <1>3, Zenon DEF TransferClaim
  <2>2. CASE Stop(w)
    BY <2>2, StopControl DEF Late
  <2>3. ASSUME NEW c, job' = [job EXCEPT ![w] = [job[w] EXCEPT !.pc = "tclear",
                                                 !.got = row', !.claimed = c]]
        PROVE  Others(w) /\ job'[w].pc \notin Late
    <3>1. [job[w] EXCEPT !.pc = "tclear", !.got = row', !.claimed = c].pc = "tclear"
      BY DEF Jobs
    <3>2. QED
      BY <2>3, <3>1 DEF Others, Late
  <2>4. QED
    BY <2>1, <2>2, <2>3
<1>4. CASE TransferClear(w)
  BY <1>4, GotoControl DEF TransferClear, Late
<1>5. CASE TransferCopy(w) \/ TransferMiscopy(w)
  <2>1. Goto(w, "trecord")
    BY <1>5 DEF TransferCopy, TransferMiscopy, Copied
  <2>2. QED
    BY <2>1, GotoControl DEF Late
<1>6. CASE TransferCopyFails(w)
  BY <1>6, GotoControl DEF TransferCopyFails, Late
<1>7. CASE TransferRecord(w)
  BY <1>7, GotoControl, AdvanceAndDispatchControl DEF TransferRecord, Late
<1>8. CASE TransferFail(w)
  BY <1>8, StopControl DEF TransferFail, Late
<1>9. QED
  BY <1>1, <1>2, <1>3, <1>4, <1>5, <1>6, <1>7, <1>8

LEMMA VerifyControl ==
  ASSUME job \in [Workers -> Jobs], NEW w \in Workers,
         \/ ToVerifying(w) \/ VerifyRead(w) \/ VerifyUnreadable(w)
         \/ VerifyMismatch(w) \/ VerifyAccept(w) \/ VerifyCannot(w) \/ VerifyStall(w)
  PROVE  Others(w) /\ job'[w].pc \notin Late
<1>1. CASE ToVerifying(w)
  BY <1>1, AdvanceAndDispatchControl DEF ToVerifying
<1>2. CASE VerifyRead(w)
  <2>1. \E c : Remember(w, "vjudge", row, c)
    BY <1>2 DEF VerifyRead
  <2>2. QED
    BY <2>1, RememberControl DEF Late
<1>3. ASSUME NEW to, NEW new, Judge(w, to, new)
      PROVE  Others(w) /\ job'[w].pc \notin Late
  BY <1>3, AdvanceAndDispatchControl DEF Judge
<1>4. CASE VerifyUnreadable(w) \/ VerifyMismatch(w) \/ VerifyCannot(w)
  BY <1>3, <1>4 DEF VerifyUnreadable, VerifyMismatch, VerifyCannot
<1>5. CASE VerifyAccept(w)
  BY <1>3, <1>5 DEF VerifyAccept
<1>6. CASE VerifyStall(w)
  <2>1. \/ Stop(w)
        \/ \E k, from, new : AdvanceAndDispatch(w, k, from, "QUARANTINED", new, 3)
    BY <1>6, Zenon DEF VerifyStall
  <2>2. QED
    BY <2>1, StopControl, AdvanceAndDispatchControl DEF Late
<1>7. QED
  BY <1>1, <1>2, <1>4, <1>5, <1>6

LEMMA CommitControl ==
  ASSUME job \in [Workers -> Jobs], NEW w \in Workers,
         \/ CommitBegin(w) \/ CommitLink(w) \/ CommitUnlink(w) \/ CommitSync(w)
         \/ CommitRecord(w)
  PROVE  /\ Others(w)
         /\ job'[w].pc \in Late => Committing(w)'
         /\ job'[w].pc = "crecord" => CommitSync(w)
         /\ Committing(w)' => \/ job'[w].got = row' /\ row'.state = "COMMITTING"
                              \/ job'[w].got = job[w].got /\ Committing(w)
<1>1. CASE CommitBegin(w)
  <2>1. \/ Stop(w)
        \/ row'.state = "COMMITTING" /\ Remember(w, "clink", row', None)
        \/ Dispatch(w, row', 4)
    BY <1>1, Zenon DEF CommitBegin
  <2>2. CASE Stop(w) \/ Dispatch(w, row', 4)
    BY <2>2, StopControl, DispatchControl DEF Late, Committing
  <2>3. CASE row'.state = "COMMITTING" /\ Remember(w, "clink", row', None)
    BY <2>3, RememberControl DEF Late, Committing
  <2>4. QED
    BY <2>1, <2>2, <2>3
<1>2. CASE CommitLink(w)
  <2>1. At(w, "clink") /\ (Stop(w) \/ Goto(w, "cunlink") \/ Goto(w, "csync"))
    BY <1>2 DEF CommitLink
  <2>2. QED
    BY <2>1, StopControl, GotoControl DEF Late, Committing, At
<1>3. CASE CommitUnlink(w)
  BY <1>3, GotoControl DEF CommitUnlink, Late, Committing, At
<1>4. CASE CommitSync(w)
  <2>1. \/ Stop(w) \/ Remember(w, "crecord", job[w].got, disk.final)
    BY <1>4 DEF CommitSync
  <2>2. At(w, "csync")
    BY <1>4 DEF CommitSync
  <2>3. QED
    BY <1>4, <2>1, <2>2, StopControl, RememberControl DEF Late, Committing, At
<1>5. CASE CommitRecord(w)
  BY <1>5, AdvanceAndDispatchControl DEF CommitRecord, Late, Committing
<1>6. QED
  BY <1>1, <1>2, <1>3, <1>4, <1>5

\* How a worker comes to each place on the way to a deletion.
LEMMA DeleteControl ==
  ASSUME job \in [Workers -> Jobs], NEW w \in Workers,
         \/ Retain(w) \/ DeleteLook(w) \/ DeleteIntent(w) \/ DeleteStat(w)
         \/ DeleteBlind(w) \/ DeleteCall(w) \/ DeleteRefuse(w) \/ DeleteComplete(w)
  PROVE  /\ Others(w)
         /\ ~Committing(w)'
         /\ job'[w].pc = "dintent" => DeleteLook(w)
         /\ job'[w].pc = "dstat" => DeleteLook(w) \/ DeleteIntent(w)
         /\ job'[w].pc = "dcall" => DeleteStat(w)
         /\ job'[w].pc = "drefuse" => DeleteStat(w) \/ DeleteBlind(w) \/ DeleteCall(w)
         /\ job'[w].pc = "dcomplete" => DeleteCall(w)
<1>1. CASE Retain(w)
  BY <1>1, StopControl DEF Retain, Committing
<1>2. CASE DeleteLook(w)
  <2>1. \/ Stop(w) \/ \E p \in {"dintent", "dstat"} : Remember(w, p, row, None)
    BY <1>2 DEF DeleteLook
  <2>2. QED
    BY <1>2, <2>1, StopControl, RememberControl DEF Committing
<1>3. CASE DeleteIntent(w)
  BY <1>3, StopControl, GotoControl DEF DeleteIntent, Committing
<1>4. CASE DeleteStat(w)
  <2>1. Goto(w, "dcall") \/ Goto(w, "drefuse")
    BY <1>4 DEF DeleteStat
  <2>2. QED
    BY <1>4, <2>1, GotoControl DEF Committing
<1>5. CASE DeleteBlind(w)
  BY <1>5, GotoControl DEF DeleteBlind, Committing
<1>6. CASE DeleteCall(w)
  <2>1. Goto(w, "dcomplete") \/ Goto(w, "drefuse")
    BY <1>6 DEF DeleteCall
  <2>2. QED
    BY <1>6, <2>1, GotoControl DEF Committing
<1>7. CASE DeleteRefuse(w)
  BY <1>7, StopControl DEF DeleteRefuse, Committing
<1>8. CASE DeleteComplete(w)
  BY <1>8, StopControl DEF DeleteComplete, Committing
<1>9. QED
  BY <1>1, <1>2, <1>3, <1>4, <1>5, <1>6, <1>7, <1>8

\* Only these steps bring a worker to a late place; a worker somebody else
\* moves is one a crash sends home.
LEMMA StepControl ==
  ASSUME job \in [Workers -> Jobs], NEW w \in Workers, Step(w)
  PROVE  /\ Others(w)
         /\ Committing(w)' => \/ job'[w].got = row' /\ row'.state = "COMMITTING"
                              \/ job'[w].got = job[w].got /\ Committing(w)
         /\ job'[w].pc = "crecord" => CommitSync(w)
         /\ job'[w].pc = "dintent" => DeleteLook(w)
         /\ job'[w].pc = "dstat" => DeleteLook(w) \/ DeleteIntent(w)
         /\ job'[w].pc = "dcall" => DeleteStat(w)
         /\ job'[w].pc = "drefuse" => DeleteStat(w) \/ DeleteBlind(w) \/ DeleteCall(w)
         /\ job'[w].pc = "dcomplete" => DeleteCall(w)
<1>1. CASE StartCycle(w) \/ Reconcile(w) \/ ReconcileLost(w) \/ ReconcileBlind(w)
           \/ List(w)
  BY <1>1, CycleControl DEF Late, Committing
<1>2. CASE TransferLook(w) \/ TransferCollide(w) \/ TransferClaim(w)
           \/ TransferClear(w) \/ TransferCopy(w) \/ TransferMiscopy(w)
           \/ TransferCopyFails(w) \/ TransferRecord(w) \/ TransferFail(w)
  BY <1>2, TransferControl DEF Late, Committing
<1>3. CASE ToVerifying(w) \/ VerifyRead(w) \/ VerifyUnreadable(w)
           \/ VerifyMismatch(w) \/ VerifyAccept(w) \/ VerifyCannot(w) \/ VerifyStall(w)
  BY <1>3, VerifyControl DEF Late, Committing
<1>4. CASE CommitBegin(w) \/ CommitLink(w) \/ CommitUnlink(w) \/ CommitSync(w)
           \/ CommitRecord(w)
  BY <1>4, CommitControl DEF Late, Committing
<1>5. CASE Retain(w) \/ DeleteLook(w) \/ DeleteIntent(w) \/ DeleteStat(w)
           \/ DeleteBlind(w) \/ DeleteCall(w) \/ DeleteRefuse(w) \/ DeleteComplete(w)
  BY <1>5, DeleteControl DEF Committing
<1>6. QED
  BY <1>1, <1>2, <1>3, <1>4, <1>5 DEF Step

LEMMA OtherControl ==
  ASSUME job \in [Workers -> Jobs],
         Discover \/ Environment \/ Operator \/ UNCHANGED vars, NEW v \in Workers
  PROVE  job'[v] = job[v] \/ job'[v].pc = "idle"
<1>1. CASE Discover \/ UNCHANGED vars
  BY <1>1 DEF Discover, vars
<1>2. CASE Environment
  <2>1. ASSUME NEW w \in Workers, Crash(w) PROVE job'[v] = job[v] \/ job'[v].pc = "idle"
    BY <2>1, StopControl DEF Crash, Others
  <2>2. CASE PowerLoss
    BY <2>2 DEF PowerLoss, IdleJob
  <2>3. CASE Damage \/ Repair \/ ProducerReplace \/ ProducerRemove
    BY <2>3 DEF Damage, Repair, ProducerReplace, ProducerRemove
  <2>4. QED
    BY <1>2, <2>1, <2>2, <2>3 DEF Environment
<1>3. CASE Operator
  BY <1>3 DEF Operator, RetryQuarantinedIngestion, ReleaseFromQuarantine, RetryInPlace,
              RetryFailed, RetryFailedBlind, Reinstate, ReinstateFails, HoldForJudgement,
              ReinstateFromQuarantine, ValidateArtifact, ReleaseFromRetention,
              ToggleReadOnly, Untouched
<1>4. QED
  BY <1>1, <1>2, <1>3

\* A journal write that is not a replay is one edge from the state the row is in.
LEMMA AdvanceCases ==
  ASSUME NEW k, NEW from, NEW to, NEW new, Advance(k, from, to, new)
  PROVE  \/ UNCHANGED journal
         \/ /\ row.state = from /\ Legal(from, to)
            /\ row' = [new EXCEPT !.state = to] /\ log' = Logged(k, from, to)
BY SMTT(30) DEF Advance, Outcome

-----------------------------------------------------------------------------
(* Reinstatement.                                                          *)

\* A reinstated copy never authorises deleting its source (remotedelete.go,
\* lastReinstatement): nobody enters the delete step of a reinstated artifact.
THEOREM ReinstatementHolds == Spec => ReinstatedIsKept
<1> DEFINE Kept == log.reinstated => \A w \in Workers : Deleting(w)' => Deleting(w)
<1>1. TypeOK /\ [Next]_vars => Kept
  <2> SUFFICES ASSUME TypeOK, [Next]_vars, log.reinstated, NEW v \in Workers, Deleting(v)'
               PROVE  Deleting(v)
    OBVIOUS
  <2>0. job \in [Workers -> Jobs]
    BY DEF TypeOK
  <2>1. CASE Discover \/ Environment \/ Operator \/ UNCHANGED vars
    BY <2>0, <2>1, OtherControl DEF Deleting
  <2>2. ASSUME NEW w \in Workers, Step(w) PROVE Deleting(v)
    <3>1. CASE v # w
      BY <2>0, <2>2, <3>1, StepControl DEF Others, Deleting
    <3>2. CASE v = w
      <4>1. DeleteLook(w) \/ DeleteIntent(w) \/ DeleteStat(w)
        BY <2>0, <2>2, <3>2, StepControl DEF Deleting
      <4>2. ~DeleteLook(w)
        <5>1. SUFFICES ASSUME DeleteLook(w) PROVE FALSE
          OBVIOUS
        <5>2. Stop(w)
          BY <5>1 DEF DeleteLook, MayDelete
        <5>3. QED
          BY <2>0, <3>2, <5>2, StopControl DEF Deleting
      <4>3. QED
        BY <3>2, <4>1, <4>2 DEF DeleteIntent, DeleteStat, At, Deleting
    <3>3. QED
      BY <3>1, <3>2
  <2>3. QED
    BY <2>1, <2>2 DEF Next
<1>2. QED
  BY <1>1, TypeCorrect, PTL DEF Spec, ReinstatedIsKept

-----------------------------------------------------------------------------
(* The committed copy is durable.                                          *)

\* Only these steps touch what is outside the journal, the workers and the disk.
LEMMA WorldMoves ==
  ASSUME [Next]_vars
  PROVE  \/ Damage \/ Repair \/ ProducerReplace \/ ProducerRemove
         \/ \E w \in Workers : DeleteCall(w)
         \/ UNCHANGED <<remote, past, destroyed, damaged>>
<1>1. ASSUME NEW w \in Workers, Step(w)
      PROVE  DeleteCall(w) \/ UNCHANGED <<remote, past, destroyed, damaged>>
  BY <1>1 DEF Step, StartCycle, Reconcile, ReconcileLost, ReconcileBlind, List,
              TransferLook, TransferCollide, TransferClaim, TransferClear, TransferCopy,
              TransferMiscopy, Copied, TransferCopyFails, TransferRecord, TransferFail,
              ToVerifying, VerifyRead, VerifyUnreadable, VerifyMismatch, VerifyAccept,
              VerifyCannot, VerifyStall, Judge, CommitBegin, CommitLink, CommitUnlink,
              CommitSync, CommitRecord, Retain, DeleteLook, DeleteIntent, DeleteStat,
              DeleteBlind, DeleteRefuse, DeleteComplete, world
<1>2. CASE Discover \/ UNCHANGED vars
  BY <1>2 DEF Discover, world, vars
<1>3. CASE Operator
  BY <1>3 DEF Operator, RetryQuarantinedIngestion, ReleaseFromQuarantine, RetryInPlace,
              RetryFailed, RetryFailedBlind, Reinstate, ReinstateFails, HoldForJudgement,
              ReinstateFromQuarantine, ValidateArtifact, ReleaseFromRetention,
              ToggleReadOnly, Untouched
<1>4. CASE Environment
  BY <1>4 DEF Environment, Crash, PowerLoss, world
<1>5. QED
  BY <1>1, <1>2, <1>3, <1>4 DEF Next

\* A durable copy stays what it is, unless somebody else touches it: a final
\* name that is there is never linked over, and one that is durable survives a
\* power loss.
LEMMA CopyLasts ==
  ASSUME disk \in Disks, [Next]_vars, disk.final # None, disk.safe
  PROVE  Damage \/ Repair \/ (disk'.final = disk.final /\ disk'.safe)
<1> DEFINE Lasts == disk'.final = disk.final /\ disk'.safe
<1>1. ASSUME NEW w \in Workers, Step(w) PROVE Lasts
  <2>1. CASE TransferClear(w) \/ TransferCopy(w) \/ TransferMiscopy(w)
    <3>1. \E c, s : disk' = [disk EXCEPT !.partial = c, !.same = FALSE, !.synced = s]
                  \/ disk' = [disk EXCEPT !.partial = c, !.same = FALSE]
      BY <2>1 DEF TransferClear, TransferCopy, TransferMiscopy, Copied
    <3>2. QED
      BY <3>1 DEF Disks
  <2>2. CASE CommitLink(w)
    BY <2>2 DEF CommitLink
  <2>3. CASE CommitUnlink(w)
    BY <2>3 DEF CommitUnlink, Disks
  <2>4. CASE CommitSync(w)
    BY <2>4 DEF CommitSync, Disks
  <2>5. CASE UNCHANGED disk
    BY <2>5
  <2>6. QED
    BY <1>1, <2>1, <2>2, <2>3, <2>4, <2>5
       DEF Step, StartCycle, Reconcile, ReconcileLost, ReconcileBlind, List,
           TransferLook, TransferCollide, TransferClaim, TransferCopyFails,
           TransferRecord, TransferFail, ToVerifying, VerifyRead, VerifyUnreadable,
           VerifyMismatch, VerifyAccept, VerifyCannot, VerifyStall, Judge, CommitBegin,
           CommitRecord, Retain, DeleteLook, DeleteIntent, DeleteStat, DeleteBlind,
           DeleteCall, DeleteRefuse, DeleteComplete
<1>2. CASE PowerLoss
  <2>1. \E p \in Surviving :
          disk' = [[disk EXCEPT !.synced = TRUE, !.safe = TRUE] EXCEPT !.partial = p]
    BY <1>2 DEF PowerLoss, AfterPowerLoss
  <2>2. QED
    BY <2>1 DEF Disks
<1>3. CASE UNCHANGED disk
  BY <1>3
<1>4. CASE Discover \/ Operator \/ UNCHANGED vars
  BY <1>3, <1>4 DEF Discover, world, vars, Operator, RetryQuarantinedIngestion,
                    ReleaseFromQuarantine, RetryInPlace, RetryFailed,
                    RetryFailedBlind, Reinstate, ReinstateFails, HoldForJudgement, ReinstateFromQuarantine,
                    ValidateArtifact, ReleaseFromRetention, ToggleReadOnly, Untouched
<1>5. QED
  BY <1>1, <1>2, <1>3, <1>4 DEF Next, Environment, Crash, ProducerReplace,
                                ProducerRemove, world

\* Being secured lasts.
LEMMA SecuredLasts ==
  ASSUME TypeOK, [Next]_vars, Secured
  PROVE  Secured'
<1>1. damaged => damaged'
  BY WorldMoves DEF Damage, Repair, ProducerReplace, ProducerRemove, DeleteCall
<1>2. Damage \/ Repair => damaged'
  BY DEF Damage, Repair
<1>3. disk.final # None /\ disk.safe
        => Damage \/ Repair \/ (disk'.final = disk.final /\ disk'.safe)
  BY CopyLasts DEF TypeOK
<1>4. QED
  BY <1>1, <1>2, <1>3 DEF Secured

\* What a record shows of a durable copy that is or was there.
Trusted == DurableRestorePoints \cup {"QUARANTINED_LOST"}
Untrusted == row.state \notin Trusted /\ log.origin = "none"

\* A write that does not start from a trusted state ends in one only if it is
\* asked to.
LEMMA UntrustedLasts ==
  ASSUME Untrusted, NEW k, NEW from, NEW to, NEW new \in Rows, Advance(k, from, to, new),
         to \in Trusted => from \in Trusted
  PROVE  Untrusted'
<1>1. CASE UNCHANGED journal
  BY <1>1 DEF journal, Untrusted
<1>2. CASE /\ row.state = from /\ Legal(from, to)
           /\ row' = [new EXCEPT !.state = to] /\ log' = Logged(k, from, to)
  <2>1. row'.state = to
    BY <1>2 DEF Rows
  <2>2. from \notin QuarantineOrigins
    BY <1>2 DEF Untrusted, Trusted, QuarantineOrigins, DurableRestorePoints
  <2>3. log'.origin = log.origin
    BY <1>2, <2>2 DEF Logged
  <2>4. QED
    BY <1>2, <2>1, <2>3 DEF Untrusted
<1>3. QED
  BY <1>1, <1>2, AdvanceCases

Finished == {"COMPLETE", "QUARANTINED_LOST"}

\* A journal write of worker w that keeps the identity the artifact was
\* discovered with, and reaches each state that has to be earned from where it
\* is earned.
Writes(w, k, from, to, new) ==
  /\ Advance(k, from, to, new)
  /\ new.ver = row.ver
  /\ to \in Trusted => from \in Trusted \/ At(w, "crecord")
  /\ to = "REMOTE_DELETE_PENDING" => from = to \/ k.step = "delete:pending"
  /\ to \in Finished => from \in Finished \/ At(w, "dcomplete") \/ remote = None

WritesSome(w) ==
  \/ UNCHANGED journal
  \/ \E k \in Keys, from \in States, to \in States, new \in Rows :
       Writes(w, k, from, to, new)

\* Writes that reach none of those states need no more than to be type correct.
LEMMA PlainWrites ==
  ASSUME NEW w \in Workers, NEW k \in Keys, NEW from, NEW to, NEW new \in Rows,
         Advance(k, from, to, new), new.ver = row.ver, to \notin Trusted
  PROVE  WritesSome(w)
<1>1. CASE UNCHANGED journal
  BY <1>1 DEF WritesSome
<1>2. CASE Legal(from, to)
  <2>1. from \in States /\ to \in States
    BY <1>2 DEF Legal
  <2>2. to # "REMOTE_DELETE_PENDING" /\ to \notin Finished
    BY DEF Trusted, DurableRestorePoints, Finished
  <2>3. QED
    BY <2>1, <2>2 DEF Writes, WritesSome
<1>3. QED
  BY <1>1, <1>2, AdvanceCases

LEMMA CycleWrites ==
  ASSUME TypeOK, NEW w \in Workers,
         \/ StartCycle(w) \/ Reconcile(w) \/ ReconcileLost(w) \/ ReconcileBlind(w)
         \/ List(w)
  PROVE  WritesSome(w)
<1>0. row \in Rows /\ job[w].got \in Rows /\ Fresh \in Keys
  BY DEF TypeOK, Jobs, Fresh, Keys, Steps
<1>1. CASE StartCycle(w) \/ ReconcileBlind(w) \/ List(w)
  BY <1>1 DEF StartCycle, ReconcileBlind, List, journal, WritesSome
<1>2. CASE ReconcileLost(w)
  <2>1. Advance(Fresh, "COMPLETE", "QUARANTINED_LOST", row)
    BY <1>2 DEF ReconcileLost
  <2>2. Writes(w, Fresh, "COMPLETE", "QUARANTINED_LOST", row)
    BY <2>1 DEF Writes, Trusted, DurableRestorePoints, Finished
  <2>3. QED
    BY <1>0, <2>2 DEF WritesSome, States, DurableRestorePoints, ExceptionalStates,
                      QuarantineStates
<1>3. CASE Reconcile(w)
  <2> DEFINE r == job[w].got
             valid == LocalValid(r, job[w].seen)
             to == ReconcileTo(r, valid)
  <2>1. IF to # r.state THEN Advance(Fresh, r.state, to, row) ELSE UNCHANGED journal
    BY <1>3, Zenon DEF Reconcile
  <2>2. CASE to = r.state
    BY <2>1, <2>2 DEF WritesSome
  <2>3. CASE to # r.state
    <3>1. Advance(Fresh, r.state, to, row)
      BY <2>1, <2>3
    <3>2. /\ r.state \in {"COMMITTED", "REMOTE_RETAINED", "COMPLETE",
                         "REMOTE_DELETE_PENDING"}
          /\ to \in {"QUARANTINED", "QUARANTINED_LOST", "COMPLETE"}
          /\ to = "QUARANTINED_LOST" => r.state = "COMPLETE"
          /\ to = "COMPLETE" => remote = None
      BY <2>3 DEF ReconcileTo
    <3> HIDE DEF r, valid, to
    <3>3. Writes(w, Fresh, r.state, to, row)
      BY <3>1, <3>2 DEF Writes, Trusted, DurableRestorePoints, Finished
    <3>4. r.state \in States /\ to \in States
      BY <3>2 DEF States, DurableRestorePoints, ExceptionalStates, QuarantineStates
    <3>5. QED
      BY <1>0, <3>3, <3>4 DEF WritesSome
  <2>4. QED
    BY <2>2, <2>3
<1>4. QED
  BY <1>1, <1>2, <1>3

LEMMA TransferWrites ==
  ASSUME TypeOK, NEW w \in Workers,
         \/ TransferLook(w) \/ TransferCollide(w) \/ TransferClaim(w)
         \/ TransferClear(w) \/ TransferCopy(w) \/ TransferMiscopy(w)
         \/ TransferCopyFails(w) \/ TransferRecord(w) \/ TransferFail(w)
  PROVE  WritesSome(w)
<1>0. row \in Rows /\ job[w].got \in Rows /\ job \in [Workers -> Jobs]
  BY DEF TypeOK, Jobs
<1>1. CASE \/ TransferLook(w) \/ TransferClear(w) \/ TransferCopy(w)
           \/ TransferMiscopy(w) \/ TransferCopyFails(w)
  BY <1>1 DEF TransferLook, TransferClear, TransferCopy, TransferMiscopy, Copied,
              TransferCopyFails, journal, WritesSome
<1>2. "FAILED" \notin Trusted /\ "TRANSFERRING" \notin Trusted
      /\ "TRANSFERRED" \notin Trusted
  BY DEF Trusted, DurableRestorePoints
<1>3. CASE TransferCollide(w)
  <2>1. Key(w, "failed:collision") \in Keys
    BY <1>0, KeyTypes DEF Steps
  <2>2. QED
    BY <1>0, <1>2, <1>3, <2>1, PlainWrites DEF TransferCollide
<1>4. CASE TransferClaim(w)
  <2>1. Key(w, "transferring") \in Keys
    BY <1>0, KeyTypes DEF Steps
  <2>2. [row EXCEPT !.path = "partial"] \in Rows
        /\ [row EXCEPT !.path = "partial"].ver = row.ver
    BY <1>0 DEF Rows
  <2>3. \E from : Advance(Key(w, "transferring"), from, "TRANSFERRING",
                          [row EXCEPT !.path = "partial"])
    BY <1>4, Zenon DEF TransferClaim
  <2>4. QED
    BY <1>2, <2>1, <2>2, <2>3, PlainWrites
<1>5. CASE TransferRecord(w)
  <2>1. Key(w, "transferred") \in Keys
    BY <1>0, KeyTypes DEF Steps
  <2>2. [row EXCEPT !.bytes = "full"] \in Rows
        /\ [row EXCEPT !.bytes = "full"].ver = row.ver
    BY <1>0 DEF Rows
  <2>3. \/ UNCHANGED journal
        \/ Advance(Key(w, "transferred"), "TRANSFERRING", "TRANSFERRED",
                   [row EXCEPT !.bytes = "full"])
    BY <1>5 DEF TransferRecord, AdvanceAndDispatch
  <2>4. QED
    BY <1>2, <2>1, <2>2, <2>3, PlainWrites DEF WritesSome
<1>6. CASE TransferFail(w)
  <2> DEFINE charged == [row EXCEPT !.retry = NextAttempt(job[w].got)]
  <2>1. Key(w, "failed:copy") \in Keys /\ Key(w, "copy:unclaimed") \in Keys
    BY <1>0, KeyTypes DEF Steps
  <2>2. charged \in Rows /\ charged.ver = row.ver
    BY <1>0, NextAttemptType DEF Rows
  <2>3. \/ Advance(Key(w, "failed:copy"), "TRANSFERRING", "FAILED", row)
        \/ Advance(Key(w, "failed:copy"), "TRANSFERRING", "FAILED", charged)
        \/ Advance(Key(w, "copy:unclaimed"), "TRANSFERRING", "TRANSFERRING", charged)
    BY <1>6, SMTT(30) DEF TransferFail
  <2> HIDE DEF charged
  <2>4. QED
    BY <1>0, <1>2, <2>1, <2>2, <2>3, PlainWrites
<1>7. QED
  BY <1>1, <1>3, <1>4, <1>5, <1>6

LEMMA VerifyWrites ==
  ASSUME TypeOK, NEW w \in Workers,
         \/ ToVerifying(w) \/ VerifyRead(w) \/ VerifyUnreadable(w)
         \/ VerifyMismatch(w) \/ VerifyAccept(w) \/ VerifyCannot(w) \/ VerifyStall(w)
  PROVE  WritesSome(w)
<1>0. row \in Rows /\ job[w].got \in Rows /\ job[w].seen \in MaybeContent
      /\ job \in [Workers -> Jobs]
  BY DEF TypeOK, Jobs
<1>1. Key(w, "verifying") \in Keys /\ Key(w, "verify") \in Keys
      /\ Key(w, "verify-stall") \in Keys
  BY <1>0, KeyTypes DEF Steps
<1>2. "FAILED" \notin Trusted /\ "QUARANTINED" \notin Trusted
      /\ "VERIFYING" \notin Trusted /\ "VERIFIED" \notin Trusted
  BY DEF Trusted, DurableRestorePoints
<1>3. CASE VerifyRead(w)
  BY <1>3 DEF VerifyRead, journal, WritesSome
<1>4. CASE ToVerifying(w)
  BY <1>0, <1>1, <1>2, <1>4, PlainWrites DEF ToVerifying, AdvanceAndDispatch
<1>5. ASSUME NEW to, NEW new \in Rows, Judge(w, to, new), new.ver = row.ver,
             to \notin Trusted
      PROVE  WritesSome(w)
  BY <1>1, <1>5, PlainWrites DEF Judge, AdvanceAndDispatch
<1>6. Hashed(w) \in Rows /\ Hashed(w).ver = row.ver
  BY <1>0 DEF Hashed, Rows
<1>7. CASE VerifyUnreadable(w)
  BY <1>0, <1>2, <1>5, <1>7 DEF VerifyUnreadable
<1>8. CASE VerifyMismatch(w) \/ VerifyCannot(w)
  BY <1>2, <1>5, <1>6, <1>8 DEF VerifyMismatch, VerifyCannot
<1>9. CASE VerifyAccept(w)
  <2>1. \A b \in BOOLEAN : /\ [Hashed(w) EXCEPT !.rejected = b] \in Rows
                           /\ [Hashed(w) EXCEPT !.rejected = b].ver = row.ver
    BY <1>6 DEF Rows
  <2>2. \/ Judge(w, "VERIFIED", [Hashed(w) EXCEPT !.rejected = FALSE])
        \/ Judge(w, "QUARANTINED", [Hashed(w) EXCEPT !.rejected = TRUE])
    BY <1>9 DEF VerifyAccept
  <2>3. QED
    BY <1>2, <1>5, <2>1, <2>2
<1>10. CASE VerifyStall(w)
  <2> DEFINE from == job[w].got.state
             charged == [row EXCEPT !.retry = NextAttempt(job[w].got)]
  <2>1. charged \in Rows /\ charged.ver = row.ver
    BY <1>0, NextAttemptType DEF Rows
  <2>2. \/ Advance(Key(w, "verify-stall"), from, "QUARANTINED", charged)
        \/ Advance(Key(w, "verify-stall"), from, from, charged)
    BY <1>10, Zenon DEF VerifyStall, AdvanceAndDispatch
  <2> HIDE DEF from, charged
  <2>3. CASE Advance(Key(w, "verify-stall"), from, "QUARANTINED", charged)
    BY <1>1, <1>2, <2>1, <2>3, PlainWrites
  <2>4. CASE Advance(Key(w, "verify-stall"), from, from, charged)
    <3>1. CASE UNCHANGED journal
      BY <3>1 DEF WritesSome
    <3>2. CASE Legal(from, from)
      <4>1. from \in States
        BY <3>2 DEF Legal
      <4>2. Writes(w, Key(w, "verify-stall"), from, from, charged)
        BY <2>1, <2>4 DEF Writes
      <4>3. QED
        BY <1>1, <2>1, <4>1, <4>2 DEF WritesSome
    <3>3. QED
      BY <2>4, <3>1, <3>2, AdvanceCases
  <2>5. QED
    BY <2>2, <2>3, <2>4
<1>11. QED
  BY <1>3, <1>4, <1>7, <1>8, <1>9, <1>10

LEMMA CommitWrites ==
  ASSUME TypeOK, NEW w \in Workers,
         \/ CommitBegin(w) \/ CommitLink(w) \/ CommitUnlink(w) \/ CommitSync(w)
         \/ CommitRecord(w)
  PROVE  WritesSome(w)
<1>0. row \in Rows /\ job[w].seen \in MaybeContent /\ job \in [Workers -> Jobs]
  BY DEF TypeOK, Jobs
<1>1. CASE CommitLink(w) \/ CommitUnlink(w) \/ CommitSync(w)
  BY <1>1 DEF CommitLink, CommitUnlink, CommitSync, journal, WritesSome
<1>2. CASE CommitBegin(w)
  <2>1. Key(w, "committing") \in Keys
    BY <1>0, KeyTypes DEF Steps
  <2>2. Advance(Key(w, "committing"), "VERIFIED", "COMMITTING", row)
    BY <1>2, Zenon DEF CommitBegin
  <2>3. "COMMITTING" \notin Trusted
    BY DEF Trusted, DurableRestorePoints
  <2>4. QED
    BY <1>0, <2>1, <2>2, <2>3, PlainWrites
<1>3. CASE CommitRecord(w)
  <2> DEFINE new == Measured(w, [row EXCEPT !.path = "final", !.placed = TRUE])
  <2>1. Key(w, "committed") \in Keys
    BY <1>0, KeyTypes DEF Steps
  <2>2. [row EXCEPT !.path = "final", !.placed = TRUE] \in Rows
        /\ [row EXCEPT !.path = "final", !.placed = TRUE].ver = row.ver
    BY <1>0 DEF Rows
  <2>3. new \in Rows /\ new.ver = row.ver
    <3> DEFINE size == SizeOf(job[w].seen)
               hash == job[w].seen
    <3>1. hash \in MaybeContent /\ size \in {"none", "short", "full"}
      BY <1>0 DEF Jobs, SizeOf
    <3>2. \A r : Measured(w, r) \in {r, [r EXCEPT !.bytes = size, !.hash = hash]}
      BY DEF Measured
    <3> HIDE DEF size, hash
    <3>3. ASSUME NEW r \in Rows PROVE Measured(w, r) \in Rows /\ Measured(w, r).ver = r.ver
      <4> DEFINE m == [r EXCEPT !.bytes = size, !.hash = hash]
      <4>1. m \in Rows /\ m.ver = r.ver
        BY <3>1 DEF Rows
      <4> HIDE DEF m
      <4>2. Measured(w, r) = r \/ Measured(w, r) = m
        BY <3>2 DEF m
      <4>3. QED
        BY <4>1, <4>2
    <3>4. QED
      BY <2>2, <3>3
  <2>4. Advance(Key(w, "committed"), "COMMITTING", "COMMITTED", new) /\ At(w, "crecord")
    BY <1>3 DEF CommitRecord, AdvanceAndDispatch
  <2> HIDE DEF new
  <2>5. Writes(w, Key(w, "committed"), "COMMITTING", "COMMITTED", new)
    BY <2>3, <2>4 DEF Writes, Finished
  <2>6. QED
    BY <2>1, <2>3, <2>5 DEF WritesSome, States, InProgress, DurableRestorePoints
<1>4. QED
  BY <1>1, <1>2, <1>3

LEMMA DeleteWrites ==
  ASSUME TypeOK, NEW w \in Workers,
         \/ Retain(w) \/ DeleteLook(w) \/ DeleteIntent(w) \/ DeleteStat(w)
         \/ DeleteBlind(w) \/ DeleteCall(w) \/ DeleteRefuse(w) \/ DeleteComplete(w)
  PROVE  WritesSome(w)
<1>0. row \in Rows /\ job \in [Workers -> Jobs]
  BY DEF TypeOK
<1>1. /\ Key(w, "retain") \in Keys /\ Key(w, "delete:pending") \in Keys
      /\ Key(w, "delete:refused") \in Keys /\ Key(w, "delete:complete") \in Keys
  BY <1>0, KeyTypes DEF Steps
<1>2. DurableRestorePoints \subseteq States
  BY DEF States
<1>3. CASE DeleteLook(w) \/ DeleteStat(w) \/ DeleteBlind(w) \/ DeleteCall(w)
  BY <1>3 DEF DeleteLook, DeleteStat, DeleteBlind, DeleteCall, journal, WritesSome
<1>4. CASE Retain(w)
  <2>1. CASE UNCHANGED journal
    BY <2>1 DEF WritesSome
  <2>2. CASE /\ row.state \in {"COMMITTED", "REMOTE_DELETE_PENDING", "REMOTE_RETAINED"}
             /\ Advance(Key(w, "retain"), row.state, "REMOTE_RETAINED", row)
    <3>1. Writes(w, Key(w, "retain"), row.state, "REMOTE_RETAINED", row)
      BY <2>2 DEF Writes, Trusted, DurableRestorePoints, Finished
    <3>2. row.state \in States /\ "REMOTE_RETAINED" \in States
      BY <1>2, <2>2 DEF DurableRestorePoints
    <3>3. QED
      BY <1>0, <1>1, <3>1, <3>2 DEF WritesSome
  <2>3. QED
    BY <1>4, <2>1, <2>2 DEF Retain
<1>5. CASE DeleteIntent(w)
  <2>1. Advance(Key(w, "delete:pending"), "COMMITTED", "REMOTE_DELETE_PENDING", row)
    BY <1>5, Zenon DEF DeleteIntent
  <2>2. Key(w, "delete:pending").step = "delete:pending"
    BY DEF Key
  <2>3. Writes(w, Key(w, "delete:pending"), "COMMITTED", "REMOTE_DELETE_PENDING", row)
    BY <2>1, <2>2 DEF Writes, Trusted, DurableRestorePoints, Finished
  <2>4. QED
    BY <1>0, <1>1, <1>2, <2>3 DEF WritesSome, DurableRestorePoints
<1>6. CASE DeleteRefuse(w)
  <2>1. Writes(w, Key(w, "delete:refused"), "REMOTE_DELETE_PENDING",
               "REMOTE_DELETE_PENDING", row)
    BY <1>6 DEF DeleteRefuse, Writes, Trusted, DurableRestorePoints, Finished
  <2>2. QED
    BY <1>0, <1>1, <1>2, <2>1 DEF WritesSome, DurableRestorePoints
<1>7. CASE DeleteComplete(w)
  <2>1. Writes(w, Key(w, "delete:complete"), "REMOTE_DELETE_PENDING", "COMPLETE", row)
    BY <1>7 DEF DeleteComplete, Writes, Trusted, DurableRestorePoints, Finished
  <2>2. QED
    BY <1>0, <1>1, <1>2, <2>1 DEF WritesSome, DurableRestorePoints
<1>8. QED
  BY <1>3, <1>4, <1>5, <1>6, <1>7

LEMMA StepWrites ==
  ASSUME TypeOK, NEW w \in Workers, Step(w)
  PROVE  WritesSome(w)
<1>1. CASE StartCycle(w) \/ Reconcile(w) \/ ReconcileLost(w) \/ ReconcileBlind(w)
           \/ List(w)
  BY <1>1, CycleWrites
<1>2. CASE TransferLook(w) \/ TransferCollide(w) \/ TransferClaim(w)
           \/ TransferClear(w) \/ TransferCopy(w) \/ TransferMiscopy(w)
           \/ TransferCopyFails(w) \/ TransferRecord(w) \/ TransferFail(w)
  BY <1>2, TransferWrites
<1>3. CASE ToVerifying(w) \/ VerifyRead(w) \/ VerifyUnreadable(w)
           \/ VerifyMismatch(w) \/ VerifyAccept(w) \/ VerifyCannot(w) \/ VerifyStall(w)
  BY <1>3, VerifyWrites
<1>4. CASE CommitBegin(w) \/ CommitLink(w) \/ CommitUnlink(w) \/ CommitSync(w)
           \/ CommitRecord(w)
  BY <1>4, CommitWrites
<1>5. CASE Retain(w) \/ DeleteLook(w) \/ DeleteIntent(w) \/ DeleteStat(w)
           \/ DeleteBlind(w) \/ DeleteCall(w) \/ DeleteRefuse(w) \/ DeleteComplete(w)
  BY <1>5, DeleteWrites
<1>6. QED
  BY <1>1, <1>2, <1>3, <1>4, <1>5 DEF Step

\* The operator's writes: nothing is trusted again that was not trusted before,
\* no deletion is ever asked for, and nothing is called complete but what was.
OperatorWrites ==
  \/ UNCHANGED journal
  \/ \E from \in States, to \in States, new \in Rows :
       /\ Advance(Fresh, from, to, new)
       /\ new.ver = row.ver
       /\ to \in Trusted => from \in Trusted \/ log.origin # "none"
       /\ to # "REMOTE_DELETE_PENDING"
       /\ to \in Finished => from \in Finished

LEMMA OperatorWritesSo == ASSUME TypeOK, Operator PROVE OperatorWrites
<1>0. row \in Rows /\ disk \in Disks
  BY DEF TypeOK
<1>1. "DISCOVERED" \in States /\ "FAILED" \in States /\ "QUARANTINED" \in States
      /\ "QUARANTINED_LOST" \in States /\ "COMMITTED" \in States
      /\ "COMPLETE" \in States /\ "REMOTE_RETAINED" \in States
  BY DEF States, InProgress, DurableRestorePoints, ExceptionalStates, QuarantineStates
<1>2. /\ "DISCOVERED" \notin Trusted \cup Finished /\ "FAILED" \notin Trusted \cup Finished
      /\ "QUARANTINED" \notin Trusted \cup Finished
      /\ {"COMMITTED", "COMPLETE", "REMOTE_RETAINED", "QUARANTINED_LOST"} \subseteq Trusted
      /\ "COMMITTED" \notin Finished /\ "REMOTE_RETAINED" \notin Finished
      /\ "COMPLETE" \in Finished /\ "QUARANTINED_LOST" \in Finished
  BY DEF Trusted, DurableRestorePoints, Finished
<1>3. [row EXCEPT !.retry = @ + 1] \in Rows /\ [row EXCEPT !.retry = @ + 1].ver = row.ver
  BY <1>0 DEF Rows
<1>4. CASE RetryQuarantinedIngestion
  BY <1>0, <1>1, <1>2, <1>4 DEF RetryQuarantinedIngestion, OperatorWrites
<1>5. CASE ReleaseFromQuarantine
  BY <1>1, <1>2, <1>3, <1>5 DEF ReleaseFromQuarantine, OperatorWrites
<1>6. CASE RetryInPlace
  <2> DEFINE new == [row EXCEPT !.bytes = SizeOf(disk.final), !.hash = disk.final]
  <2>1. new \in Rows /\ new.ver = row.ver
    BY <1>0 DEF Rows, Disks, SizeOf
  <2>2. Advance(Fresh, "FAILED", "FAILED", new)
    BY <1>6 DEF RetryInPlace
  <2> HIDE DEF new
  <2>3. QED
    BY <1>1, <1>2, <2>1, <2>2 DEF OperatorWrites
<1>7. CASE RetryFailed
  BY <1>1, <1>2, <1>3, <1>7 DEF RetryFailed, OperatorWrites
<1>8. CASE Reinstate \/ ReinstateFails \/ ToggleReadOnly
  BY <1>8 DEF Reinstate, ReinstateFails, ToggleReadOnly, journal, OperatorWrites
<1>9. CASE HoldForJudgement
  BY <1>0, <1>1, <1>2, <1>9 DEF HoldForJudgement, OperatorWrites
<1>10. CASE ReinstateFromQuarantine
  <2> DEFINE new == IF op.valid THEN [row EXCEPT !.rejected = FALSE] ELSE row
  <2>1. new \in Rows /\ new.ver = row.ver
    BY <1>0 DEF Rows
  <2>2. \/ UNCHANGED journal
        \/ /\ Advance(Fresh, row.state, Target, new)
           /\ row.state \in QuarantineStates
           /\ row.state = "QUARANTINED" => log.origin # "none"
    BY <1>10 DEF ReinstateFromQuarantine
  <2>3. CASE UNCHANGED journal
    BY <2>3 DEF OperatorWrites
  <2> HIDE DEF new
  <2>4. CASE /\ Advance(Fresh, row.state, Target, new)
             /\ row.state = "QUARANTINED_LOST"
    <3>1. Target = "COMPLETE"
      BY <2>4 DEF Target
    <3>2. QED
      BY <1>1, <1>2, <2>1, <2>4, <3>1 DEF OperatorWrites
  <2>5. CASE /\ Advance(Fresh, row.state, Target, new)
             /\ row.state = "QUARANTINED" /\ log.origin # "none"
    <3>1. Target \in {"COMMITTED", "REMOTE_RETAINED"}
      BY <2>5 DEF Target, ReinstatementTarget
    <3>2. QED
      BY <1>1, <1>2, <2>1, <2>5, <3>1 DEF OperatorWrites
  <2>6. QED
    BY <2>2, <2>3, <2>4, <2>5 DEF QuarantineStates
<1>11. CASE ValidateArtifact
  <2> DEFINE to == IF row.state = "COMPLETE" THEN "QUARANTINED_LOST" ELSE "QUARANTINED"
  <2>1. row.state \in States /\ row.state \in Trusted
    BY <1>11 DEF ValidateArtifact, States, Trusted
  <2>2. to \in States /\ to # "REMOTE_DELETE_PENDING"
        /\ (to \in Finished => row.state \in Finished)
    BY <1>1, <1>2
  <2>3. Advance(Fresh, row.state, to, row)
    BY <1>11 DEF ValidateArtifact
  <2> HIDE DEF to
  <2>4. QED
    BY <1>0, <2>1, <2>2, <2>3 DEF OperatorWrites
<1>12. CASE ReleaseFromRetention
  BY <1>0, <1>1, <1>2, <1>12 DEF ReleaseFromRetention, OperatorWrites
<1>13. CASE RetryFailedBlind
  BY <1>1, <1>2, <1>3, <1>13 DEF RetryFailedBlind, OperatorWrites
<1>14. QED
  BY <1>4, <1>5, <1>6, <1>7, <1>8, <1>9, <1>10, <1>11, <1>12, <1>13 DEF Operator

\* Discovery starts the record; what the environment does leaves it alone.
LEMMA EnvironmentWritesNothing == ASSUME Environment PROVE UNCHANGED journal
BY DEF Environment, Crash, PowerLoss, Damage, Repair, ProducerReplace, ProducerRemove,
       journal

LEMMA DiscoverWrites ==
  ASSUME TypeOK, Discover
  PROVE  /\ row = NoRow /\ row'.state = "DISCOVERED" /\ row'.ver = remote
         /\ UNCHANGED <<log, disk, job, world>>
BY DEF Discover, NoRow

\* The copy is secured before a record promises it, whatever the schedule of
\* the processes and wherever a crash or a power loss comes (commit.go).
LEMMA SecuredStep == TypeOK /\ SecuredFirst /\ [Next]_vars => SecuredFirst'
<1> SUFFICES ASSUME TypeOK, SecuredFirst, [Next]_vars PROVE SecuredFirst'
  OBVIOUS
<1>1. CASE Secured
  <2>1. Secured'
    BY <1>1, SecuredLasts
  <2>2. QED
    BY <2>1 DEF SecuredFirst
<1>2. CASE ~Secured
  <2>0. job \in [Workers -> Jobs] /\ job' \in [Workers -> Jobs] /\ disk \in Disks
    <3>1. TypeOK'
      BY NextTypes
    <3>2. QED
      BY <3>1 DEF TypeOK
  <2>1. Untrusted /\ \A w \in Workers : ~At(w, "crecord")
    BY <1>2 DEF SecuredFirst, Untrusted, Trusted
  <2>2. SUFFICES ASSUME ~Secured'
                 PROVE  Untrusted' /\ \A w \in Workers : ~At(w, "crecord")'
    BY DEF SecuredFirst, Untrusted, Trusted
  <2>3. CASE Discover
    BY <2>1, <2>3, DiscoverWrites DEF Untrusted, Trusted, DurableRestorePoints, At
  <2>4. CASE UNCHANGED vars
    BY <2>1, <2>4 DEF Untrusted, At, vars
  <2>5. ASSUME NEW w \in Workers, Step(w)
        PROVE  Untrusted' /\ \A v \in Workers : ~At(v, "crecord")'
    <3>1. WritesSome(w)
      BY <2>5, StepWrites
    <3>2. Untrusted'
      <4>1. CASE UNCHANGED journal
        BY <2>1, <4>1 DEF Untrusted, journal
      <4>2. ASSUME NEW k \in Keys, NEW from \in States, NEW to \in States,
                   NEW new \in Rows, Writes(w, k, from, to, new)
            PROVE  Untrusted'
        BY <2>1, <4>2, UntrustedLasts DEF Writes
      <4>3. QED
        BY <3>1, <4>1, <4>2 DEF WritesSome
    <3>3. job'[w].pc # "crecord"
      <4>1. SUFFICES ASSUME job'[w].pc = "crecord" PROVE FALSE
        OBVIOUS
      <4>2. CommitSync(w)
        BY <2>0, <2>5, <4>1, StepControl
      <4>3. disk.final # None /\ disk' = [disk EXCEPT !.safe = TRUE]
        BY <2>0, <4>1, <4>2, StopControl DEF CommitSync
      <4>4. Secured'
        BY <2>0, <4>3 DEF Secured, Disks
      <4>5. QED
        BY <2>2, <4>4
    <3>4. QED
      BY <2>0, <2>1, <2>5, <3>2, <3>3, StepControl DEF Others, At
  <2>6. CASE Environment
    <3>1. Untrusted'
      BY <2>1, <2>6, EnvironmentWritesNothing DEF Untrusted, journal
    <3>2. QED
      BY <2>0, <2>1, <2>6, <3>1, OtherControl DEF At
  <2>7. CASE Operator
    <3>1. Untrusted'
      <4>1. CASE UNCHANGED journal
        BY <2>1, <4>1 DEF Untrusted, journal
      <4>2. ASSUME NEW from \in States, NEW to \in States, NEW new \in Rows,
                   Advance(Fresh, from, to, new),
                   to \in Trusted => from \in Trusted \/ log.origin # "none"
            PROVE  Untrusted'
        BY <2>1, <4>2, UntrustedLasts DEF Untrusted
      <4>3. QED
        BY <2>7, <4>1, <4>2, OperatorWritesSo DEF OperatorWrites
    <3>2. QED
      BY <2>0, <2>1, <2>7, <3>1, OtherControl DEF At
  <2>8. QED
    BY <2>3, <2>4, <2>5, <2>6, <2>7 DEF Next
<1>3. QED
  BY <1>1, <1>2

\* Commit's order (crash_safety.go): a record that promises a durable copy has
\* one, whatever was interrupted where.
THEOREM CommitIsDurable == Spec => []CommittedIsDurable
<1>1. Init => SecuredFirst
  BY DEF Init, SecuredFirst, NoRow, DurableRestorePoints, IdleJob, At
<1>2. SecuredFirst => CommittedIsDurable
  BY DEF SecuredFirst, Secured, CommittedIsDurable
<1>3. QED
  BY <1>1, <1>2, SecuredStep, TypeCorrect, PTL DEF Spec

-----------------------------------------------------------------------------
(* The intent comes first.                                                 *)

\* An entry of the log stays in it.
LEMMA UsedGrows ==
  ASSUME NEW k, NEW from, NEW to, NEW new, Advance(k, from, to, new)
  PROVE  log.used \subseteq log'.used
<1>1. CASE UNCHANGED journal
  BY <1>1 DEF journal
<1>2. CASE log' = Logged(k, from, to)
  BY <1>2 DEF Logged
<1>3. QED
  BY <1>1, <1>2, AdvanceCases

LEMMA IntentStays == ASSUME TypeOK, [Next]_vars, IntentLogged PROVE IntentLogged'
<1>1. ASSUME NEW k, NEW from, NEW to, NEW new, Advance(k, from, to, new)
      PROVE  IntentLogged'
  BY <1>1, UsedGrows DEF IntentLogged
<1>2. CASE UNCHANGED log
  BY <1>2 DEF IntentLogged
<1>3. ASSUME NEW w \in Workers, Step(w) PROVE IntentLogged'
  BY <1>1, <1>2, <1>3, StepWrites DEF WritesSome, Writes, journal
<1>4. CASE Operator
  BY <1>1, <1>2, <1>4, OperatorWritesSo DEF OperatorWrites, journal
<1>5. CASE Environment
  BY <1>2, <1>5, EnvironmentWritesNothing DEF journal
<1>6. CASE Discover \/ UNCHANGED vars
  BY <1>2, <1>6 DEF Discover, vars
<1>7. QED
  BY <1>3, <1>4, <1>5, <1>6 DEF Next

\* A record comes to REMOTE_DELETE_PENDING from elsewhere only by the write of
\* DeleteIntent, which leaves the intent in the log.
LEMMA IntentWritten ==
  ASSUME row.state # "REMOTE_DELETE_PENDING", NEW k \in Keys, NEW from, NEW to,
         NEW new \in Rows, Advance(k, from, to, new),
         to = "REMOTE_DELETE_PENDING" => from = to \/ k.step = "delete:pending",
         row'.state = "REMOTE_DELETE_PENDING"
  PROVE  IntentLogged'
<1>1. row.state = from /\ row' = [new EXCEPT !.state = to] /\ log' = Logged(k, from, to)
  BY AdvanceCases DEF journal
<1>2. to = "REMOTE_DELETE_PENDING"
  BY <1>1 DEF Rows
<1>3. k.step = "delete:pending" /\ k # Fresh
  BY <1>1, <1>2 DEF Fresh
<1>4. <<k, to>> \in log'.used
  BY <1>1, <1>3 DEF Logged
<1>5. QED
  BY <1>2, <1>3, <1>4 DEF IntentLogged

LEMMA IntentStep == TypeOK /\ IntentFirst /\ [Next]_vars => IntentFirst'
<1> SUFFICES ASSUME TypeOK, IntentFirst, [Next]_vars PROVE IntentFirst'
  OBVIOUS
<1>1. CASE IntentLogged
  BY <1>1, IntentStays DEF IntentFirst
<1>2. CASE ~IntentLogged
  <2> DEFINE Past == {"dstat", "dcall", "drefuse", "dcomplete"}
             Nobody == \A w \in Workers : job[w].pc \notin Past
  <2>0. job \in [Workers -> Jobs] /\ Fresh \in Keys
    BY DEF TypeOK, Fresh, Keys, Steps
  <2>1. row.state # "REMOTE_DELETE_PENDING" /\ Nobody /\ destroyed = {}
    BY <1>2 DEF IntentFirst
  <2>2. SUFFICES ASSUME ~IntentLogged'
                 PROVE  row'.state # "REMOTE_DELETE_PENDING" /\ Nobody' /\ destroyed' = {}
    BY DEF IntentFirst
  <2>3. CASE Discover
    BY <2>1, <2>3, DiscoverWrites DEF world
  <2>4. CASE UNCHANGED vars
    BY <2>1, <2>4 DEF vars
  <2>5. ASSUME NEW w \in Workers, Step(w)
        PROVE  row'.state # "REMOTE_DELETE_PENDING" /\ Nobody' /\ destroyed' = {}
    <3>1. row'.state # "REMOTE_DELETE_PENDING"
      BY <2>1, <2>2, <2>5, StepWrites, IntentWritten DEF WritesSome, Writes, journal
    <3>2. ~At(w, "dstat") /\ ~At(w, "dcall")
      BY <2>1 DEF At
    <3>3. ~DeleteStat(w) /\ ~DeleteBlind(w) /\ ~DeleteCall(w)
      BY <3>2 DEF DeleteStat, DeleteBlind, DeleteCall
    <3>4. ~DeleteLook(w) \/ job'[w].pc # "dstat"
      <4>1. SUFFICES ASSUME DeleteLook(w), job'[w].pc = "dstat" PROVE FALSE
        OBVIOUS
      <4>2. ~Stop(w)
        BY <2>0, <4>1, StopControl
      <4>3. MayDelete /\ Remember(w, IF row.state = "COMMITTED" THEN "dintent" ELSE "dstat",
                                 row, None)
        BY <4>1, <4>2 DEF DeleteLook
      <4>4. row.state = "COMMITTED"
        BY <2>1, <4>3 DEF MayDelete
      <4>5. Remember(w, "dintent", row, None)
        BY <4>3, <4>4
      <4>6. job'[w].pc = "dintent"
        BY <2>0, <4>5, RememberControl
      <4>7. QED
        BY <4>1, <4>6
    <3>5. ~DeleteIntent(w) \/ job'[w].pc # "dstat"
      <4> DEFINE k == Key(w, "delete:pending")
      <4>1. SUFFICES ASSUME DeleteIntent(w), job'[w].pc = "dstat" PROVE FALSE
        OBVIOUS
      <4>2. Advance(k, "COMMITTED", "REMOTE_DELETE_PENDING", row)
            /\ Succeeds(k, "COMMITTED", "REMOTE_DELETE_PENDING")
        BY <2>0, <4>1, StopControl DEF DeleteIntent
      <4>3. k \in Keys /\ k.step = "delete:pending"
        BY <2>0, KeyTypes DEF Key, Steps
      <4> HIDE DEF k
      <4>4. CASE Outcome(k, "COMMITTED", "REMOTE_DELETE_PENDING") = "applied"
        <5>1. row' = [row EXCEPT !.state = "REMOTE_DELETE_PENDING"]
          BY <4>2, <4>4 DEF Advance
        <5>2. row'.state = "REMOTE_DELETE_PENDING"
          BY <5>1 DEF TypeOK, Rows
        <5>3. QED
          BY <3>1, <5>2
      <4>5. CASE Outcome(k, "COMMITTED", "REMOTE_DELETE_PENDING") = "replay"
        <5>1. <<k, "REMOTE_DELETE_PENDING">> \in log.used
          BY <4>5, SMTT(30) DEF Outcome
        <5>2. QED
          BY <1>2, <4>3, <5>1 DEF IntentLogged
      <4>6. QED
        BY <4>2, <4>4, <4>5 DEF Succeeds
    <3>6. Nobody'
      BY <2>0, <2>1, <2>5, <3>3, <3>4, <3>5, StepControl DEF Others
    <3>7. destroyed' = destroyed
      BY <2>5, <3>3
         DEF Step, StartCycle, Reconcile, ReconcileLost, ReconcileBlind, List,
             TransferLook, TransferCollide, TransferClaim, TransferClear, TransferCopy,
             TransferMiscopy, Copied, TransferCopyFails, TransferRecord, TransferFail,
             ToVerifying, VerifyRead, VerifyUnreadable, VerifyMismatch, VerifyAccept,
             VerifyCannot, VerifyStall, Judge, CommitBegin, CommitLink, CommitUnlink,
             CommitSync, CommitRecord, Retain, DeleteLook, DeleteIntent, DeleteRefuse,
             DeleteComplete, world
    <3>8. QED
      BY <2>1, <3>1, <3>6, <3>7
  <2>6. CASE Environment
    <3>1. UNCHANGED journal /\ destroyed' = destroyed
      BY <2>6, EnvironmentWritesNothing DEF Environment, Crash, PowerLoss, Damage, Repair,
                                            ProducerReplace, ProducerRemove, world
    <3>2. Nobody'
      BY <2>0, <2>1, <2>6, OtherControl
    <3>3. QED
      BY <2>1, <3>1, <3>2 DEF journal
  <2>7. CASE Operator
    <3>1. row'.state # "REMOTE_DELETE_PENDING"
      BY <2>0, <2>1, <2>2, <2>7, OperatorWritesSo, IntentWritten DEF OperatorWrites, journal
    <3>2. Nobody'
      BY <2>0, <2>1, <2>7, OtherControl
    <3>3. destroyed' = destroyed
      BY <2>7 DEF Operator, RetryQuarantinedIngestion, ReleaseFromQuarantine,
                  RetryInPlace, RetryFailed, RetryFailedBlind, Reinstate,
                  ReinstateFails, HoldForJudgement,
                  ReinstateFromQuarantine, ValidateArtifact, ReleaseFromRetention,
                  ToggleReadOnly, Untouched
    <3>4. QED
      BY <2>1, <3>1, <3>2, <3>3
  <2>8. QED
    BY <2>3, <2>4, <2>5, <2>6, <2>7 DEF Next
<1>3. QED
  BY <1>1, <1>2

\* No object is ever deleted by a manager whose journal shows no intent
\* (remotedelete.go): not after a crash, a replayed key or a second process.
THEOREM IntentPrecedes == Spec => []IntentBeforeDelete
<1>1. Init => IntentFirst
  BY DEF Init, IntentFirst, NoRow, IdleJob
<1>2. IntentFirst => IntentBeforeDelete
  BY DEF IntentFirst, IntentBeforeDelete
<1>3. QED
  BY <1>1, <1>2, IntentStep, TypeCorrect, PTL DEF Spec

-----------------------------------------------------------------------------
(* Complete means gone.                                                    *)

\* What every step does to the record's identity and to the remote path.
IdentityKept == row'.state # "none" /\ row'.ver = row.ver

LEMMA AdvanceKeeps ==
  ASSUME row.state # "none", NEW k, NEW from, NEW to, NEW new \in Rows,
         Advance(k, from, to, new), new.ver = row.ver
  PROVE  IdentityKept
<1>1. CASE UNCHANGED journal
  BY <1>1 DEF journal, IdentityKept
<1>2. CASE Legal(from, to) /\ row' = [new EXCEPT !.state = to]
  <2>1. to # "none"
    BY <1>2 DEF Legal, States, InProgress, DurableRestorePoints, ExceptionalStates,
                QuarantineStates
  <2>2. QED
    BY <1>2, <2>1 DEF IdentityKept, Rows
<1>3. QED
  BY <1>1, <1>2, AdvanceCases

LEMMA NextKeeps ==
  ASSUME TypeOK, row.state # "none", [Next]_vars
  PROVE  IdentityKept
<1>1. CASE UNCHANGED journal
  BY <1>1 DEF journal, IdentityKept
<1>2. ~Discover
  BY DEF Discover, NoRow
<1>3. ASSUME NEW w \in Workers, Step(w) PROVE IdentityKept
  BY <1>1, <1>3, StepWrites, AdvanceKeeps DEF WritesSome, Writes
<1>4. CASE Operator
  BY <1>1, <1>4, OperatorWritesSo, AdvanceKeeps DEF OperatorWrites
<1>5. CASE Environment \/ UNCHANGED vars
  BY <1>1, <1>5, EnvironmentWritesNothing DEF vars, journal
<1>6. QED
  BY <1>2, <1>3, <1>4, <1>5 DEF Next

\* Nothing comes back to the path: what is put there was never there before.
LEMMA PathMoves ==
  ASSUME [Next]_vars, remote \in past \cup {None}
  PROVE  /\ past \subseteq past'
         /\ remote' = remote \/ remote' = None \/ remote' \notin past
         /\ remote' \in past' \cup {None}
<1>1. CASE ProducerReplace
  <2>1. PICK v \in Versions \ past : remote' = v /\ past' = past \cup {v}
    BY <1>1 DEF ProducerReplace
  <2>2. QED
    BY <2>1
<1>2. CASE Damage \/ Repair \/ ProducerRemove \/ \E w \in Workers : DeleteCall(w)
  BY <1>2 DEF Damage, Repair, ProducerRemove, DeleteCall
<1>3. QED
  BY <1>1, <1>2, WorldMoves

\* A record that is not finished becomes so only from an earned place.
LEMMA FinishedWhen ==
  ASSUME row.state \notin Finished, NEW k, NEW from, NEW to, NEW new \in Rows,
         Advance(k, from, to, new), row'.state \in Finished
  PROVE  to \in Finished /\ from \notin Finished
<1>1. row.state = from /\ row' = [new EXCEPT !.state = to]
  BY AdvanceCases DEF journal
<1>2. QED
  BY <1>1 DEF Rows

LEMMA GoneStep == TypeOK /\ GoneFirst /\ [Next]_vars => GoneFirst'
<1> SUFFICES ASSUME TypeOK, GoneFirst, [Next]_vars PROVE GoneFirst'
  OBVIOUS
<1>0. job \in [Workers -> Jobs] /\ row \in Rows /\ past \subseteq Versions
  BY DEF TypeOK
<1>1. remote \in past \cup {None} /\ None \notin past
  BY <1>0, DistinctContents DEF GoneFirst
<1>2. /\ past \subseteq past'
      /\ remote' = remote \/ remote' = None \/ remote' \notin past
      /\ remote' \in past' \cup {None}
  BY <1>1, PathMoves
<1>3. CASE row.state = "none"
  <2>1. row = NoRow /\ \A w \in Workers : At(w, "idle")
    BY <1>3 DEF GoneFirst
  <2>2. CASE Discover
    <3>1. row'.state = "DISCOVERED" /\ row'.ver = remote /\ remote # None
          /\ past' = past /\ job' = job
      BY <2>2 DEF Discover, world, NoRow
    <3>2. row'.state # "none" /\ row'.state \notin Finished /\ row'.ver \in past'
      BY <1>1, <3>1 DEF Finished
    <3>3. \A w \in Workers : ~At(w, "dcomplete")'
      BY <2>1, <3>1 DEF At
    <3>4. QED
      BY <1>2, <3>2, <3>3 DEF GoneFirst, Finished
  <2>3. CASE UNCHANGED <<row, job>>
    BY <1>2, <1>3, <2>1, <2>3 DEF GoneFirst, At
  <2>4. ASSUME NEW w \in Workers, Step(w) PROVE GoneFirst'
    <3>1. At(w, "idle") /\ row = NoRow
      BY <2>1
    <3>2. FALSE
      BY <2>4, <3>1
         DEF Step, StartCycle, Reconcile, ReconcileLost, ReconcileBlind, List,
             TransferLook, TransferCollide, TransferClaim, TransferClear, TransferCopy,
             TransferMiscopy, Copied, TransferCopyFails, TransferRecord, TransferFail,
             ToVerifying, VerifyRead, VerifyUnreadable, VerifyMismatch, VerifyAccept,
             VerifyCannot, VerifyStall, CommitBegin, CommitLink, CommitUnlink,
             CommitSync, CommitRecord, Retain, DeleteLook, DeleteIntent, DeleteStat,
             DeleteBlind, DeleteCall, DeleteRefuse, DeleteComplete, At
    <3>3. QED
      BY <3>2
  <2>5. CASE Environment
    <3>1. UNCHANGED row
      BY <2>5, EnvironmentWritesNothing DEF journal
    <3>2. \A w \in Workers : At(w, "idle")'
      BY <1>0, <2>1, <2>5, OtherControl DEF At
    <3>3. QED
      BY <1>2, <1>3, <2>1, <3>1, <3>2 DEF GoneFirst, At
  <2>6. CASE Operator
    <3>1. job' = job
      BY <2>6 DEF Operator, RetryQuarantinedIngestion, ReleaseFromQuarantine,
                  RetryInPlace, RetryFailed, RetryFailedBlind, Reinstate,
                  ReinstateFails, HoldForJudgement,
                  ReinstateFromQuarantine, ValidateArtifact, ReleaseFromRetention,
                  ToggleReadOnly, Untouched
    <3>2. UNCHANGED row
      <4>1. "none" \notin States
        BY DEF States, InProgress, DurableRestorePoints, ExceptionalStates,
               QuarantineStates
      <4>2. ASSUME NEW from \in States, NEW to \in States, NEW new \in Rows,
                   Advance(Fresh, from, to, new)
            PROVE  UNCHANGED row
        BY <1>3, <4>1, <4>2, AdvanceCases DEF journal
      <4>3. QED
        BY <2>6, <4>2, OperatorWritesSo DEF OperatorWrites, journal
    <3>3. QED
      BY <2>3, <3>1, <3>2
  <2>7. QED
    BY <2>2, <2>3, <2>4, <2>5, <2>6 DEF Next, vars
<1>4. CASE row.state # "none"
  <2>1. row.ver \in past /\ IdentityKept
    BY <1>4, NextKeeps DEF GoneFirst
  <2>2. CASE remote # row.ver
    <3>1. remote' # row'.ver
      BY <1>1, <1>2, <2>1, <2>2 DEF IdentityKept
    <3>2. QED
      BY <1>2, <2>1, <3>1 DEF GoneFirst, IdentityKept
  <2>3. CASE remote = row.ver
    <3>1. row.state \notin Finished /\ \A w \in Workers : ~At(w, "dcomplete")
      BY <2>3 DEF GoneFirst, Finished
    <3>2. remote # None
      BY <1>1, <2>1, <2>3
    <3>3. SUFFICES ASSUME remote' = row'.ver
                   PROVE  row'.state \notin Finished
                          /\ \A w \in Workers : ~At(w, "dcomplete")'
      BY <1>2, <2>1 DEF GoneFirst, IdentityKept, Finished
    <3>4. remote' # None
      BY <1>1, <2>1, <3>3 DEF IdentityKept
    <3>5. ASSUME NEW w \in Workers, Step(w)
          PROVE  row'.state \notin Finished /\ \A v \in Workers : ~At(v, "dcomplete")'
      <4>1. row'.state \notin Finished
        BY <3>1, <3>2, <3>5, StepWrites, FinishedWhen DEF WritesSome, Writes, journal
      <4>2. ~DeleteCall(w)
        BY <3>4 DEF DeleteCall
      <4>3. QED
        BY <1>0, <3>1, <3>5, <4>1, <4>2, StepControl DEF Others, At
    <3>6. CASE Operator
      <4>1. row'.state \notin Finished
        BY <3>1, <3>6, OperatorWritesSo, FinishedWhen DEF OperatorWrites, journal
      <4>2. QED
        BY <1>0, <3>1, <3>6, <4>1, OtherControl DEF At
    <3>7. CASE Environment
      BY <1>0, <3>1, <3>7, EnvironmentWritesNothing, OtherControl DEF journal, At
    <3>8. CASE UNCHANGED vars
      BY <3>1, <3>8 DEF vars, At
    <3>9. ~Discover
      BY <1>4 DEF Discover, NoRow
    <3>10. QED
      BY <3>5, <3>6, <3>7, <3>8, <3>9 DEF Next
  <2>4. QED
    BY <2>2, <2>3
<1>5. QED
  BY <1>3, <1>4

\* COMPLETE and QUARANTINED_LOST are recorded only once the discovered version
\* is gone from the remote path (remotedelete.go, reconcile.go), by whichever
\* process, and after whichever crash.
THEOREM CompleteIsGone == Spec => []CompleteMeansGone
<1>1. Init => GoneFirst
  BY DEF Init, GoneFirst, NoRow, IdleJob, At
<1>2. GoneFirst => CompleteMeansGone
  BY DEF GoneFirst, CompleteMeansGone
<1>3. QED
  BY <1>1, <1>2, GoneStep, TypeCorrect, PTL DEF Spec

\* The three orders the deletion path rests on (commit.go, remotedelete.go),
\* together: secured, then promised; intended, then deleted; gone, then complete.
THEOREM OrderKept == Spec => []EachBeforeTheNext
<1>1. Init => EachBeforeTheNext
  BY DEF Init, EachBeforeTheNext, SecuredFirst, IntentFirst, GoneFirst, NoRow, IdleJob,
         At, DurableRestorePoints
<1>2. TypeOK /\ EachBeforeTheNext /\ [Next]_vars => EachBeforeTheNext'
  BY SecuredStep, IntentStep, GoneStep DEF EachBeforeTheNext
<1>3. QED
  BY <1>1, <1>2, TypeCorrect, PTL DEF Spec

=============================================================================
