----------------------------- MODULE WorkflowRun -----------------------------
(***************************************************************************)
(* The engine that wraps a backup in its hooks (internal/workflowrun): the *)
(* five stages of a run, the startup pass over what an earlier process     *)
(* left, and the two ways an operator gets a set out of recovery.          *)
(*                                                                         *)
(* One process at a time works on the journal, and may die anywhere.  In   *)
(* it a lock per backup set lets one piece of work at a time touch a set,  *)
(* so what a set is doing is one record, and a step of it is one write to  *)
(* the journal or one call of a hook.  A request is looked at before it    *)
(* has the lock.  A write may be refused, by the journal's own tables or   *)
(* because of a fault.                                                     *)
(*                                                                         *)
(* A definition marked "Mutated:" is not part of the model.  It is the     *)
(* definition after it with one slip in it, which a property has to catch. *)
(***************************************************************************)
EXTENDS WorkflowJournal

CONSTANTS
  Bypassing,   \* may a run skip its hooks (--skip-workflow-scripts)?
  FaultKinds,  \* which of "call" (a write is refused) and "crash" happen
  MaxFaults,   \* how many of them
  MaxResumes,  \* how often an operator resumes the cleanup of one run
  MaxAsked     \* how many requests are under way at once

ASSUME EngineAssumption ==
  /\ Bypassing \in BOOLEAN
  /\ FaultKinds \subseteq {"call", "crash"}
  /\ {MaxFaults, MaxResumes, MaxAsked} \subseteq Nat

VARIABLES
  phase,    \* of the process: down, opening, axis, serving, or closed
  work,     \* what each set is doing, under its lock
  holds,    \* the sets the process refuses, as it loaded them
  asked,    \* the requests that were looked at and have no lock yet
  started,  \* how often each hook of each run was handed to its executor
  good,     \* the hooks that did exit well, by run
  resumes,  \* how often the cleanup of each run was resumed
  faults

memory == <<phase, work, holds, asked>>
ghosts == <<started, good>>
vars == <<run, obligation, row, phase, work, holds, asked, started, good, resumes, faults>>

\* What a piece of work keeps in memory: where it is, the hooks it has left in
\* the stage (or to record as skipped, and then where it goes on), and what
\* went wrong so far: in this stage (ok), for good (failed), in a cleanup
\* (bad), a scope nothing could be recorded of (owed), a hook nobody knows the
\* outcome of (lost).
Idle ==
  [at |-> "idle", kind |-> "none", run |-> 0, bypassed |-> FALSE, scope |-> "global",
   left |-> {}, hook |-> 0, then |-> "idle", entered |-> {}, ok |-> TRUE,
   failed |-> FALSE, bad |-> FALSE, owed |-> FALSE, lost |-> FALSE,
   stop |-> FALSE, cause |-> "none", seen |-> {}]

Init ==
  /\ JournalInit
  /\ phase = "down" /\ holds = {} /\ asked = {}
  /\ work = [s \in Sets |-> Idle]
  /\ started = [r \in Runs |-> [h \in Hooks |-> 0]]
  /\ good = [r \in Runs |-> {}]
  /\ resumes = [r \in Runs |-> 0]
  /\ faults = 0

Fault(kind) == kind \in FaultKinds /\ faults < MaxFaults /\ faults' = faults + 1

\* A write goes through, or the journal or a fault refuses it.
Writes(allowed) == allowed /\ UNCHANGED faults
Refused(allowed) == IF allowed THEN Fault("call") ELSE UNCHANGED faults

Working == phase \in {"serving", "closed"}
At(s, place) == Working /\ work[s].at = place
Put(s, w) == work' = [work EXCEPT ![s] = w]
First(ns) == {n \in ns : \A m \in ns : n <= m}

\* The work after recording the pending ones of hs as skipped, one by one.
SkipThen(w, hs, place) ==
  IF hs = {} THEN [w EXCEPT !.at = place, !.left = {}, !.then = "idle"]
  ELSE [w EXCEPT !.at = "skip", !.left = hs, !.then = place]
Enter(w, place, scope, phaseOf) ==
  [w EXCEPT !.at = place, !.scope = scope, !.left = HooksOf(scope, phaseOf), !.ok = TRUE]
\* After the cleanup of one scope: the other, or the end.
Beyond(w) ==
  IF w.scope = "set" THEN [w EXCEPT !.at = "owe", !.scope = "global", !.left = {}]
  ELSE [w EXCEPT !.at = IF w.kind = "run" THEN "finish" ELSE "resolve", !.left = {}]

-----------------------------------------------------------------------------
(* A process.                                                              *)

Die ==
  /\ work' = [s \in Sets |-> Idle] /\ holds' = {} /\ asked' = {}
  /\ phase' = "down"
  /\ UNCHANGED <<journal, ghosts, resumes>>

Crash == phase # "down" /\ Fault("crash") /\ Die

\* The operator stops a process that does nothing while runs are unresolved.
Concluded(r) == run[r].state \in Terminal /\ run[r].recovery \notin Outstanding
Stop ==
  /\ Working /\ \A s \in Sets : work[s].at = "idle"
  /\ \E r \in Runs : run[r].state # "none" /\ ~Concluded(r)
  /\ Die /\ UNCHANGED faults

Start ==
  /\ phase = "down" /\ phase' = "opening"
  /\ UNCHANGED <<journal, work, holds, asked, ghosts, resumes, faults>>

\* The first error of the pass ends it and closes the gate.
PassFails ==
  /\ phase \in {"opening", "axis"} /\ Fault("call")
  /\ phase' = "closed"
  /\ UNCHANGED <<journal, work, holds, asked, ghosts, resumes>>

\* Reconcile, the open runs: a run whose scopes are settled is over, any other
\* requires recovery.
ReconcileRun(r) ==
  /\ phase = "opening" /\ run[r].state \in Open
  /\ IF MayReconcile(r) THEN Reconciled(r) /\ UNCHANGED phase
     ELSE phase' = "closed" /\ UNCHANGED journal
  /\ UNCHANGED <<work, holds, asked, ghosts, resumes, faults>>
OpenDone ==
  /\ phase = "opening" /\ \A r \in Runs : run[r].state \notin Open
  /\ phase' = "axis"
  /\ UNCHANGED <<journal, work, holds, asked, ghosts, resumes, faults>>

\* reconcileRecoveryAxis: bring a run in recovery and its scopes into line.
MarkOutstanding(r, s) ==
  /\ phase = "axis" /\ run[r].recovery \in Outstanding
  /\ s \in Unsettled(r) /\ obligation[r][s] # "recovery_required"
  /\ MayOblige(r, s, "recovery_required")
  /\ obligation' = Obliged(r, s, "recovery_required")
  /\ UNCHANGED <<run, row, memory, ghosts, resumes, faults>>
SettleLeft(r) ==
  LET to == IF \E s \in Scopes : obligation[r][s] = "failed"
            THEN "cleanup_failed" ELSE "recovered" IN
  /\ phase = "axis" /\ run[r].recovery \in Outstanding /\ Unsettled(r) = {}
  /\ IF MayResolve(r, to) THEN run' = Resolved(r, to) /\ UNCHANGED phase
     ELSE phase' = "closed" /\ UNCHANGED run
  /\ UNCHANGED <<obligation, row, work, holds, asked, ghosts, resumes, faults>>

\* loadHolds at the end of the pass: from here on runs may start.
Serve ==
  /\ phase = "axis"
  /\ \A r \in Runs : run[r].recovery \in Outstanding =>
       /\ Unsettled(r) # {}
       /\ \A s \in Unsettled(r) : obligation[r][s] = "recovery_required"
  /\ phase' = "serving" /\ holds' = Owing
  /\ UNCHANGED <<journal, work, asked, ghosts, resumes, faults>>

-----------------------------------------------------------------------------
(* Requests: looked at first, then given the lock.                         *)

Fresh(s) == {r \in Runs : SetOf[r] = s /\ run[r].state = "none"}
Request(kind, s, r) == [kind |-> kind, set |-> s, run |-> r]

\* checkReady and checkNotBlocked; what ResumeCleanup and AcknowledgeRecovery
\* read of the run.
Ask(q) ==
  /\ Working /\ q \notin asked /\ Cardinality(asked) < MaxAsked
  /\ asked' = asked \cup {q}
  /\ UNCHANGED <<journal, phase, work, holds, ghosts, resumes, faults>>
AskRun(s) ==
  /\ phase = "serving" /\ s \notin holds /\ Fresh(s) # {}
  /\ Ask(Request("run", s, 0))
AskResume(r) ==
  /\ run[r].recovery = "required" /\ resumes[r] < MaxResumes
  /\ Ask(Request("resume", SetOf[r], r))
AskAck(r) == run[r].recovery \in Outstanding /\ Ask(Request("ack", SetOf[r], r))

\* The lock is taken: there is no waiting.
Busy(q) ==
  /\ q \in asked /\ work[q.set].at # "idle"
  /\ asked' = asked \ {q}
  /\ UNCHANGED <<journal, phase, work, holds, ghosts, resumes, faults>>

Acquire(q) == q \in asked /\ work[q.set].at = "idle" /\ asked' = asked \ {q}

\* runPlanned: the plan is committed before anything is done.
BeginRun(s) ==
  LET q == Request("run", s, 0) IN
  /\ Acquire(q)
  /\ \E r \in First(Fresh(s)), bypassed \in {FALSE, Bypassing} :
       \/ /\ Committed(r, bypassed)
          /\ Put(s, [Idle EXCEPT !.at = "start", !.kind = "run", !.run = r,
                       !.bypassed = bypassed,
                       !.entered = IF bypassed THEN {} ELSE {"global"}])
          /\ UNCHANGED faults
       \/ Fault("call") /\ UNCHANGED <<journal, work>>
  /\ UNCHANGED <<phase, holds, ghosts, resumes>>

\* ResumeCleanup, up to the write that says it is under way.
BeginResume(r) ==
  LET s == SetOf[r]
      may == MayAdvance(r, "cleanup_running") IN
  /\ Acquire(Request("resume", s, r))
  /\ \/ /\ Writes(may)
        /\ run' = Raised(r, "cleanup_running", "in_progress")
        /\ Put(s, [Idle EXCEPT !.at = "owe", !.kind = "resume", !.run = r, !.scope = "set"])
     \/ Refused(may) /\ UNCHANGED <<run, work>>
  /\ resumes' = [resumes EXCEPT ![r] = @ + 1]
  /\ UNCHANGED <<obligation, row, phase, holds, ghosts>>

BeginAck(r) ==
  /\ Acquire(Request("ack", SetOf[r], r))
  /\ Put(SetOf[r], [Idle EXCEPT !.at = "ack", !.kind = "ack", !.run = r])
  /\ UNCHANGED <<journal, phase, holds, ghosts, resumes, faults>>

-----------------------------------------------------------------------------
(* A run: the "before" stages and the backup.                              *)

\* What one step of a set's work leaves alone.
Only == UNCHANGED <<phase, holds, asked, resumes>>

\* runPlanned: record that it runs; abandon it when that cannot be recorded.
RecordStart(s) ==
  LET w == work[s]
      r == w.run
      may == MayAdvance(r, "running") IN
  /\ At(s, "start")
  /\ \/ /\ Writes(may) /\ run' = Advanced(r, "running")
        /\ Put(s, IF w.bypassed THEN SkipThen(w, Hooks, "backup")
                  ELSE Enter(w, "before", "global", "before"))
     \/ /\ Refused(may) /\ UNCHANGED run
        /\ Put(s, SkipThen([w EXCEPT !.failed = TRUE, !.bypassed = FALSE],
                           HooksOf("global", "before") \cup HooksOf("set", "before"), "cleanup"))
  /\ UNCHANGED <<obligation, row, ghosts>> /\ Only

\* skipStep.
SkipHook(s) ==
  LET w == work[s] IN
  /\ At(s, "skip")
  /\ \E h \in First(w.left) :
       LET may == MayMark(w.run, h, "skipped")
           on == SkipThen(w, w.left \ {h}, w.then)
       IN \/ Writes(may) /\ row' = Marked(w.run, h, "skipped") /\ Put(s, on)
          \/ Refused(may) /\ UNCHANGED row /\ Put(s, [on EXCEPT !.failed = TRUE])
  /\ UNCHANGED <<run, obligation, ghosts>> /\ Only

\* stopping: the run was cancelled, or its time is up.
StopRun(s) ==
  LET w == work[s] IN
  /\ At(s, "before") /\ ~w.stop /\ (w.scope = "global" \/ w.left # {})
  /\ \E cause \in {"canceled", "timed_out"} :
       Put(s, [w EXCEPT !.stop = TRUE, !.cause = IF @ = "canceled" THEN @ ELSE cause])
  /\ UNCHANGED <<journal, ghosts, faults>> /\ Only

\* What noteFailure and fail remember of a hook that did not succeed.
Failing(w, h, outcome) ==
  [w EXCEPT !.ok = FALSE, !.failed = TRUE,
            !.bad = @ \/ Stage[h].phase = "after",
            !.cause = IF outcome = "failed" \/ @ = "canceled" THEN @ ELSE outcome]

\* Mutated: a hook whose start cannot be recorded is run all the same.
RunHookUnrecorded(s, w, h) ==
  LET r == w.run
      on == [w EXCEPT !.left = @ \ {h}]
      may == MayMark(r, h, "running") IN
  \/ /\ Writes(may) /\ row' = Marked(r, h, "running")
     /\ started' = [started EXCEPT ![r][h] = @ + 1]
     /\ Put(s, [on EXCEPT !.at = "hook", !.hook = h])
     /\ UNCHANGED good
  \/ /\ Refused(may)
     /\ started' = [started EXCEPT ![r][h] = @ + 1]
     /\ Put(s, [on EXCEPT !.ok = FALSE, !.failed = TRUE])
     /\ UNCHANGED <<row, good>>

\* runStep, up to the executor: a hook that cannot be prepared is recorded as
\* failed, one whose start cannot be recorded is not run.
RunHook(s, w, h) ==
  LET r == w.run
      on == [w EXCEPT !.left = @ \ {h}]
      may == MayMark(r, h, "running") IN
  \/ /\ Writes(may) /\ row' = Marked(r, h, "running")
     /\ started' = [started EXCEPT ![r][h] = @ + 1]
     /\ Put(s, [on EXCEPT !.at = "hook", !.hook = h])
     /\ UNCHANGED good
  \/ /\ Refused(may)
     /\ Put(s, [on EXCEPT !.ok = FALSE, !.failed = TRUE])
     /\ UNCHANGED <<row, ghosts>>
  \/ /\ Writes(MayMark(r, h, "failed")) /\ row' = Marked(r, h, "failed")
     /\ Put(s, Failing(on, h, "failed"))
     /\ UNCHANGED ghosts

\* runStep, from the executor's answer on.
HookEnds(s) ==
  LET w == work[s]
      r == w.run
      h == w.hook
      on == [w EXCEPT !.at = Stage[h].phase, !.hook = 0] IN
  /\ At(s, "hook")
  /\ \E outcome \in {"success", "failed", "timed_out", "canceled"} :
       LET to == IF outcome = "success" THEN "success" ELSE "failed"
           may == MayMark(r, h, to)
       IN /\ good' = IF outcome = "success" THEN [good EXCEPT ![r] = @ \cup {h}] ELSE good
          /\ \/ /\ Writes(may) /\ row' = Marked(r, h, to)
                /\ Put(s, IF outcome = "success" THEN on ELSE Failing(on, h, outcome))
             \/ /\ Refused(may) /\ UNCHANGED row
                /\ Put(s, [on EXCEPT !.failed = TRUE, !.ok = @ /\ outcome = "success"])
  /\ UNCHANGED <<run, obligation, started>> /\ Only

\* runStage: after a hook that failed, or once stopping, the rest is skipped.
BeforeHook(s) ==
  LET w == work[s] IN
  /\ At(s, "before") /\ w.ok /\ ~w.stop
  /\ \E h \in First(w.left) : RunHook(s, w, h)
  /\ UNCHANGED <<run, obligation>> /\ Only
BeforeSkips(s) ==
  LET w == work[s] IN
  /\ At(s, "before") /\ w.left # {} /\ (~w.ok \/ w.stop)
  /\ Put(s, SkipThen(w, w.left, "before"))
  /\ UNCHANGED <<journal, ghosts, faults>> /\ Only

\* execute: what follows a "before" stage.
BeforeDone(s) ==
  LET w == work[s] IN
  /\ At(s, "before") /\ w.left = {}
  /\ Put(s, CASE w.scope = "global" /\ w.ok /\ ~w.stop -> [w EXCEPT !.at = "enter"]
              [] w.scope = "global" /\ ~(w.ok /\ ~w.stop) ->
                   SkipThen(w, HooksOf("set", "before"), "cleanup")
              [] w.scope = "set" -> [w EXCEPT !.at = IF w.ok THEN "backup" ELSE "cleanup"])
  /\ UNCHANGED <<journal, ghosts, faults>> /\ Only

\* Mutated: the scope is entered in memory alone.
EnterSetScopeUnrecorded(s) ==
  LET w == work[s] IN
  /\ At(s, "enter")
  /\ Put(s, Enter([w EXCEPT !.entered = @ \cup {"set"}], "before", "set", "before"))
  /\ UNCHANGED <<journal, ghosts, faults>> /\ Only

\* enterSetScope: the promise is recorded before the first hook of the scope.
EnterSetScope(s) ==
  LET w == work[s]
      may == MayOblige(w.run, "set", "eligible") IN
  /\ At(s, "enter")
  /\ \/ /\ Writes(may) /\ obligation' = Obliged(w.run, "set", "eligible")
        /\ Put(s, Enter([w EXCEPT !.entered = @ \cup {"set"}], "before", "set", "before"))
     \/ /\ Refused(may) /\ UNCHANGED obligation
        /\ Put(s, SkipThen([w EXCEPT !.failed = TRUE], HooksOf("set", "before"), "cleanup"))
  /\ UNCHANGED <<run, row, ghosts>> /\ Only

\* runBackup: the backup is the caller's, and may be what notices the stop.
Backup(s) ==
  LET w == work[s] IN
  /\ At(s, "backup")
  /\ \E result \in {"success", "failed"}, cause \in {"none", "canceled", "timed_out"} :
       LET on == [w EXCEPT !.at = "cleanup", !.failed = @ \/ result = "failed",
                           !.cause = IF @ = "canceled" \/ cause = "none" THEN @ ELSE cause]
           recorded == [run EXCEPT ![w.run].backup = result]
       IN /\ result = "success" => cause = "none"
          /\ \/ run' = recorded /\ Put(s, on) /\ UNCHANGED faults
             \/ Fault("call") /\ run' \in {run, recorded} /\ Put(s, [on EXCEPT !.failed = TRUE])
  /\ UNCHANGED <<obligation, row, ghosts>> /\ Only

-----------------------------------------------------------------------------
(* The cleanup: of a run, or of one that is resumed.                       *)

\* runCleanup.
CleanupStarts(s) ==
  LET w == [work[s] EXCEPT !.at = "owe", !.scope = "set"]
      may == MayAdvance(w.run, "cleanup_running") IN
  /\ At(s, "cleanup")
  /\ \/ Writes(may) /\ run' = Advanced(w.run, "cleanup_running") /\ Put(s, w)
     \/ Refused(may) /\ UNCHANGED run /\ Put(s, [w EXCEPT !.failed = TRUE])
  /\ UNCHANGED <<obligation, row, ghosts>> /\ Only

\* runCleanupScope and resumeScope: is this scope owed anything?
Owes(w) ==
  IF w.kind = "run" THEN w.scope \in w.entered
  ELSE obligation[w.run][w.scope] = "recovery_required"

PassOver(s) ==
  LET w == work[s]
      on == Beyond(w)
      skipped == IF w.kind = "run" /\ ~w.bypassed THEN HooksOf(w.scope, "after") ELSE {} IN
  /\ At(s, "owe") /\ ~Owes(w)
  /\ Put(s, SkipThen(on, skipped, on.at))
  /\ UNCHANGED <<journal, ghosts, faults>> /\ Only

TakeUp(s) ==
  LET w == work[s]
      may == MayOblige(w.run, w.scope, "running") IN
  /\ At(s, "owe") /\ Owes(w)
  /\ \/ /\ Writes(may) /\ obligation' = Obliged(w.run, w.scope, "running")
        /\ Put(s, [Enter(w, "after", w.scope, "after") EXCEPT !.lost = FALSE])
     \/ /\ Refused(may) /\ UNCHANGED obligation
        /\ Put(s, IF w.kind = "run"
                  THEN [w EXCEPT !.at = "declare", !.failed = TRUE, !.bad = TRUE, !.owed = TRUE]
                  ELSE Beyond([w EXCEPT !.failed = TRUE]))
  /\ UNCHANGED <<run, row, ghosts>> /\ Only

\* The scope whose cleanup could not be recorded as started.
Declare(s) ==
  LET w == work[s]
      may == MayOblige(w.run, w.scope, "recovery_required") IN
  /\ At(s, "declare")
  /\ \/ Writes(may) /\ obligation' = Obliged(w.run, w.scope, "recovery_required")
     \/ Refused(may) /\ UNCHANGED obligation
  /\ Put(s, Beyond(w))
  /\ UNCHANGED <<run, row, ghosts>> /\ Only

\* A resume runs what never started; of the rest it takes the row's word.
Known(r, h) == row[r][h] # "pending"

AfterHook(s) ==
  LET w == work[s] IN
  /\ At(s, "after")
  /\ \E h \in First(w.left) :
       /\ w.kind = "resume" => ~Known(w.run, h)
       /\ RunHook(s, w, h)
  /\ UNCHANGED <<run, obligation>> /\ Only
AfterKnown(s) ==
  LET w == work[s] IN
  /\ At(s, "after") /\ w.kind = "resume"
  /\ \E h \in First(w.left) :
       LET was == row[w.run][h]
       IN /\ Known(w.run, h)
          /\ Put(s, [w EXCEPT !.left = @ \ {h}, !.ok = @ /\ was = "success",
                              !.lost = @ \/ was = "interrupted",
                              !.bad = @ \/ was \notin {"success", "interrupted"}])
  /\ UNCHANGED <<journal, ghosts, faults>> /\ Only

\* Mutated: a scope is settled by having been through it.
OutcomeOfPass(w) == IF w.lost THEN "recovery_required" ELSE "success"

\* What a scope's cleanup came to.
Outcome(w) ==
  IF w.lost THEN "recovery_required" ELSE IF w.ok THEN "success" ELSE "failed"

SettleScope(s) ==
  LET w == work[s]
      on == Beyond([w EXCEPT !.bad = @ \/ (w.kind = "resume" /\ Outcome(w) = "failed")])
      may == MayOblige(w.run, w.scope, Outcome(w)) IN
  /\ At(s, "after") /\ w.left = {}
  /\ \/ /\ Writes(may) /\ obligation' = Obliged(w.run, w.scope, Outcome(w))
        /\ Put(s, on)
     \/ Refused(may) /\ UNCHANGED obligation /\ Put(s, [on EXCEPT !.failed = TRUE])
  /\ UNCHANGED <<run, row, ghosts>> /\ Only

-----------------------------------------------------------------------------
(* The end of a run, of a resume and of an acknowledgement.                *)

\* finish: the run's verdict, by what takes precedence.
FinalState(w) ==
  CASE w.owed -> "recovery_required"
    [] ~w.owed /\ w.cause # "none" -> w.cause
    [] ~w.owed /\ w.cause = "none" /\ w.bad -> "cleanup_failed"
    [] OTHER -> IF w.failed THEN "failed" ELSE "success"

Finish(s) ==
  LET w == work[s]
      to == FinalState(w)
      may == MayAdvance(w.run, to) IN
  /\ At(s, "finish")
  /\ \/ Writes(may) /\ run' = IF w.owed THEN Raised(w.run, to, "required") ELSE Advanced(w.run, to)
     \/ Refused(may) /\ UNCHANGED run
  /\ Put(s, IF w.owed THEN [Idle EXCEPT !.at = "load"] ELSE Idle)
  /\ UNCHANGED <<obligation, row, ghosts>> /\ Only

\* loadHolds: read what is owed, of every set, and then make it the holds.
LoadHolds(s) ==
  /\ At(s, "load")
  /\ \/ Put(s, [work[s] EXCEPT !.at = "store", !.seen = Owing]) /\ UNCHANGED faults
     \/ Fault("call") /\ Put(s, Idle)
  /\ UNCHANGED <<journal, ghosts>> /\ Only
StoreHolds(s) ==
  /\ At(s, "store")
  /\ holds' = work[s].seen /\ Put(s, Idle)
  /\ UNCHANGED <<journal, phase, asked, ghosts, resumes, faults>>

\* settleRecovery: resolved, or back to where it can be asked for again.
ResolveResumed(s) ==
  LET w == work[s]
      to == IF w.bad THEN "cleanup_failed" ELSE "recovered"
      may == MayResolve(w.run, to) IN
  /\ At(s, "resolve") /\ w.kind = "resume"
  /\ \/ Writes(may) /\ run' = Resolved(w.run, to) /\ Put(s, [w EXCEPT !.at = "statuses"])
     \/ Unsettled(w.run) # {} /\ UNCHANGED <<run, faults>> /\ Put(s, [w EXCEPT !.at = "giveback"])
     \/ Unsettled(w.run) = {} /\ Refused(may) /\ UNCHANGED run /\ Put(s, Idle)
  /\ UNCHANGED <<obligation, row, ghosts>> /\ Only
GiveBack(s) ==
  LET w == work[s]
      may == MayAdvance(w.run, "recovery_required") IN
  /\ At(s, "giveback")
  /\ \/ /\ Writes(may) /\ run' = Raised(w.run, "recovery_required", "required")
        /\ Put(s, [Idle EXCEPT !.at = "load"])
     \/ Refused(may) /\ UNCHANGED run /\ Put(s, Idle)
  /\ UNCHANGED <<obligation, row, ghosts>> /\ Only

\* AcknowledgeRecovery: every scope nobody accounted for, and then the run.
AckScope(s) ==
  LET w == work[s]
      r == w.run
      scope == IF "global" \in Unsettled(r) THEN "global" ELSE "set"
      may == MayOblige(r, scope, "acknowledged") IN
  /\ At(s, "ack") /\ Unsettled(r) # {}
  /\ \/ Writes(may) /\ obligation' = Obliged(r, scope, "acknowledged") /\ UNCHANGED work
     \/ Refused(may) /\ UNCHANGED obligation /\ Put(s, Idle)
  /\ UNCHANGED <<run, row, ghosts>> /\ Only
AckResolve(s) ==
  LET w == work[s]
      may == MayResolve(w.run, "recovered") IN
  /\ At(s, "ack") /\ Unsettled(w.run) = {}
  /\ \/ Writes(may) /\ run' = Resolved(w.run, "recovered") /\ Put(s, [w EXCEPT !.at = "statuses"])
     \/ Refused(may) /\ UNCHANGED run /\ Put(s, Idle)
  /\ UNCHANGED <<obligation, row, ghosts>> /\ Only

\* The run's statuses, after a resolution; without them the holds stay.
Statuses(s) ==
  /\ At(s, "statuses")
  /\ \/ Put(s, [Idle EXCEPT !.at = "load"]) /\ UNCHANGED faults
     \/ Fault("call") /\ Put(s, Idle)
  /\ UNCHANGED <<journal, ghosts>> /\ Only

-----------------------------------------------------------------------------

WorkStep(s) ==
  \/ RecordStart(s) \/ SkipHook(s) \/ BeforeHook(s) \/ BeforeSkips(s) \/ HookEnds(s)
  \/ BeforeDone(s) \/ EnterSetScope(s) \/ Backup(s)
  \/ CleanupStarts(s) \/ PassOver(s) \/ TakeUp(s) \/ Declare(s)
  \/ AfterHook(s) \/ AfterKnown(s) \/ SettleScope(s)
  \/ Finish(s) \/ LoadHolds(s) \/ StoreHolds(s)
  \/ ResolveResumed(s) \/ GiveBack(s) \/ AckScope(s) \/ AckResolve(s) \/ Statuses(s)

Startup ==
  \/ Start \/ OpenDone \/ Serve
  \/ \E r \in Runs : ReconcileRun(r) \/ SettleLeft(r) \/ \E s \in Scopes : MarkOutstanding(r, s)

Requests ==
  \/ \E s \in Sets : AskRun(s) \/ BeginRun(s)
  \/ \E r \in Runs : AskResume(r) \/ AskAck(r) \/ BeginResume(r) \/ BeginAck(r)
  \/ \E q \in asked : Busy(q)

Next == Crash \/ Stop \/ PassFails \/ Startup \/ Requests \/ \E s \in Sets : WorkStep(s) \/ StopRun(s)

Spec == Init /\ [][Next]_vars

\* A process that is down is started and does its work; who is told that a run
\* requires recovery acknowledges it, again if need be, and who finds a run
\* unresolved that nothing is done about starts the process anew.
Fairness ==
  /\ WF_vars(Startup) /\ SF_vars(Stop)
  /\ \A s \in Sets : WF_vars(WorkStep(s))
  /\ \A r \in Runs : SF_vars(AskAck(r)) /\ SF_vars(BeginAck(r))
FairSpec == Spec /\ Fairness

-----------------------------------------------------------------------------
(* What the engine promises.                                               *)

Places ==
  {"idle", "start", "skip", "before", "hook", "enter", "backup", "cleanup", "owe", "declare",
   "after", "finish", "load", "store", "resolve", "giveback", "ack", "statuses"}
Kinds == {"none", "run", "resume", "ack"}
Causes == {"none", "canceled", "timed_out"}
WorkTypes ==
  {w \in [at : Places, kind : Kinds, run : Runs \cup {0}, bypassed : BOOLEAN, scope : Scopes,
          left : SUBSET Hooks, hook : Hooks \cup {0}, then : Places \ {"hook"},
          entered : SUBSET Scopes, ok : BOOLEAN, failed : BOOLEAN, bad : BOOLEAN,
          owed : BOOLEAN, lost : BOOLEAN, stop : BOOLEAN, cause : Causes, seen : SUBSET Sets] :
     w.at = "hook" => w.hook \in Hooks}

\* Every variable has the values the actions mean it to have.
TypeOK ==
  /\ run \in [Runs -> RunRows]
  /\ obligation \in [Runs -> [Scopes -> ObligationStates]]
  /\ row \in [Runs -> [Hooks -> RowStates]]
  /\ phase \in {"down", "opening", "axis", "serving", "closed"}
  /\ work \in [Sets -> WorkTypes]
  /\ holds \subseteq Sets
  /\ asked \subseteq [kind : {"run", "resume", "ack"}, set : Sets, run : Runs \cup {0}]
  /\ started \in [Runs -> [Hooks -> Nat]]
  /\ good \in [Runs -> SUBSET Hooks]
  /\ resumes \in [Runs -> Nat] /\ faults \in Nat

\* A hook is handed to its executor once in the life of its run, whatever died
\* in between and however often the cleanup is resumed (recovery.go,
\* ResumeCleanup: a hook that was interrupted is not run again).
HooksRunOnce == \A r \in Runs, h \in Hooks : started[r][h] <= 1

\* A scope one of whose hooks has been started owes its cleanup on record, and
\* no run is closed over a scope nobody accounted for (engine.go,
\* enterSetScope; workflowlifecycle.go, checkTerminalIsAccountedFor).
CleanupIsOwed ==
  \A r \in Runs :
    /\ \A h \in Hooks : started[r][h] > 0 =>
         obligation[r][Stage[h].scope] # "never_eligible"
    /\ run[r].state \in Terminal => Unsettled(r) = {}

\* Success is never claimed for what did not happen: a scope whose cleanup is
\* on record as successful had every one of its "after" hooks exit well, and a
\* run that succeeded had no hook that did not (engine.go, finish; recovery.go,
\* finishedRunAdvance and resumeScope).
SuccessIsEarned ==
  \A r \in Runs :
    /\ \A s \in Scopes : obligation[r][s] = "success" => HooksOf(s, "after") \subseteq good[r]
    /\ run[r].state = "success" => \A h \in Hooks : started[r][h] > 0 => h \in good[r]

\* What is in recovery gets out of it by a person alone: only a resume takes a
\* scope up again, and only an acknowledgement writes it off; the passes of a
\* restart and the runs of other plans never do (doc.go, "Recovery is never
\* automatic").
OnlyAPersonClears ==
  [][\A r \in Runs, s \in Scopes :
       obligation[r][s] = "recovery_required" /\ obligation'[r][s] # "recovery_required" =>
         /\ work[SetOf[r]].run = r
         /\ \/ work[SetOf[r]].kind = "resume" /\ obligation'[r][s] = "running"
            \/ work[SetOf[r]].kind = "ack" /\ obligation'[r][s] = "acknowledged"]_vars

\* The startup pass cannot give a run the verdict it reads from its rows.
NoVerdict(r) ==
  \/ run[r].state \in Open /\ ~MayReconcile(r)
  \/ run[r].recovery \in Outstanding /\ Unsettled(r) = {} /\ run[r].state \in Terminal

\* A run that was begun is closed in the end and out of recovery, whatever died
\* and was refused on the way, unless it is one that no startup pass can settle
\* (recovery.go, Reconcile and AcknowledgeRecovery; NoThirdCase shows such a run).
Concludes ==
  \/ \A r \in Runs : run[r].state # "none" ~> Concluded(r)
  \/ <>[](\E r \in Runs : NoVerdict(r))

\* A process finds of every run its predecessor left either that all is settled
\* or what requires recovery, and the journal takes it down (doc.go, "There is
\* no third case").
NoThirdCase == phase = "opening" => \A r \in Runs : run[r].state \in Open => MayReconcile(r)

=============================================================================
