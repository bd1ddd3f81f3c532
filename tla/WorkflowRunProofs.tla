-------------------------- MODULE WorkflowRunProofs --------------------------
(***************************************************************************)
(* Theorems about WorkflowRun: its types, that a hook runs once, and that  *)
(* what is owed is on record.                                              *)
(***************************************************************************)
EXTENDS WorkflowRun, TLAPS

LEMMA Names ==
  /\ \A x \in {"idle", "start", "skip", "before", "hook", "enter", "backup", "cleanup", "owe",
                "declare", "after", "finish", "load", "store", "resolve", "giveback", "ack",
                "statuses"} : x \in Places /\ (x # "hook" => x \in Places \ {"hook"})
  /\ \A x \in {"none", "run", "resume", "ack"} : x \in Kinds
  /\ \A x \in {"none", "canceled", "timed_out"} : x \in Causes
  /\ "global" \in Scopes /\ "set" \in Scopes
  BY DEF Places, Kinds, Causes, Scopes

LEMMA IdleTyped == Idle \in WorkTypes
  BY Names DEF Idle, WorkTypes

LEMMA SkipThenTyped ==
  ASSUME NEW w \in WorkTypes, NEW hs \in SUBSET Hooks, NEW place \in Places \ {"hook"}
  PROVE  SkipThen(w, hs, place) \in WorkTypes
  BY Names DEF SkipThen, WorkTypes

LEMMA EnterTyped ==
  ASSUME NEW w \in WorkTypes, NEW place \in Places \ {"hook"}, NEW scope \in Scopes, NEW phaseOf
  PROVE  Enter(w, place, scope, phaseOf) \in WorkTypes
  BY DEF Enter, WorkTypes, HooksOf

LEMMA BeyondTyped ==
  ASSUME NEW w \in WorkTypes
  PROVE  Beyond(w) \in WorkTypes
<1>1. [w EXCEPT !.at = "owe", !.scope = "global", !.left = {}] \in WorkTypes
  BY Names DEF WorkTypes
<1>2. \A place \in Places \ {"hook"} : [w EXCEPT !.at = place, !.left = {}] \in WorkTypes
  BY DEF WorkTypes
<1> QED
  BY <1>1, <1>2, Names DEF Beyond

LEMMA FailingTyped ==
  ASSUME NEW w \in WorkTypes, NEW h, NEW outcome \in {"failed", "timed_out", "canceled"}
  PROVE  Failing(w, h, outcome) \in WorkTypes
<1> DEFINE bad == w.bad \/ Stage[h].phase = "after"
           cause == IF outcome = "failed" \/ w.cause = "canceled" THEN w.cause ELSE outcome
<1>1. bad \in BOOLEAN
  OBVIOUS
<1>2. cause \in Causes
  BY Names DEF WorkTypes
<1>3. Failing(w, h, outcome) = [w EXCEPT !.ok = FALSE, !.failed = TRUE, !.bad = bad, !.cause = cause]
  BY DEF Failing
<1> HIDE DEF bad, cause
<1>4. \A b \in BOOLEAN, c \in Causes :
        [w EXCEPT !.ok = FALSE, !.failed = TRUE, !.bad = b, !.cause = c] \in WorkTypes
  BY DEF WorkTypes
<1> QED
  BY <1>1, <1>2, <1>3, <1>4

LEMMA JournalNames ==
  /\ \A x \in {"none", "pending", "running", "cleanup_running", "recovery_required", "success",
                "failed", "timed_out", "canceled", "cleanup_failed", "recovered"} :
       x \in RunStates
  /\ \A x \in {"never_eligible", "eligible", "running", "success", "failed",
                "recovery_required", "acknowledged"} : x \in ObligationStates
  /\ \A x \in {"pending", "running", "success", "failed", "skipped", "interrupted"} :
       x \in RowStates
  BY DEF RunStates, ObligationStates, RowStates

LEMMA AdvancedTyped ==
  ASSUME run \in [Runs -> RunRows], NEW r, NEW to \in RunStates
  PROVE  Advanced(r, to) \in [Runs -> RunRows]
  BY DEF Advanced, RunRows

LEMMA RaisedTyped ==
  ASSUME run \in [Runs -> RunRows], NEW r, NEW to \in RunStates,
         NEW recovery \in {"none", "resolved"} \cup Outstanding
  PROVE  Raised(r, to, recovery) \in [Runs -> RunRows]
  BY DEF Raised, RunRows

LEMMA ObligedTyped ==
  ASSUME obligation \in [Runs -> [Scopes -> ObligationStates]], NEW r, NEW s,
         NEW to \in ObligationStates
  PROVE  Obliged(r, s, to) \in [Runs -> [Scopes -> ObligationStates]]
  BY DEF Obliged

LEMMA MarkedTyped ==
  ASSUME row \in [Runs -> [Hooks -> RowStates]], NEW r, NEW h, NEW to \in RowStates
  PROVE  Marked(r, h, to) \in [Runs -> [Hooks -> RowStates]]
  BY DEF Marked

LEMMA PutTyped ==
  ASSUME work \in [Sets -> WorkTypes], NEW s \in Sets, NEW w \in WorkTypes, Put(s, w)
  PROVE  work' \in [Sets -> WorkTypes]
  BY DEF Put

LEMMA ReconciledTyped ==
  ASSUME TypeOK, NEW r \in Runs, Reconciled(r)
  PROVE  /\ run' \in [Runs -> RunRows]
         /\ obligation' \in [Runs -> [Scopes -> ObligationStates]]
         /\ row' \in [Runs -> [Hooks -> RowStates]]
<1>1. Verdict(r) \in RunStates
  BY JournalNames DEF Verdict
<1>2. Interrupted(r) \in [Hooks -> RowStates]
  BY JournalNames DEF Interrupted, TypeOK
<1>3. CASE Unsettled(r) = {}
  BY <1>1, <1>3, AdvancedTyped DEF Reconciled, TypeOK
<1>4. CASE Unsettled(r) # {}
  <2>1. Raised(r, "recovery_required", "required") \in [Runs -> RunRows]
    BY JournalNames, RaisedTyped DEF TypeOK, Outstanding
  <2>2. [s \in Scopes |-> IF s \in Unsettled(r) THEN "recovery_required" ELSE obligation[r][s]]
          \in [Scopes -> ObligationStates]
    BY JournalNames DEF TypeOK
  <2> QED
    BY <1>2, <1>4, <2>1, <2>2 DEF Reconciled, TypeOK
<1> QED
  BY <1>3, <1>4
(***************************************************************************)
(* Types: one lemma for each group of actions.                             *)
(***************************************************************************)

LEMMA StartupTyped ==
  ASSUME TypeOK, Startup
  PROVE  TypeOK'
<1>1. CASE Start \/ OpenDone \/ Serve
  <2>1. Owing \subseteq Sets
    BY PlanAssumption DEF Owing
  <2> QED
    BY <1>1, <2>1 DEF Start, OpenDone, Serve, journal, ghosts, TypeOK
<1>2. ASSUME NEW r \in Runs, ReconcileRun(r)
      PROVE  TypeOK'
  <2>1. /\ run' \in [Runs -> RunRows]
        /\ obligation' \in [Runs -> [Scopes -> ObligationStates]]
        /\ row' \in [Runs -> [Hooks -> RowStates]]
    BY <1>2, ReconciledTyped DEF ReconcileRun, journal, TypeOK
  <2> QED
    BY <1>2, <2>1 DEF ReconcileRun, ghosts, TypeOK
<1>3. ASSUME NEW r \in Runs, SettleLeft(r)
      PROVE  TypeOK'
  <2>1. \/ run' = Raised(r, "cleanup_failed", "resolved")
        \/ run' = Raised(r, "recovered", "resolved")
        \/ run' = run
    BY <1>3 DEF SettleLeft, Resolved
  <2>2. \A to \in {"cleanup_failed", "recovered"} :
          Raised(r, to, "resolved") \in [Runs -> RunRows]
    BY JournalNames, RaisedTyped DEF TypeOK
  <2>3. run' \in [Runs -> RunRows]
    BY <2>1, <2>2 DEF TypeOK
  <2> QED
    BY <1>3, <2>3 DEF SettleLeft, ghosts, TypeOK
<1>4. ASSUME NEW r \in Runs, NEW c \in Scopes, MarkOutstanding(r, c)
      PROVE  TypeOK'
  <2>1. obligation' \in [Runs -> [Scopes -> ObligationStates]]
    BY <1>4, JournalNames, ObligedTyped DEF MarkOutstanding, TypeOK
  <2> QED
    BY <1>4, <2>1 DEF MarkOutstanding, memory, ghosts, TypeOK
<1> QED
  BY <1>1, <1>2, <1>3, <1>4 DEF Startup

LEMMA FaultTyped ==
  ASSUME TypeOK
  PROVE  /\ \A kind : Fault(kind) => faults' \in Nat
         /\ \A b : Writes(b) => faults' \in Nat
         /\ \A b : Refused(b) => faults' \in Nat
  BY EngineAssumption DEF Fault, Writes, Refused, TypeOK

LEMMA ProcessTyped ==
  ASSUME TypeOK, Crash \/ Stop \/ PassFails
  PROVE  TypeOK'
<1>1. CASE Crash \/ Stop
  BY <1>1, FaultTyped, IdleTyped DEF Crash, Stop, Die, journal, ghosts, TypeOK
<1>2. CASE PassFails
  BY <1>2, FaultTyped DEF PassFails, journal, ghosts, TypeOK
<1> QED
  BY <1>1, <1>2

LEMMA RequestsTyped ==
  ASSUME TypeOK, Requests
  PROVE  TypeOK'
<1> DEFINE Asks == [kind : {"run", "resume", "ack"}, set : Sets, run : Runs \cup {0}]
<1>1. ASSUME NEW q \in Asks, Ask(q)
      PROVE  TypeOK'
  BY <1>1 DEF Ask, journal, ghosts, TypeOK
<1>2. ASSUME NEW q, Busy(q)
      PROVE  TypeOK'
  BY <1>2 DEF Busy, journal, ghosts, TypeOK
<1>3. \A r \in Runs : SetOf[r] \in Sets
  BY PlanAssumption
<1>4. ASSUME NEW s \in Sets, BeginRun(s)
      PROVE  TypeOK'
  <2>1. PICK r \in First(Fresh(s)), bypassed \in {FALSE, Bypassing} :
          \/ /\ Committed(r, bypassed)
             /\ Put(s, [Idle EXCEPT !.at = "start", !.kind = "run", !.run = r,
                          !.bypassed = bypassed,
                          !.entered = IF bypassed THEN {} ELSE {"global"}])
             /\ UNCHANGED faults
          \/ Fault("call") /\ UNCHANGED <<journal, work>>
    BY <1>4 DEF BeginRun
  <2>2. r \in Runs /\ bypassed \in BOOLEAN
    BY EngineAssumption DEF First, Fresh
  <2> DEFINE entered == IF bypassed THEN {} ELSE {"global"}
             w == [Idle EXCEPT !.at = "start", !.kind = "run", !.run = r,
                               !.bypassed = bypassed, !.entered = entered]
  <2>3. entered \in SUBSET Scopes
    BY Names
  <2>4. w \in WorkTypes
    <3> HIDE DEF entered
    <3> QED BY <2>2, <2>3, IdleTyped, Names DEF WorkTypes
  <2>5. /\ asked' \subseteq asked
        /\ UNCHANGED <<phase, holds, row, started, good, resumes>>
    BY <1>4, <2>1 DEF BeginRun, Acquire, Committed, ghosts, journal
  <2>6. CASE Committed(r, bypassed) /\ Put(s, w) /\ UNCHANGED faults
    <3>1. run' \in [Runs -> RunRows]
      BY <2>6, AdvancedTyped, JournalNames DEF Committed, TypeOK
    <3>2. obligation' \in [Runs -> [Scopes -> ObligationStates]]
      BY <2>6, JournalNames DEF Committed, TypeOK
    <3>3. work' \in [Sets -> WorkTypes]
      <4> HIDE DEF w
      <4> QED BY <2>4, <2>6, PutTyped DEF TypeOK
    <3> QED
      BY <2>5, <2>6, <3>1, <3>2, <3>3 DEF TypeOK
  <2>7. CASE Fault("call") /\ UNCHANGED <<journal, work>>
    BY <2>5, <2>7, FaultTyped DEF journal, TypeOK
  <2> QED
    BY <2>1, <2>6, <2>7
<1>5. ASSUME NEW r \in Runs, BeginResume(r)
      PROVE  TypeOK'
  <2> DEFINE w == [Idle EXCEPT !.at = "owe", !.kind = "resume", !.run = r, !.scope = "set"]
  <2>1. w \in WorkTypes
    BY IdleTyped, Names DEF WorkTypes
  <2>2. work' \in [Sets -> WorkTypes]
    <3>1. Put(SetOf[r], w) \/ UNCHANGED work
      BY <1>5 DEF BeginResume
    <3> HIDE DEF w
    <3> QED
      BY <1>3, <2>1, <3>1, PutTyped DEF TypeOK
  <2>3. run' \in [Runs -> RunRows]
    <3>1. run' = Raised(r, "cleanup_running", "in_progress") \/ UNCHANGED run
      BY <1>5 DEF BeginResume
    <3> QED
      BY <3>1, JournalNames, RaisedTyped DEF Outstanding, TypeOK
  <2>4. faults' \in Nat
    BY <1>5, FaultTyped DEF BeginResume
  <2>5. resumes' \in [Runs -> Nat]
    BY <1>5 DEF BeginResume, TypeOK
  <2> QED
    BY <1>5, <2>2, <2>3, <2>4, <2>5 DEF BeginResume, Acquire, ghosts, TypeOK
<1>6. ASSUME NEW r \in Runs, BeginAck(r)
      PROVE  TypeOK'
  <2> DEFINE w == [Idle EXCEPT !.at = "ack", !.kind = "ack", !.run = r]
  <2>1. w \in WorkTypes
    BY IdleTyped, Names DEF WorkTypes
  <2>2. work' \in [Sets -> WorkTypes]
    <3>1. Put(SetOf[r], w)
      BY <1>6 DEF BeginAck
    <3> HIDE DEF w
    <3> QED
      BY <1>3, <2>1, <3>1, PutTyped DEF TypeOK
  <2> QED
    BY <1>6, <2>2 DEF BeginAck, Acquire, journal, ghosts, TypeOK
<1> QED
  BY <1>1, <1>2, <1>3, <1>4, <1>5, <1>6 DEF Requests, AskRun, AskResume, AskAck, Request

(***************************************************************************)
(* Types: a step of a set's work.                                          *)
(***************************************************************************)

LEMMA WorkTyped ==
  ASSUME TypeOK, NEW s \in Sets
  PROVE  work[s] \in WorkTypes
  BY DEF TypeOK

\* What a step has to show when all it does beyond its writes is Only.
LEMMA OnlyTyped ==
  ASSUME TypeOK, Only,
         run' \in [Runs -> RunRows],
         obligation' \in [Runs -> [Scopes -> ObligationStates]],
         row' \in [Runs -> [Hooks -> RowStates]],
         work' \in [Sets -> WorkTypes],
         started' \in [Runs -> [Hooks -> Nat]],
         good' \in [Runs -> SUBSET Hooks],
         faults' \in Nat
  PROVE  TypeOK'
  BY DEF Only, TypeOK

LEMMA RunHookTyped ==
  ASSUME TypeOK, NEW s \in Sets, NEW w \in WorkTypes, NEW h \in Hooks, RunHook(s, w, h)
  PROVE  /\ row' \in [Runs -> [Hooks -> RowStates]]
         /\ work' \in [Sets -> WorkTypes]
         /\ started' \in [Runs -> [Hooks -> Nat]]
         /\ good' \in [Runs -> SUBSET Hooks]
         /\ faults' \in Nat
<1> DEFINE on == [w EXCEPT !.left = @ \ {h}]
           hooking == [on EXCEPT !.at = "hook", !.hook = h]
           missed == [on EXCEPT !.ok = FALSE, !.failed = TRUE]
<1>1. on \in WorkTypes /\ hooking \in WorkTypes /\ missed \in WorkTypes
  BY Names DEF WorkTypes
<1>2. Failing(on, h, "failed") \in WorkTypes
  BY <1>1, FailingTyped
<1>3. faults' \in Nat
  BY FaultTyped DEF RunHook
<1>4. work' \in [Sets -> WorkTypes]
  <2>1. Put(s, hooking) \/ Put(s, missed) \/ Put(s, Failing(on, h, "failed"))
    BY DEF RunHook
  <2> HIDE DEF on, hooking, missed
  <2> QED
    BY <1>1, <1>2, <2>1, PutTyped DEF TypeOK
<1>5. row' \in [Runs -> [Hooks -> RowStates]]
  <2>1. \/ row' = Marked(w.run, h, "running")
        \/ row' = Marked(w.run, h, "failed")
        \/ row' = row
    BY DEF RunHook
  <2> QED
    BY <2>1, MarkedTyped, JournalNames DEF TypeOK
<1>6. started' \in [Runs -> [Hooks -> Nat]]
  <2>1. started' = [started EXCEPT ![w.run][h] = @ + 1] \/ started' = started
    BY DEF RunHook, ghosts
  <2>2. \A r \in Runs : [started[r] EXCEPT ![h] = @ + 1] \in [Hooks -> Nat]
    BY DEF TypeOK
  <2>3. [started EXCEPT ![w.run][h] = @ + 1] \in [Runs -> [Hooks -> Nat]]
    BY <2>2 DEF TypeOK
  <2> QED
    BY <2>1, <2>3 DEF TypeOK
<1>7. good' \in [Runs -> SUBSET Hooks]
  BY DEF RunHook, ghosts, TypeOK
<1> QED
  BY <1>3, <1>4, <1>5, <1>6, <1>7

\* The steps that only change the work, and maybe meet a fault.
LEMMA PlainStepTyped ==
  ASSUME TypeOK, NEW s \in Sets, NEW w \in WorkTypes, Put(s, w), Only, faults' \in Nat,
         UNCHANGED <<run, obligation, row, started, good>>
  PROVE  TypeOK'
  BY OnlyTyped, PutTyped DEF TypeOK

\* The steps that make a run's row advance, as far as it is allowed.
LEMMA AdvanceStepTyped ==
  ASSUME TypeOK, NEW s \in Sets, NEW w \in WorkTypes, Put(s, w), Only, faults' \in Nat,
         UNCHANGED <<obligation, row, started, good>>,
         run' \in [Runs -> RunRows]
  PROVE  TypeOK'
  BY OnlyTyped, PutTyped DEF TypeOK

\* The steps that make a scope's obligation advance, as far as it is allowed.
LEMMA ObligeStepTyped ==
  ASSUME TypeOK, NEW s \in Sets, NEW w \in WorkTypes, Put(s, w), Only, faults' \in Nat,
         UNCHANGED <<run, row, started, good>>,
         NEW r, NEW c, NEW to \in ObligationStates,
         obligation' = Obliged(r, c, to) \/ obligation' = obligation
  PROVE  TypeOK'
<1>1. obligation' \in [Runs -> [Scopes -> ObligationStates]]
  BY ObligedTyped DEF TypeOK
<1> QED
  BY <1>1, OnlyTyped, PutTyped DEF TypeOK

LEMMA BeforeTyped ==
  ASSUME TypeOK, NEW s \in Sets,
         RecordStart(s) \/ BeforeSkips(s) \/ BeforeDone(s) \/ StopRun(s) \/ BeforeHook(s)
  PROVE  TypeOK'
<1> DEFINE w == work[s]
<1>1. w \in WorkTypes
  BY WorkTyped
<1>2. /\ HooksOf("global", "before") \in SUBSET Hooks
      /\ HooksOf("set", "before") \in SUBSET Hooks
  BY DEF HooksOf
<1>3. /\ [w EXCEPT !.failed = TRUE, !.bypassed = FALSE] \in WorkTypes
      /\ \A at \in {"enter", "backup", "cleanup"} : [w EXCEPT !.at = at] \in WorkTypes
  BY <1>1, Names DEF WorkTypes
<1> HIDE DEF w
<1>4. CASE RecordStart(s)
  <2> DEFINE run1 == SkipThen(w, Hooks, "backup")
             run2 == Enter(w, "before", "global", "before")
             run3 == SkipThen([w EXCEPT !.failed = TRUE, !.bypassed = FALSE],
                              HooksOf("global", "before") \cup HooksOf("set", "before"), "cleanup")
  <2>1. run1 \in WorkTypes /\ run2 \in WorkTypes /\ run3 \in WorkTypes
    BY <1>1, <1>2, <1>3, SkipThenTyped, EnterTyped, Names
  <2>2. Put(s, run1) \/ Put(s, run2) \/ Put(s, run3)
    BY <1>4 DEF RecordStart, w
  <2>3. run' \in [Runs -> RunRows]
    BY <1>4, AdvancedTyped, JournalNames DEF RecordStart, TypeOK
  <2>4. faults' \in Nat /\ Only /\ UNCHANGED <<obligation, row, started, good>>
    BY <1>4, FaultTyped DEF RecordStart, ghosts
  <2> HIDE DEF run1, run2, run3
  <2> QED
    BY <2>1, <2>2, <2>3, <2>4, AdvanceStepTyped
<1>5. CASE BeforeSkips(s)
  <2>1. Put(s, SkipThen(w, w.left, "before"))
    BY <1>5 DEF BeforeSkips, w
  <2>2. SkipThen(w, w.left, "before") \in WorkTypes
    BY <1>1, SkipThenTyped, Names DEF WorkTypes
  <2>3. faults' \in Nat /\ Only /\ UNCHANGED <<run, obligation, row, started, good>>
    BY <1>5 DEF BeforeSkips, ghosts, journal, TypeOK
  <2> QED
    BY <2>1, <2>2, <2>3, PlainStepTyped
<1>6. CASE BeforeDone(s)
  <2>1. \/ Put(s, [w EXCEPT !.at = "enter"])
        \/ Put(s, SkipThen(w, HooksOf("set", "before"), "cleanup"))
        \/ Put(s, [w EXCEPT !.at = "backup"])
        \/ Put(s, [w EXCEPT !.at = "cleanup"])
    <3>1. w.scope \in {"global", "set"}
      BY <1>1 DEF WorkTypes, Scopes
    <3> QED
      BY <1>6, <3>1 DEF BeforeDone, w
  <2>2. SkipThen(w, HooksOf("set", "before"), "cleanup") \in WorkTypes
    BY <1>1, <1>2, SkipThenTyped, Names
  <2>3. faults' \in Nat /\ Only /\ UNCHANGED <<run, obligation, row, started, good>>
    BY <1>6 DEF BeforeDone, ghosts, journal, TypeOK
  <2> QED
    BY <1>3, <2>1, <2>2, <2>3, PlainStepTyped
<1>7. CASE StopRun(s)
  <2>1. PICK cause \in {"canceled", "timed_out"} :
          Put(s, [w EXCEPT !.stop = TRUE, !.cause = IF @ = "canceled" THEN @ ELSE cause])
    BY <1>7 DEF StopRun, w
  <2>2. [w EXCEPT !.stop = TRUE, !.cause = IF @ = "canceled" THEN @ ELSE cause] \in WorkTypes
    BY <1>1, Names DEF WorkTypes
  <2>3. faults' \in Nat /\ Only /\ UNCHANGED <<run, obligation, row, started, good>>
    BY <1>7 DEF StopRun, ghosts, journal, TypeOK
  <2> QED
    BY <2>1, <2>2, <2>3, PlainStepTyped
<1>8. CASE BeforeHook(s)
  <2>1. PICK h \in First(w.left) : RunHook(s, w, h)
    BY <1>8 DEF BeforeHook, w
  <2>2. h \in Hooks
    BY <1>1 DEF First, WorkTypes
  <2>3. Only /\ UNCHANGED <<run, obligation>>
    BY <1>8 DEF BeforeHook
  <2> QED
    BY <1>1, <2>1, <2>2, <2>3, RunHookTyped, OnlyTyped DEF TypeOK
<1> QED
  BY <1>4, <1>5, <1>6, <1>7, <1>8

LEMMA MiddleTyped ==
  ASSUME TypeOK, NEW s \in Sets,
         SkipHook(s) \/ HookEnds(s) \/ EnterSetScope(s) \/ Backup(s) \/ CleanupStarts(s)
  PROVE  TypeOK'
<1> DEFINE w == work[s]
<1>1. w \in WorkTypes
  BY WorkTyped
<1>2. /\ HooksOf("set", "before") \in SUBSET Hooks
      /\ [w EXCEPT !.failed = TRUE] \in WorkTypes
      /\ [w EXCEPT !.entered = @ \cup {"set"}] \in WorkTypes
      /\ [w EXCEPT !.at = "owe", !.scope = "set"] \in WorkTypes
      /\ [[w EXCEPT !.at = "owe", !.scope = "set"] EXCEPT !.failed = TRUE] \in WorkTypes
  BY <1>1, Names DEF HooksOf, WorkTypes
<1> HIDE DEF w
<1>3. CASE SkipHook(s)
  <2>1. PICK h \in First(w.left) :
          LET may == MayMark(w.run, h, "skipped")
              on == SkipThen(w, w.left \ {h}, w.then)
          IN \/ Writes(may) /\ row' = Marked(w.run, h, "skipped") /\ Put(s, on)
             \/ Refused(may) /\ UNCHANGED row /\ Put(s, [on EXCEPT !.failed = TRUE])
    BY <1>3 DEF SkipHook, w
  <2> DEFINE on == SkipThen(w, w.left \ {h}, w.then)
             off == [on EXCEPT !.failed = TRUE]
  <2>2. on \in WorkTypes
    BY <1>1, SkipThenTyped DEF WorkTypes
  <2> HIDE DEF on
  <2>3. off \in WorkTypes
    BY <2>2 DEF WorkTypes
  <2> HIDE DEF off
  <2>4. Put(s, on) \/ Put(s, off)
    BY <2>1 DEF on, off
  <2>5. row' \in [Runs -> [Hooks -> RowStates]]
    BY <2>1, MarkedTyped, JournalNames DEF TypeOK
  <2>6. Only /\ UNCHANGED <<run, obligation, started, good>>
    BY <1>3 DEF SkipHook, ghosts
  <2>7. faults' \in Nat
    BY <2>1, FaultTyped
  <2>8. work' \in [Sets -> WorkTypes]
    BY <2>2, <2>3, <2>4, PutTyped DEF TypeOK
  <2> QED
    BY <2>5, <2>6, <2>7, <2>8, OnlyTyped DEF TypeOK
<1>4. CASE HookEnds(s)
  <2> DEFINE h == w.hook
             on == [w EXCEPT !.at = Stage[h].phase, !.hook = 0]
  <2>1. PICK outcome \in {"success", "failed", "timed_out", "canceled"} :
       LET to == IF outcome = "success" THEN "success" ELSE "failed"
           may == MayMark(w.run, h, to)
       IN /\ good' = IF outcome = "success" THEN [good EXCEPT ![w.run] = @ \cup {h}] ELSE good
          /\ \/ /\ Writes(may) /\ row' = Marked(w.run, h, to)
                /\ Put(s, IF outcome = "success" THEN on ELSE Failing(on, h, outcome))
             \/ /\ Refused(may) /\ UNCHANGED row
                /\ Put(s, [on EXCEPT !.failed = TRUE, !.ok = @ /\ outcome = "success"])
    BY <1>4 DEF HookEnds, w
  <2>2. h \in Hooks
    BY <1>1, <1>4 DEF HookEnds, At, w, WorkTypes
  <2>3. on \in WorkTypes
    <3>1. Stage[h].phase \in {"before", "after"}
      BY <2>2, PlanAssumption DEF Phases
    <3> QED
      BY <1>1, <3>1, Names DEF WorkTypes
  <2> HIDE DEF on
  <2> DEFINE off == [on EXCEPT !.failed = TRUE, !.ok = @ /\ outcome = "success"]
  <2>4. off \in WorkTypes
    <3> DEFINE ok == on.ok /\ outcome = "success"
    <3>1. ok \in BOOLEAN /\ off = [on EXCEPT !.failed = TRUE, !.ok = ok]
      OBVIOUS
    <3> HIDE DEF ok, off
    <3> QED
      BY <2>3, <3>1 DEF WorkTypes
  <2> HIDE DEF off
  <2>5. work' \in [Sets -> WorkTypes]
    <3>1. Put(s, on) \/ Put(s, off) \/ (outcome # "success" /\ Put(s, Failing(on, h, outcome)))
      BY <2>1 DEF on, off
    <3>2. outcome # "success" => Failing(on, h, outcome) \in WorkTypes
      BY <2>3, FailingTyped
    <3> QED
      BY <2>3, <2>4, <3>1, <3>2, PutTyped DEF TypeOK
  <2>6. row' \in [Runs -> [Hooks -> RowStates]]
    <3>1. \A to \in {"success", "failed"} : Marked(w.run, h, to) \in [Runs -> [Hooks -> RowStates]]
      BY MarkedTyped, JournalNames DEF TypeOK
    <3> QED
      BY <2>1, <3>1 DEF TypeOK
  <2>7. good' \in [Runs -> SUBSET Hooks]
    BY <2>1, <2>2 DEF TypeOK
  <2>8. Only /\ UNCHANGED <<run, obligation, started>>
    BY <1>4 DEF HookEnds
  <2>9. faults' \in Nat
    BY <2>1, FaultTyped
  <2> QED
    BY <2>5, <2>6, <2>7, <2>8, <2>9, OnlyTyped DEF TypeOK
<1>5. CASE EnterSetScope(s)
  <2> DEFINE in == [w EXCEPT !.entered = @ \cup {"set"}]
             on == Enter(in, "before", "set", "before")
             off == SkipThen([w EXCEPT !.failed = TRUE], HooksOf("set", "before"), "cleanup")
  <2>1. on \in WorkTypes /\ off \in WorkTypes
    BY <1>2, EnterTyped, SkipThenTyped, Names
  <2>2. (Put(s, on) \/ Put(s, off)) /\ (obligation' = Obliged(w.run, "set", "eligible") \/ obligation' = obligation)
    BY <1>5 DEF EnterSetScope, w
  <2>3. faults' \in Nat /\ Only /\ UNCHANGED <<run, row, started, good>>
    BY <1>5, FaultTyped DEF EnterSetScope, ghosts
  <2> HIDE DEF on, off
  <2> QED
    BY <2>1, <2>2, <2>3, ObligeStepTyped, JournalNames
<1>6. CASE Backup(s)
  <2>1. PICK result \in {"success", "failed"}, cause \in {"none", "canceled", "timed_out"} :
       LET on == [w EXCEPT !.at = "cleanup", !.failed = @ \/ result = "failed",
                           !.cause = IF @ = "canceled" \/ cause = "none" THEN @ ELSE cause]
           recorded == [run EXCEPT ![w.run].backup = result]
       IN \/ run' = recorded /\ Put(s, on) /\ UNCHANGED faults
          \/ Fault("call") /\ run' \in {run, recorded} /\ Put(s, [on EXCEPT !.failed = TRUE])
    BY <1>6 DEF Backup, w
  <2> DEFINE failed == w.failed \/ result = "failed"
             why == IF w.cause = "canceled" \/ cause = "none" THEN w.cause ELSE cause
             on == [w EXCEPT !.at = "cleanup", !.failed = failed, !.cause = why]
             off == [on EXCEPT !.failed = TRUE]
  <2>2. on \in WorkTypes /\ off \in WorkTypes
    <3>1. failed \in BOOLEAN /\ why \in Causes
      BY <1>1, Names DEF WorkTypes
    <3> HIDE DEF failed, why
    <3> QED
      BY <1>1, <3>1, Names DEF WorkTypes
  <2>3. Put(s, on) \/ Put(s, off)
    BY <2>1
  <2>4. run' \in [Runs -> RunRows]
    <3>1. [run EXCEPT ![w.run].backup = result] \in [Runs -> RunRows]
      BY DEF TypeOK, RunRows
    <3> QED
      BY <2>1, <3>1 DEF TypeOK
  <2>5. faults' \in Nat /\ Only /\ UNCHANGED <<obligation, row, started, good>>
    BY <1>6, <2>1, FaultTyped DEF Backup, ghosts, TypeOK
  <2> HIDE DEF on, off
  <2> QED
    BY <2>2, <2>3, <2>4, <2>5, AdvanceStepTyped
<1>7. CASE CleanupStarts(s)
  <2> DEFINE on == [w EXCEPT !.at = "owe", !.scope = "set"]
             off == [on EXCEPT !.failed = TRUE]
  <2>1. Put(s, on) \/ Put(s, off)
    BY <1>7 DEF CleanupStarts, w
  <2>2. run' \in [Runs -> RunRows]
    BY <1>7, AdvancedTyped, JournalNames DEF CleanupStarts, TypeOK
  <2>3. faults' \in Nat /\ Only /\ UNCHANGED <<obligation, row, started, good>>
    BY <1>7, FaultTyped DEF CleanupStarts, ghosts
  <2>4. on \in WorkTypes /\ off \in WorkTypes
    BY <1>2
  <2> HIDE DEF on, off
  <2> QED
    BY <2>1, <2>2, <2>3, <2>4, AdvanceStepTyped
<1> QED
  BY <1>3, <1>4, <1>5, <1>6, <1>7

LEMMA CleanupTyped ==
  ASSUME TypeOK, NEW s \in Sets,
         PassOver(s) \/ TakeUp(s) \/ Declare(s) \/ AfterHook(s) \/ AfterKnown(s) \/ SettleScope(s)
  PROVE  TypeOK'
<1> DEFINE w == work[s]
<1>1. w \in WorkTypes
  BY WorkTyped
<1>2. \A c \in Scopes : HooksOf(c, "after") \in SUBSET Hooks
  BY DEF HooksOf
<1>3. w.scope \in Scopes /\ w.left \in SUBSET Hooks
  BY <1>1 DEF WorkTypes
<1> HIDE DEF w
<1>4. CASE PassOver(s)
  <2> DEFINE on == Beyond(w)
             skipped == IF w.kind = "run" /\ ~w.bypassed THEN HooksOf(w.scope, "after") ELSE {}
  <2>1. on \in WorkTypes /\ on.at \in Places \ {"hook"}
    <3>1. on.at \in {"owe", "finish", "resolve"}
      BY <1>1 DEF Beyond, WorkTypes
    <3> QED
      BY <1>1, <3>1, BeyondTyped, Names
  <2>2. skipped \in SUBSET Hooks
    BY <1>2, <1>3
  <2>3. Put(s, SkipThen(on, skipped, on.at))
    BY <1>4 DEF PassOver, w
  <2>4. faults' \in Nat /\ Only /\ UNCHANGED <<run, obligation, row, started, good>>
    BY <1>4 DEF PassOver, journal, ghosts, TypeOK
  <2> HIDE DEF on, skipped
  <2> QED
    BY <2>1, <2>2, <2>3, <2>4, SkipThenTyped, PlainStepTyped
<1>5. CASE TakeUp(s)
  <2> DEFINE in == Enter(w, "after", w.scope, "after")
             on == [in EXCEPT !.lost = FALSE]
             off == [w EXCEPT !.at = "declare", !.failed = TRUE, !.bad = TRUE, !.owed = TRUE]
             past == Beyond([w EXCEPT !.failed = TRUE])
  <2>1. on \in WorkTypes
    <3>1. in \in WorkTypes
      BY <1>1, <1>3, EnterTyped, Names
    <3> HIDE DEF in
    <3> QED
      BY <3>1 DEF WorkTypes
  <2>2. off \in WorkTypes /\ past \in WorkTypes
    <3>1. [w EXCEPT !.failed = TRUE] \in WorkTypes /\ off \in WorkTypes
      BY <1>1, Names DEF WorkTypes
    <3> QED
      BY <3>1, BeyondTyped
  <2>3. /\ Put(s, on) \/ Put(s, off) \/ Put(s, past)
        /\ obligation' = Obliged(w.run, w.scope, "running") \/ obligation' = obligation
    BY <1>5 DEF TakeUp, w
  <2>4. faults' \in Nat /\ Only /\ UNCHANGED <<run, row, started, good>>
    BY <1>5, FaultTyped DEF TakeUp, ghosts
  <2> HIDE DEF on, off, past
  <2> QED
    BY <2>1, <2>2, <2>3, <2>4, ObligeStepTyped, JournalNames
<1>6. CASE Declare(s)
  <2>1. /\ Put(s, Beyond(w))
        /\ obligation' = Obliged(w.run, w.scope, "recovery_required") \/ obligation' = obligation
    BY <1>6 DEF Declare, w
  <2>2. faults' \in Nat /\ Only /\ UNCHANGED <<run, row, started, good>>
    BY <1>6, FaultTyped DEF Declare, ghosts
  <2> QED
    BY <1>1, <2>1, <2>2, BeyondTyped, ObligeStepTyped, JournalNames
<1>7. CASE AfterHook(s)
  <2>1. PICK h \in First(w.left) : RunHook(s, w, h)
    BY <1>7 DEF AfterHook, w
  <2>2. h \in Hooks
    BY <1>3 DEF First
  <2>3. Only /\ UNCHANGED <<run, obligation>>
    BY <1>7 DEF AfterHook
  <2> QED
    BY <1>1, <2>1, <2>2, <2>3, RunHookTyped, OnlyTyped DEF TypeOK
<1>8. CASE AfterKnown(s)
  <2>1. PICK h \in First(w.left) :
          LET was == row[w.run][h]
          IN Put(s, [w EXCEPT !.left = @ \ {h}, !.ok = @ /\ was = "success",
                              !.lost = @ \/ was = "interrupted",
                              !.bad = @ \/ was \notin {"success", "interrupted"}])
    BY <1>8 DEF AfterKnown, w
  <2> DEFINE was == row[w.run][h]
             ok == w.ok /\ was = "success"
             lost == w.lost \/ was = "interrupted"
             bad == w.bad \/ was \notin {"success", "interrupted"}
             on == [w EXCEPT !.left = @ \ {h}, !.ok = ok, !.lost = lost, !.bad = bad]
  <2>2. Put(s, on)
    BY <2>1
  <2>3. on \in WorkTypes
    <3>1. ok \in BOOLEAN /\ lost \in BOOLEAN /\ bad \in BOOLEAN
      OBVIOUS
    <3> HIDE DEF ok, lost, bad
    <3> QED
      BY <1>1, <3>1 DEF WorkTypes
  <2>4. faults' \in Nat /\ Only /\ UNCHANGED <<run, obligation, row, started, good>>
    BY <1>8 DEF AfterKnown, journal, ghosts, TypeOK
  <2> HIDE DEF on
  <2> QED
    BY <2>2, <2>3, <2>4, PlainStepTyped
<1>9. CASE SettleScope(s)
  <2> DEFINE bad == w.bad \/ (w.kind = "resume" /\ Outcome(w) = "failed")
             on == Beyond([w EXCEPT !.bad = bad])
             off == [on EXCEPT !.failed = TRUE]
  <2>1. on \in WorkTypes /\ off \in WorkTypes
    <3>1. bad \in BOOLEAN
      BY <1>1 DEF WorkTypes
    <3> HIDE DEF bad
    <3>2. [w EXCEPT !.bad = bad] \in WorkTypes
      BY <1>1, <3>1 DEF WorkTypes
    <3>3. on \in WorkTypes
      BY <3>2, BeyondTyped
    <3> HIDE DEF on
    <3> QED
      BY <3>3 DEF WorkTypes
  <2>2. /\ Put(s, on) \/ Put(s, off)
        /\ obligation' = Obliged(w.run, w.scope, Outcome(w)) \/ obligation' = obligation
    BY <1>9 DEF SettleScope, w
  <2>3. faults' \in Nat /\ Only /\ UNCHANGED <<run, row, started, good>>
    BY <1>9, FaultTyped DEF SettleScope, ghosts
  <2>4. Outcome(w) \in ObligationStates
    BY JournalNames DEF Outcome
  <2> HIDE DEF on, off
  <2> QED
    BY <2>1, <2>2, <2>3, <2>4, ObligeStepTyped
<1> QED
  BY <1>4, <1>5, <1>6, <1>7, <1>8, <1>9

LEMMA EndTyped ==
  ASSUME TypeOK, NEW s \in Sets,
         \/ Finish(s) \/ LoadHolds(s) \/ StoreHolds(s) \/ ResolveResumed(s) \/ GiveBack(s)
         \/ AckScope(s) \/ AckResolve(s) \/ Statuses(s)
  PROVE  TypeOK'
<1> DEFINE w == work[s]
<1>1. w \in WorkTypes
  BY WorkTyped
<1>2. /\ [Idle EXCEPT !.at = "load"] \in WorkTypes
      /\ \A at \in {"statuses", "giveback"} : [w EXCEPT !.at = at] \in WorkTypes
  BY <1>1, IdleTyped, Names DEF WorkTypes
<1>3. Owing \in SUBSET Sets
  BY PlanAssumption DEF Owing
<1>4. \A to \in {"success", "failed", "timed_out", "canceled", "cleanup_failed", "recovered",
                 "recovery_required"} :
        /\ Advanced(w.run, to) \in [Runs -> RunRows]
        /\ Raised(w.run, to, "required") \in [Runs -> RunRows]
        /\ Resolved(w.run, to) \in [Runs -> RunRows]
  BY AdvancedTyped, RaisedTyped, JournalNames DEF Resolved, Outstanding, TypeOK
<1> HIDE DEF w
<1>5. CASE Finish(s)
  <2>1. FinalState(w) \in {"success", "failed", "timed_out", "canceled", "cleanup_failed",
                           "recovery_required"}
    BY <1>1 DEF FinalState, WorkTypes, Causes
  <2>2. run' \in [Runs -> RunRows]
    BY <1>4, <1>5, <2>1 DEF Finish, w, TypeOK
  <2>3. Put(s, [Idle EXCEPT !.at = "load"]) \/ Put(s, Idle)
    BY <1>5 DEF Finish
  <2>4. faults' \in Nat /\ Only /\ UNCHANGED <<obligation, row, started, good>>
    BY <1>5, FaultTyped DEF Finish, ghosts
  <2> QED
    BY <1>2, <2>2, <2>3, <2>4, AdvanceStepTyped, IdleTyped
<1>6. CASE LoadHolds(s)
  <2>1. [w EXCEPT !.at = "store", !.seen = Owing] \in WorkTypes
    BY <1>1, <1>3, Names DEF WorkTypes
  <2>2. Put(s, [w EXCEPT !.at = "store", !.seen = Owing]) \/ Put(s, Idle)
    BY <1>6 DEF LoadHolds, w
  <2>3. faults' \in Nat /\ Only /\ UNCHANGED <<run, obligation, row, started, good>>
    BY <1>6, FaultTyped DEF LoadHolds, journal, ghosts, TypeOK
  <2> QED
    BY <2>1, <2>2, <2>3, PlainStepTyped, IdleTyped
<1>7. CASE StoreHolds(s)
  <2>1. w.seen \in SUBSET Sets
    BY <1>1 DEF WorkTypes
  <2>2. work' \in [Sets -> WorkTypes]
    BY <1>7, IdleTyped, PutTyped DEF StoreHolds, TypeOK
  <2> QED
    BY <1>7, <2>1, <2>2 DEF StoreHolds, journal, ghosts, w, TypeOK
<1>8. CASE ResolveResumed(s)
  <2>1. run' \in [Runs -> RunRows]
    BY <1>4, <1>8 DEF ResolveResumed, w, TypeOK
  <2>2. Put(s, [w EXCEPT !.at = "statuses"]) \/ Put(s, [w EXCEPT !.at = "giveback"]) \/ Put(s, Idle)
    BY <1>8 DEF ResolveResumed, w
  <2>3. faults' \in Nat /\ Only /\ UNCHANGED <<obligation, row, started, good>>
    BY <1>8, FaultTyped DEF ResolveResumed, ghosts, TypeOK
  <2> QED
    BY <1>2, <2>1, <2>2, <2>3, AdvanceStepTyped, IdleTyped
<1>9. CASE GiveBack(s)
  <2>1. run' \in [Runs -> RunRows]
    BY <1>4, <1>9 DEF GiveBack, w, TypeOK
  <2>2. Put(s, [Idle EXCEPT !.at = "load"]) \/ Put(s, Idle)
    BY <1>9 DEF GiveBack
  <2>3. faults' \in Nat /\ Only /\ UNCHANGED <<obligation, row, started, good>>
    BY <1>9, FaultTyped DEF GiveBack, ghosts
  <2> QED
    BY <1>2, <2>1, <2>2, <2>3, AdvanceStepTyped, IdleTyped
<1>10. CASE AckScope(s)
  <2>1. PICK c : obligation' = Obliged(w.run, c, "acknowledged") \/ obligation' = obligation
    BY <1>10 DEF AckScope, w
  <2>2. obligation' \in [Runs -> [Scopes -> ObligationStates]]
    BY <2>1, ObligedTyped, JournalNames DEF TypeOK
  <2>3. work' \in [Sets -> WorkTypes]
    BY <1>10, IdleTyped, PutTyped DEF AckScope, TypeOK
  <2>4. faults' \in Nat /\ Only /\ UNCHANGED <<run, row, started, good>>
    BY <1>10, FaultTyped DEF AckScope, ghosts
  <2> QED
    BY <2>2, <2>3, <2>4, OnlyTyped DEF TypeOK
<1>11. CASE AckResolve(s)
  <2>1. run' \in [Runs -> RunRows]
    BY <1>4, <1>11 DEF AckResolve, w, TypeOK
  <2>2. Put(s, [w EXCEPT !.at = "statuses"]) \/ Put(s, Idle)
    BY <1>11 DEF AckResolve, w
  <2>3. faults' \in Nat /\ Only /\ UNCHANGED <<obligation, row, started, good>>
    BY <1>11, FaultTyped DEF AckResolve, ghosts
  <2> QED
    BY <1>2, <2>1, <2>2, <2>3, AdvanceStepTyped, IdleTyped
<1>12. CASE Statuses(s)
  <2>1. Put(s, [Idle EXCEPT !.at = "load"]) \/ Put(s, Idle)
    BY <1>12 DEF Statuses
  <2>2. faults' \in Nat /\ Only /\ UNCHANGED <<run, obligation, row, started, good>>
    BY <1>12, FaultTyped DEF Statuses, journal, ghosts, TypeOK
  <2> QED
    BY <1>2, <2>1, <2>2, PlainStepTyped, IdleTyped
<1> QED
  BY <1>5, <1>6, <1>7, <1>8, <1>9, <1>10, <1>11, <1>12

LEMMA WorkStepTyped ==
  ASSUME TypeOK, NEW s \in Sets, WorkStep(s) \/ StopRun(s)
  PROVE  TypeOK'
  BY BeforeTyped, MiddleTyped, CleanupTyped, EndTyped DEF WorkStep

LEMMA InitTyped ==
  ASSUME Init
  PROVE  TypeOK
<1>1. NoRow \in RunRows
  BY JournalNames DEF NoRow, RunRows
<1>2. /\ run \in [Runs -> RunRows]
      /\ obligation \in [Runs -> [Scopes -> ObligationStates]]
      /\ row \in [Runs -> [Hooks -> RowStates]]
  BY <1>1, JournalNames DEF Init, JournalInit
<1>3. work \in [Sets -> WorkTypes]
  BY IdleTyped DEF Init
<1> QED
  BY <1>2, <1>3 DEF Init, TypeOK

LEMMA NextTyped ==
  ASSUME TypeOK, [Next]_vars
  PROVE  TypeOK'
<1>1. CASE Next
  BY <1>1, ProcessTyped, StartupTyped, RequestsTyped, WorkStepTyped DEF Next
<1>2. CASE UNCHANGED vars
  BY <1>2 DEF vars, TypeOK
<1> QED
  BY <1>1, <1>2

\* The engine keeps to the types: every row, every piece of work and every
\* request has the values the code gives it (WorkflowRun's actions; engine.go
\* and recovery.go).
THEOREM WorkTypesHold == Spec => []TypeOK
<1>1. Init => TypeOK
  BY InitTyped
<1>2. TypeOK /\ [Next]_vars => TypeOK'
  BY NextTyped
<1> QED
  BY <1>1, <1>2, PTL DEF Spec

(***************************************************************************)
(* A hook runs once: no row becomes pending again, and only a pending one  *)
(* is run.                                                                 *)
(***************************************************************************)

RanOnce ==
  \A r \in Runs, h \in Hooks :
    started[r][h] <= 1 /\ (row[r][h] = "pending" => started[r][h] = 0)

LEMMA NoRowNoHook ==
  ASSUME RanOnce, UNCHANGED <<row, started>>
  PROVE  RanOnce'
  BY DEF RanOnce

LEMMA MarkedRanOnce ==
  ASSUME TypeOK, RanOnce, NEW r, NEW h, NEW to, to # "pending",
         row' = Marked(r, h, to) \/ row' = row, UNCHANGED started
  PROVE  RanOnce'
<1>1. ASSUME NEW q \in Runs, NEW g \in Hooks
      PROVE  row'[q][g] = row[q][g] \/ row'[q][g] # "pending"
  <2>1. row \in [Runs -> [Hooks -> RowStates]]
    BY DEF TypeOK
  <2> QED
    BY <2>1 DEF Marked
<1> QED
  BY <1>1 DEF RanOnce

LEMMA RunHookRanOnce ==
  ASSUME TypeOK, RanOnce, NEW s, NEW w, NEW h \in Hooks, RunHook(s, w, h)
  PROVE  RanOnce'
<1> DEFINE r == w.run
<1>1. CASE /\ MayMark(r, h, "running") /\ row' = Marked(r, h, "running")
           /\ started' = [started EXCEPT ![r][h] = @ + 1]
  <2>1. r \in Runs => started[r][h] = 0
    <3> HAVE r \in Runs
    <3>1. row[r][h] = "pending"
      BY <1>1 DEF MayMark, RowFollows
    <3> QED
      BY <3>1 DEF RanOnce
  <2>2. ASSUME NEW q \in Runs, NEW g \in Hooks
        PROVE  started'[q][g] <= 1 /\ (row'[q][g] = "pending" => started'[q][g] = 0)
    <3>1. CASE q = r /\ g = h
      <4>1. started'[q][g] = started[q][g] + 1
        BY <1>1, <3>1 DEF TypeOK
      <4>2. row'[q][g] = "running"
        BY <1>1, <3>1 DEF Marked, TypeOK
      <4> QED
        BY <2>1, <3>1, <4>1, <4>2
    <3>2. CASE ~(q = r /\ g = h)
      <4>1. started'[q][g] = started[q][g]
        BY <1>1, <3>2 DEF TypeOK
      <4>2. row'[q][g] = row[q][g]
        BY <1>1, <3>2 DEF Marked, TypeOK
      <4> QED
        BY <4>1, <4>2 DEF RanOnce
    <3> QED
      BY <3>1, <3>2
  <2> QED
    BY <2>2 DEF RanOnce
<1>2. CASE UNCHANGED started /\ (row' = Marked(r, h, "failed") \/ row' = row)
  BY <1>2, MarkedRanOnce
<1> QED
  BY <1>1, <1>2 DEF RunHook, Writes, ghosts

LEMMA StartupRanOnce ==
  ASSUME TypeOK, RanOnce, Startup
  PROVE  RanOnce'
<1>1. CASE UNCHANGED <<row, started>>
  BY <1>1, NoRowNoHook
<1>2. ASSUME NEW r \in Runs, ReconcileRun(r)
      PROVE  RanOnce'
  <2>1. UNCHANGED started
    BY <1>2 DEF ReconcileRun, ghosts
  <2>2. row' = row \/ row' = [row EXCEPT ![r] = Interrupted(r)]
    BY <1>2 DEF ReconcileRun, Reconciled, journal
  <2>3. \A h \in Hooks : Interrupted(r)[h] = "pending" => row[r][h] = "pending"
    BY DEF Interrupted
  <2> QED
    BY <2>1, <2>2, <2>3 DEF RanOnce, TypeOK
<1> QED
  BY <1>1, <1>2 DEF Startup, Start, OpenDone, Serve, SettleLeft, MarkOutstanding, journal, ghosts

LEMMA WorkStepRanOnce ==
  ASSUME TypeOK, RanOnce, NEW s \in Sets, WorkStep(s) \/ StopRun(s)
  PROVE  RanOnce'
<1>1. CASE UNCHANGED <<row, started>>
  BY <1>1, NoRowNoHook
<1>2. CASE SkipHook(s)
  <2>1. PICK h : row' = Marked(work[s].run, h, "skipped") \/ row' = row
    BY <1>2 DEF SkipHook
  <2> QED
    BY <1>2, <2>1, MarkedRanOnce DEF SkipHook, ghosts
<1>3. CASE HookEnds(s)
  <2>1. \/ row' = Marked(work[s].run, work[s].hook, "success")
        \/ row' = Marked(work[s].run, work[s].hook, "failed")
        \/ row' = row
    BY <1>3 DEF HookEnds
  <2> QED
    BY <1>3, <2>1, MarkedRanOnce DEF HookEnds
<1>4. CASE BeforeHook(s) \/ AfterHook(s)
  <2>1. PICK h \in First(work[s].left) : RunHook(s, work[s], h)
    BY <1>4 DEF BeforeHook, AfterHook
  <2>2. h \in Hooks
    BY WorkTyped DEF First, WorkTypes
  <2> QED
    BY <2>1, <2>2, RunHookRanOnce
<1>5. CASE \/ RecordStart(s) \/ BeforeSkips(s) \/ BeforeDone(s) \/ EnterSetScope(s) \/ Backup(s)
           \/ CleanupStarts(s) \/ PassOver(s) \/ TakeUp(s) \/ Declare(s) \/ AfterKnown(s)
           \/ SettleScope(s) \/ StopRun(s)
  BY <1>1, <1>5 DEF RecordStart, BeforeSkips, BeforeDone, EnterSetScope, Backup, CleanupStarts,
     PassOver, TakeUp, Declare, AfterKnown, SettleScope, StopRun, journal, ghosts
<1>6. CASE \/ Finish(s) \/ LoadHolds(s) \/ StoreHolds(s) \/ ResolveResumed(s) \/ GiveBack(s)
           \/ AckScope(s) \/ AckResolve(s) \/ Statuses(s)
  BY <1>1, <1>6 DEF Finish, LoadHolds, StoreHolds, ResolveResumed, GiveBack, AckScope, AckResolve,
     Statuses, journal, ghosts
<1> QED
  BY <1>2, <1>3, <1>4, <1>5, <1>6 DEF WorkStep

LEMMA NextRanOnce ==
  ASSUME TypeOK, RanOnce, [Next]_vars
  PROVE  RanOnce'
<1>1. CASE Crash \/ Stop \/ PassFails
  BY <1>1, NoRowNoHook DEF Crash, Stop, Die, PassFails, journal, ghosts
<1>2. CASE Requests
  BY <1>2, NoRowNoHook DEF Requests, AskRun, AskResume, AskAck, Ask, BeginRun, BeginResume,
     BeginAck, Busy, Committed, journal, ghosts
<1>3. CASE UNCHANGED vars
  BY <1>3, NoRowNoHook DEF vars
<1> QED
  BY <1>1, <1>2, <1>3, StartupRanOnce, WorkStepRanOnce DEF Next

\* A hook is handed to its executor once in the life of its run, however the
\* process dies and however often the cleanup is resumed: runStep records the
\* start before it runs the hook, and nothing makes a row pending again.
THEOREM HooksRunOnceHolds == Spec => []HooksRunOnce
<1>1. Init => TypeOK /\ RanOnce
  BY InitTyped DEF Init, JournalInit, RanOnce
<1>2. TypeOK /\ RanOnce /\ [Next]_vars => TypeOK' /\ RanOnce'
  BY NextTyped, NextRanOnce
<1>3. RanOnce => HooksRunOnce
  BY DEF RanOnce, HooksRunOnce
<1> QED
  BY <1>1, <1>2, <1>3, PTL DEF Spec

(***************************************************************************)
(* What is owed is on record.  The promise of a scope precedes its hooks,  *)
(* so where a piece of work stands says what it has recorded; and as it    *)
(* holds the lock of its set nothing else writes its run.                  *)
(***************************************************************************)

RunOnly == {"start", "skip", "before", "enter", "backup", "cleanup", "declare", "finish"}

\* What the place of a set's work says of its run and of its obligations.
Fits(s, w, rows, owed) ==
  /\ w.at \notin {"idle", "load", "store"} => w.run \in Runs /\ SetOf[w.run] = s
  /\ w.at \in RunOnly => w.kind = "run"
  /\ w.kind = "run" /\ w.at \in RunOnly \cup {"hook", "owe", "after"} =>
       rows[w.run].state \in Open /\ rows[w.run].recovery = "none"
  /\ w.at = "skip" => w.then \in {"before", "backup", "cleanup", "owe", "finish"}
  /\ w.at \in {"before", "after"} => w.left \subseteq HooksOf(w.scope, w.at)
  /\ w.at = "hook" =>
       /\ w.left \subseteq HooksOf(w.scope, Stage[w.hook].phase)
       /\ Stage[w.hook].phase = "before" => w.kind = "run"
  /\ w.at = "start" /\ ~w.bypassed => owed[w.run]["global"] # "never_eligible"
  /\ w.at \in {"before", "after", "hook"} \/ (w.at = "skip" /\ w.then = "before") =>
       owed[w.run][w.scope] # "never_eligible"

NoneIsFresh == \A r \in Runs : run[r].state = "none" => run[r].recovery = "none"

OwedInv ==
  /\ CleanupIsOwed /\ NoneIsFresh
  /\ ~Working => asked = {} /\ \A s \in Sets : work[s].at = "idle"
  /\ \A s \in Sets : Fits(s, work[s], run, obligation)

LEMMA IdleFits ==
  ASSUME NEW s, NEW w, w.at = "idle", NEW rows, NEW owed
  PROVE  Fits(s, w, rows, owed)
  BY DEF Fits, RunOnly

LEMMA ObligeKeeps ==
  ASSUME TypeOK, CleanupIsOwed, NEW r \in Runs, NEW c \in Scopes, NEW to, to # "eligible",
         MayOblige(r, c, to), obligation' = Obliged(r, c, to), UNCHANGED <<run, started>>
  PROVE  /\ CleanupIsOwed'
         /\ \A q \in Runs, d \in Scopes :
              obligation'[q][d] = "never_eligible" => obligation[q][d] = "never_eligible"
<1>1. obligation[r][c] \notin Settled /\ to # "never_eligible"
  BY DEF MayOblige, ObligationFollows, Settled
<1>2. \A q \in Runs, d \in Scopes :
         obligation'[q][d] = IF q = r /\ d = c THEN to ELSE obligation[q][d]
  BY DEF Obliged, TypeOK
<1>3. \A q \in Runs, d \in Scopes :
         /\ obligation'[q][d] = "never_eligible" => obligation[q][d] = "never_eligible"
         /\ obligation[q][d] \in Settled => obligation'[q][d] \in Settled
  BY <1>1, <1>2
<1>4. \A q \in Runs : Unsettled(q) = {} => Unsettled(q)' = {}
  BY <1>3 DEF Unsettled
<1>5. \A h \in Hooks : Stage[h].scope \in Scopes
  BY PlanAssumption
<1> QED
  BY <1>3, <1>4, <1>5 DEF CleanupIsOwed

LEMMA AdvanceKeeps ==
  ASSUME CleanupIsOwed, UNCHANGED <<obligation, started>>,
         \A r \in Runs : run'[r].state \in Terminal => run[r].state \in Terminal \/ Unsettled(r) = {}
  PROVE  CleanupIsOwed'
  BY DEF CleanupIsOwed, Unsettled

\* The step of one set's work leaves what the others rely on.
LEMMA LocalKeeps ==
  ASSUME TypeOK, OwedInv, NEW s \in Sets, Working, UNCHANGED phase, CleanupIsOwed', NoneIsFresh',
         NEW w, Put(s, w), Fits(s, w, run', obligation'),
         \A r \in Runs : SetOf[r] # s => run'[r] = run[r] /\ obligation'[r] = obligation[r]
  PROVE  OwedInv'
<1>1. Working'
  BY DEF Working
<1>2. ASSUME NEW q \in Sets
      PROVE  Fits(q, work'[q], run', obligation')
  <2>1. CASE q = s
    BY <2>1 DEF Put, TypeOK
  <2>2. CASE q # s
    <3>1. work'[q] = work[q]
      BY <2>2 DEF Put, TypeOK
    <3>2. Fits(q, work[q], run, obligation)
      BY DEF OwedInv
    <3>3. CASE work[q].at = "idle"
      BY <3>1, <3>3, IdleFits
    <3>4. CASE work[q].at \in {"load", "store"}
      BY <3>1, <3>4 DEF Fits, RunOnly
    <3>5. CASE work[q].at \notin {"idle", "load", "store"}
      <4>1. /\ run'[work[q].run] = run[work[q].run]
            /\ obligation'[work[q].run] = obligation[work[q].run]
        BY <2>2, <3>2, <3>5 DEF Fits
      <4> QED
        BY <3>1, <3>2, <4>1 DEF Fits
    <3> QED
      BY <3>3, <3>4, <3>5
  <2> QED
    BY <2>1, <2>2
<1> QED
  BY <1>1, <1>2 DEF OwedInv

\* The steps that write nothing of the run or its scopes.
LEMMA QuietKeeps ==
  ASSUME TypeOK, OwedInv, NEW s \in Sets, Working, UNCHANGED <<phase, run, obligation, started>>,
         NEW w, Put(s, w), Fits(s, w, run, obligation)
  PROVE  OwedInv'
<1>1. CleanupIsOwed' /\ NoneIsFresh'
  BY DEF OwedInv, CleanupIsOwed, NoneIsFresh, Unsettled
<1> QED
  BY <1>1, LocalKeeps

\* The steps that advance the run the set's work is about.
LEMMA RunKeeps ==
  ASSUME TypeOK, OwedInv, NEW s \in Sets, Working, UNCHANGED <<phase, obligation, started>>,
         NEW r \in Runs, SetOf[r] = s, NEW new, run' = [run EXCEPT ![r] = new],
         new.state # "none", new.state \in Terminal => Unsettled(r) = {},
         NEW w, Put(s, w), Fits(s, w, run', obligation)
  PROVE  OwedInv'
<1>1. \A q \in Runs : run'[q] = IF q = r THEN new ELSE run[q]
  BY DEF TypeOK
<1>2. CleanupIsOwed'
  BY <1>1, AdvanceKeeps DEF OwedInv
<1>3. NoneIsFresh'
  BY <1>1 DEF OwedInv, NoneIsFresh
<1> QED
  BY <1>1, <1>2, <1>3, LocalKeeps

\* The steps that advance an obligation of that run.
LEMMA ScopeKeeps ==
  ASSUME TypeOK, OwedInv, NEW s \in Sets, Working, UNCHANGED <<phase, run, started>>,
         NEW r \in Runs, SetOf[r] = s, NEW c \in Scopes, NEW to, to # "eligible",
         MayOblige(r, c, to), obligation' = Obliged(r, c, to),
         NEW w, Put(s, w), Fits(s, w, run, obligation')
  PROVE  OwedInv'
<1>1. CleanupIsOwed'
  BY ObligeKeeps DEF OwedInv
<1>2. NoneIsFresh'
  BY DEF OwedInv, NoneIsFresh
<1>3. \A q \in Runs : SetOf[q] # s => obligation'[q] = obligation[q]
  BY DEF Obliged, TypeOK
<1> QED
  BY <1>1, <1>2, <1>3, LocalKeeps

LEMMA AtIsWorking ==
  ASSUME TypeOK, OwedInv, NEW s \in Sets, NEW place, At(s, place)
  PROVE  /\ Working /\ work[s].at = place
         /\ Fits(s, work[s], run, obligation)
         /\ work[s] \in WorkTypes
  BY WorkTyped DEF At, OwedInv

\* Recording hooks as skipped leads where it was said to lead.
LEMMA SkipThenFits ==
  ASSUME NEW s, NEW w \in WorkTypes, w.run \in Runs, SetOf[w.run] = s, w.kind = "run",
         NEW rows, NEW owed, rows[w.run].state \in Open, rows[w.run].recovery = "none",
         NEW hs \in SUBSET Hooks, NEW place \in {"before", "backup", "cleanup", "owe", "finish"},
         place = "before" => owed[w.run][w.scope] # "never_eligible"
  PROVE  Fits(s, SkipThen(w, hs, place), rows, owed)
<1>1. CASE hs = {}
  <2> DEFINE on == [w EXCEPT !.at = place, !.left = {}, !.then = "idle"]
  <2>1. SkipThen(w, hs, place) = on
    BY <1>1 DEF SkipThen
  <2>2. /\ on.at = place /\ on.left = {} /\ on.run = w.run /\ on.kind = w.kind
        /\ on.scope = w.scope
    BY DEF WorkTypes
  <2> HIDE DEF on
  <2> QED
    BY <2>1, <2>2 DEF Fits, RunOnly
<1>2. CASE hs # {}
  <2> DEFINE on == [w EXCEPT !.at = "skip", !.left = hs, !.then = place]
  <2>1. SkipThen(w, hs, place) = on
    BY <1>2 DEF SkipThen
  <2>2. /\ on.at = "skip" /\ on.then = place /\ on.run = w.run /\ on.kind = w.kind
        /\ on.scope = w.scope
    BY DEF WorkTypes
  <2> HIDE DEF on
  <2> QED
    BY <2>1, <2>2 DEF Fits, RunOnly
<1> QED
  BY <1>1, <1>2

LEMMA EnterFits ==
  ASSUME NEW s, NEW w \in WorkTypes, w.run \in Runs, SetOf[w.run] = s, NEW rows, NEW owed,
         w.kind = "run" => rows[w.run].state \in Open /\ rows[w.run].recovery = "none",
         NEW scope \in Scopes, owed[w.run][scope] # "never_eligible", NEW place \in Phases,
         place = "before" => w.kind = "run"
  PROVE  Fits(s, Enter(w, place, scope, place), rows, owed)
<1> DEFINE on == Enter(w, place, scope, place)
<1>1. /\ on.at = place /\ on.left = HooksOf(scope, place) /\ on.run = w.run /\ on.kind = w.kind
      /\ on.scope = scope
  BY DEF Enter, WorkTypes
<1> HIDE DEF on
<1>2. place \in {"before", "after"}
  BY DEF Phases
<1>3. Fits(s, on, rows, owed)
  BY <1>1, <1>2 DEF Fits, RunOnly
<1> QED
  BY <1>3 DEF on

LEMMA BeyondFits ==
  ASSUME NEW s, NEW w \in WorkTypes, w.run \in Runs, SetOf[w.run] = s, NEW rows, NEW owed,
         w.kind = "run" => rows[w.run].state \in Open /\ rows[w.run].recovery = "none"
  PROVE  Fits(s, Beyond(w), rows, owed)
<1> DEFINE on == Beyond(w)
<1>1. /\ on.at \in {"owe", "finish", "resolve"} /\ on.run = w.run /\ on.kind = w.kind
      /\ on.at = "finish" => w.kind = "run"
  BY DEF Beyond, WorkTypes
<1> HIDE DEF on
<1>2. Fits(s, on, rows, owed)
  BY <1>1 DEF Fits, RunOnly
<1> QED
  BY <1>2 DEF on

LEMMA QuietBeforeOwed ==
  ASSUME TypeOK, OwedInv, NEW s \in Sets,
         StopRun(s) \/ BeforeSkips(s) \/ BeforeDone(s) \/ SkipHook(s) \/ HookEnds(s)
  PROVE  OwedInv'
<1> DEFINE w == work[s]
<1>1. CASE StopRun(s)
  <2>1. PICK cause : Put(s, [w EXCEPT !.stop = TRUE, !.cause = cause])
    BY <1>1 DEF StopRun, w
  <2> DEFINE on == [w EXCEPT !.stop = TRUE, !.cause = cause]
  <2>2. Working /\ w.at = "before" /\ Fits(s, w, run, obligation) /\ w \in WorkTypes
    BY <1>1, AtIsWorking DEF StopRun
  <2>3. /\ on.at = w.at /\ on.left = w.left /\ on.run = w.run /\ on.kind = w.kind
        /\ on.scope = w.scope
    BY <2>2 DEF WorkTypes
  <2>4. UNCHANGED <<phase, run, obligation, started>>
    BY <1>1 DEF StopRun, Only, journal, ghosts
  <2> HIDE DEF w
  <2>5. Fits(s, on, run, obligation)
    <3> HIDE DEF on
    <3> QED BY <2>2, <2>3 DEF Fits, RunOnly
  <2> QED
    BY <2>1, <2>2, <2>4, <2>5, QuietKeeps
<1>2. CASE BeforeSkips(s)
  <2>1. Working /\ w.at = "before" /\ Fits(s, w, run, obligation) /\ w \in WorkTypes
    BY <1>2, AtIsWorking DEF BeforeSkips
  <2>2. Put(s, SkipThen(w, w.left, "before")) /\ UNCHANGED <<phase, run, obligation, started>>
    BY <1>2 DEF BeforeSkips, Only, journal, ghosts
  <2> HIDE DEF w
  <2>3. /\ w.run \in Runs /\ SetOf[w.run] = s /\ w.kind = "run"
        /\ run[w.run].state \in Open /\ run[w.run].recovery = "none"
        /\ obligation[w.run][w.scope] # "never_eligible" /\ w.left \in SUBSET Hooks
    BY <2>1 DEF Fits, RunOnly, WorkTypes
  <2>4. Fits(s, SkipThen(w, w.left, "before"), run, obligation)
    BY <2>1, <2>3, SkipThenFits
  <2> QED
    BY <2>1, <2>2, <2>4, QuietKeeps
<1>3. CASE BeforeDone(s)
  <2>1. Working /\ w.at = "before" /\ Fits(s, w, run, obligation) /\ w \in WorkTypes
    BY <1>3, AtIsWorking DEF BeforeDone
  <2>2. UNCHANGED <<phase, run, obligation, started>>
    BY <1>3 DEF BeforeDone, Only, journal, ghosts
  <2>3. \/ \E at \in {"enter", "backup", "cleanup"} : Put(s, [w EXCEPT !.at = at])
        \/ Put(s, SkipThen(w, HooksOf("set", "before"), "cleanup"))
    BY <1>3, <2>1 DEF BeforeDone, WorkTypes, Scopes
  <2> HIDE DEF w
  <2>4. /\ w.run \in Runs /\ SetOf[w.run] = s /\ w.kind = "run"
        /\ run[w.run].state \in Open /\ run[w.run].recovery = "none"
    BY <2>1 DEF Fits, RunOnly
  <2>5. Fits(s, SkipThen(w, HooksOf("set", "before"), "cleanup"), run, obligation)
    BY <2>1, <2>4, SkipThenFits DEF HooksOf
  <2>6. ASSUME NEW at \in {"enter", "backup", "cleanup"}
        PROVE  Fits(s, [w EXCEPT !.at = at], run, obligation)
    <3> DEFINE on == [w EXCEPT !.at = at]
    <3>1. on.at = at /\ on.run = w.run /\ on.kind = w.kind
      BY <2>1 DEF WorkTypes
    <3> HIDE DEF on
    <3>2. Fits(s, on, run, obligation)
      BY <2>4, <3>1 DEF Fits, RunOnly
    <3> QED BY <3>2 DEF on
  <2> QED
    BY <2>1, <2>2, <2>3, <2>5, <2>6, QuietKeeps
<1>4. CASE SkipHook(s)
  <2>1. Working /\ w.at = "skip" /\ Fits(s, w, run, obligation) /\ w \in WorkTypes
    BY <1>4, AtIsWorking DEF SkipHook
  <2>2. UNCHANGED <<phase, run, obligation, started>>
    BY <1>4 DEF SkipHook, Only, ghosts
  <2>3. PICK h : \/ Put(s, SkipThen(w, w.left \ {h}, w.then))
                 \/ Put(s, [SkipThen(w, w.left \ {h}, w.then) EXCEPT !.failed = TRUE])
    BY <1>4 DEF SkipHook
  <2> HIDE DEF w
  <2> DEFINE on == SkipThen(w, w.left \ {h}, w.then)
             off == [on EXCEPT !.failed = TRUE]
  <2>4. /\ w.run \in Runs /\ SetOf[w.run] = s /\ w.kind = "run"
        /\ run[w.run].state \in Open /\ run[w.run].recovery = "none"
        /\ w.then \in {"before", "backup", "cleanup", "owe", "finish"}
        /\ w.then = "before" => obligation[w.run][w.scope] # "never_eligible"
    BY <2>1 DEF Fits, RunOnly
  <2>5. Fits(s, on, run, obligation)
    <3>1. w.left \ {h} \in SUBSET Hooks
      BY <2>1 DEF WorkTypes
    <3> QED BY <2>1, <2>4, <3>1, SkipThenFits
  <2>6. on \in WorkTypes
    BY <2>1, SkipThenTyped DEF WorkTypes
  <2> HIDE DEF on
  <2>7. Fits(s, off, run, obligation)
    <3>1. /\ off.at = on.at /\ off.left = on.left /\ off.run = on.run /\ off.kind = on.kind
          /\ off.scope = on.scope /\ off.then = on.then /\ off.bypassed = on.bypassed
          /\ off.hook = on.hook
      BY <2>6 DEF WorkTypes
    <3> HIDE DEF off
    <3> QED BY <2>5, <3>1 DEF Fits, RunOnly
  <2>8. Put(s, on) \/ Put(s, off)
    BY <2>3 DEF on
  <2> QED
    BY <2>1, <2>2, <2>5, <2>7, <2>8, QuietKeeps
<1>5. CASE HookEnds(s)
  <2> DEFINE on == [w EXCEPT !.at = Stage[w.hook].phase, !.hook = 0]
  <2>1. Working /\ w.at = "hook" /\ Fits(s, w, run, obligation) /\ w \in WorkTypes
    BY <1>5, AtIsWorking DEF HookEnds
  <2>2. UNCHANGED <<phase, run, obligation, started>>
    BY <1>5 DEF HookEnds, Only
  <2>3. PICK outcome \in {"success", "failed", "timed_out", "canceled"} :
          \/ Put(s, on) \/ Put(s, Failing(on, w.hook, outcome))
          \/ Put(s, [on EXCEPT !.failed = TRUE, !.ok = @ /\ outcome = "success"])
    BY <1>5 DEF HookEnds
  <2> HIDE DEF w
  <2>4. Stage[w.hook].phase \in {"before", "after"}
    BY <2>1, PlanAssumption DEF WorkTypes, Phases
  <2> DEFINE Back(new) == /\ new.at = Stage[w.hook].phase /\ new.left = w.left
                          /\ new.run = w.run /\ new.kind = w.kind /\ new.scope = w.scope
             off == [on EXCEPT !.failed = TRUE, !.ok = @ /\ outcome = "success"]
  <2>5. ASSUME NEW new, Back(new)
        PROVE  Fits(s, new, run, obligation)
    BY <2>1, <2>4, <2>5 DEF Fits, RunOnly
  <2>6. Back(on)
    BY <2>1 DEF WorkTypes
  <2>7. Back(Failing(on, w.hook, outcome))
    BY <2>1 DEF WorkTypes, Failing
  <2>8. Back(off)
    BY <2>1 DEF WorkTypes
  <2>9. Put(s, on) \/ Put(s, Failing(on, w.hook, outcome)) \/ Put(s, off)
    BY <2>3
  <2> HIDE DEF Back, on, off
  <2> QED
    BY <2>1, <2>2, <2>5, <2>6, <2>7, <2>8, <2>9, QuietKeeps
<1> QED
  BY <1>1, <1>2, <1>3, <1>4, <1>5

LEMMA QuietAfterOwed ==
  ASSUME TypeOK, OwedInv, NEW s \in Sets,
         PassOver(s) \/ AfterKnown(s) \/ LoadHolds(s) \/ StoreHolds(s) \/ Statuses(s)
  PROVE  OwedInv'
<1> DEFINE w == work[s]
<1>1. CASE PassOver(s)
  <2> DEFINE on == Beyond(w)
             skipped == IF w.kind = "run" /\ ~w.bypassed THEN HooksOf(w.scope, "after") ELSE {}
  <2>1. Working /\ w.at = "owe" /\ Fits(s, w, run, obligation) /\ w \in WorkTypes
    BY <1>1, AtIsWorking DEF PassOver
  <2>2. Put(s, SkipThen(on, skipped, on.at)) /\ UNCHANGED <<phase, run, obligation, started>>
    BY <1>1 DEF PassOver, Only, journal, ghosts
  <2> HIDE DEF w
  <2>3. /\ w.run \in Runs /\ SetOf[w.run] = s
        /\ w.kind = "run" => run[w.run].state \in Open /\ run[w.run].recovery = "none"
    BY <2>1 DEF Fits
  <2>4. /\ on \in WorkTypes /\ on.run = w.run /\ on.kind = w.kind
        /\ on.at \in {"owe", "finish", "resolve"} /\ (on.kind = "run" => on.at # "resolve")
        /\ on.at = "finish" => on.kind = "run"
    <3>1. on \in WorkTypes
      BY <2>1, BeyondTyped
    <3> QED
      BY <2>1, <3>1 DEF Beyond, WorkTypes
  <2> HIDE DEF on
  <2>5. CASE w.kind = "run"
    <3>1. skipped \in SUBSET Hooks
      BY DEF HooksOf
    <3>2. Fits(s, SkipThen(on, skipped, on.at), run, obligation)
      <4> HIDE DEF skipped
      <4> QED BY <2>3, <2>4, <2>5, <3>1, SkipThenFits
    <3> QED
      BY <2>1, <2>2, <3>2, QuietKeeps
  <2>6. CASE w.kind # "run"
    <3> DEFINE off == [on EXCEPT !.at = on.at, !.left = {}, !.then = "idle"]
    <3>1. SkipThen(on, skipped, on.at) = off
      BY <2>6 DEF SkipThen
    <3>2. off.at = on.at /\ off.run = on.run /\ off.kind = on.kind
      BY <2>4 DEF WorkTypes
    <3> HIDE DEF off
    <3>3. Fits(s, off, run, obligation)
      BY <2>3, <2>4, <2>6, <3>2 DEF Fits, RunOnly
    <3> QED
      BY <2>1, <2>2, <3>1, <3>3, QuietKeeps
  <2> QED
    BY <2>5, <2>6
<1>2. CASE AfterKnown(s)
  <2>1. Working /\ w.at = "after" /\ Fits(s, w, run, obligation) /\ w \in WorkTypes
    BY <1>2, AtIsWorking DEF AfterKnown
  <2>2. UNCHANGED <<phase, run, obligation, started>>
    BY <1>2 DEF AfterKnown, Only, journal, ghosts
  <2>3. PICK h, ok, lost, bad :
          Put(s, [w EXCEPT !.left = @ \ {h}, !.ok = ok, !.lost = lost, !.bad = bad])
    BY <1>2 DEF AfterKnown
  <2> HIDE DEF w
  <2> DEFINE on == [w EXCEPT !.left = @ \ {h}, !.ok = ok, !.lost = lost, !.bad = bad]
  <2>4. /\ on.at = "after" /\ on.left \subseteq w.left /\ on.run = w.run /\ on.kind = w.kind
        /\ on.scope = w.scope
    BY <2>1 DEF WorkTypes
  <2>5. Put(s, on)
    BY <2>3
  <2> HIDE DEF on
  <2>6. Fits(s, on, run, obligation)
    BY <2>1, <2>4 DEF Fits, RunOnly
  <2> QED
    BY <2>1, <2>2, <2>5, <2>6, QuietKeeps
<1>3. CASE LoadHolds(s) \/ StoreHolds(s) \/ Statuses(s)
  <2>1. Working /\ w \in WorkTypes
    BY <1>3, AtIsWorking DEF LoadHolds, StoreHolds, Statuses
  <2>2. UNCHANGED <<phase, run, obligation, started>>
    BY <1>3 DEF LoadHolds, StoreHolds, Statuses, Only, journal, ghosts
  <2>3. PICK new : Put(s, new) /\ new.at \in {"idle", "load", "store"}
    <3>1. /\ Idle.at = "idle" /\ [Idle EXCEPT !.at = "load"].at = "load"
          /\ [w EXCEPT !.at = "store", !.seen = Owing].at = "store"
      BY <2>1 DEF Idle, WorkTypes
    <3>2. \/ Put(s, Idle) \/ Put(s, [Idle EXCEPT !.at = "load"])
          \/ Put(s, [w EXCEPT !.at = "store", !.seen = Owing])
      BY <1>3 DEF LoadHolds, StoreHolds, Statuses
    <3> QED
      BY <3>1, <3>2
  <2>4. Fits(s, new, run, obligation)
    BY <2>3 DEF Fits, RunOnly
  <2> QED
    BY <2>1, <2>2, <2>3, <2>4, QuietKeeps
<1> QED
  BY <1>1, <1>2, <1>3

\* What may be written of a run, as the record its row becomes.
LEMMA WrittenRun ==
  ASSUME TypeOK, NEW r \in Runs, NEW to, NEW recovery, run' = Raised(r, to, recovery)
  PROVE  \E new : /\ run' = [run EXCEPT ![r] = new] /\ new.state = to /\ new.recovery = recovery
<1> DEFINE first == [run EXCEPT ![r].state = to]
           new == [[run[r] EXCEPT !.state = to] EXCEPT !.recovery = recovery]
<1>1. run[r] \in RunRows /\ run \in [Runs -> RunRows]
  BY DEF TypeOK
<1>2. new.state = to /\ new.recovery = recovery
  BY <1>1 DEF RunRows
<1>3. run' = [run EXCEPT ![r] = new]
  BY <1>1 DEF Raised
<1> QED
  BY <1>2, <1>3

LEMMA AdvancedRun ==
  ASSUME TypeOK, NEW r \in Runs, NEW to, run' = Advanced(r, to)
  PROVE  \E new : /\ run' = [run EXCEPT ![r] = new] /\ new.state = to
                  /\ new.recovery = run[r].recovery
<1> DEFINE new == [run[r] EXCEPT !.state = to]
<1>1. run[r] \in RunRows /\ run \in [Runs -> RunRows]
  BY DEF TypeOK
<1>2. new.state = to /\ new.recovery = run[r].recovery
  BY <1>1 DEF RunRows
<1>3. run' = [run EXCEPT ![r] = new]
  BY <1>1 DEF Advanced
<1> QED
  BY <1>2, <1>3

LEMMA NeverNone ==
  ASSUME NEW r, NEW to, RunFollows(run[r].state, to)
  PROVE  to # "none"
  BY DEF RunFollows, Terminal, Open

LEMMA RunStepsOwed ==
  ASSUME TypeOK, OwedInv, NEW s \in Sets, RecordStart(s) \/ Backup(s) \/ CleanupStarts(s)
  PROVE  OwedInv'
<1> DEFINE w == work[s]
<1>1. CASE RecordStart(s)
  <2>1. Working /\ w.at = "start" /\ Fits(s, w, run, obligation) /\ w \in WorkTypes
    BY <1>1, AtIsWorking DEF RecordStart
  <2>2. UNCHANGED <<phase, obligation, started>>
    BY <1>1 DEF RecordStart, Only, ghosts
  <2> DEFINE on == IF w.bypassed THEN SkipThen(w, Hooks, "backup")
                   ELSE Enter(w, "before", "global", "before")
             lame == [w EXCEPT !.failed = TRUE, !.bypassed = FALSE]
             early == HooksOf("global", "before") \cup HooksOf("set", "before")
             off == SkipThen(lame, early, "cleanup")
  <2>3. \/ run' = Advanced(w.run, "running") /\ Put(s, on)
        \/ UNCHANGED run /\ Put(s, off)
    BY <1>1 DEF RecordStart
  <2> HIDE DEF w
  <2>4. /\ w.run \in Runs /\ SetOf[w.run] = s /\ w.kind = "run"
        /\ run[w.run].state \in Open /\ run[w.run].recovery = "none"
        /\ ~w.bypassed => obligation[w.run]["global"] # "never_eligible"
    BY <2>1 DEF Fits, RunOnly
  <2>5. CASE run' = Advanced(w.run, "running") /\ Put(s, on)
    <3>1. PICK new : /\ run' = [run EXCEPT ![w.run] = new] /\ new.state = "running"
                     /\ new.recovery = run[w.run].recovery
      BY <2>4, <2>5, AdvancedRun
    <3>2. run'[w.run] = new
      BY <2>4, <3>1 DEF TypeOK
    <3>3. run'[w.run].state \in Open /\ run'[w.run].recovery = "none"
      BY <2>4, <3>1, <3>2 DEF Open
    <3>4. Fits(s, on, run', obligation)
      <4>1. CASE w.bypassed
        BY <2>1, <2>4, <3>3, <4>1, SkipThenFits
      <4>2. CASE ~w.bypassed
        BY <2>1, <2>4, <3>3, <4>2, EnterFits DEF Scopes, Phases
      <4> QED
        BY <4>1, <4>2
    <3> HIDE DEF on
    <3>5. new.state # "none" /\ (new.state \in Terminal => Unsettled(w.run) = {})
      BY <3>1 DEF Terminal, Open
    <3> QED
      BY <2>1, <2>2, <2>4, <2>5, <3>1, <3>4, <3>5, RunKeeps
  <2>6. CASE UNCHANGED run /\ Put(s, off)
    <3>1. lame \in WorkTypes /\ lame.run = w.run /\ lame.kind = w.kind
      BY <2>1 DEF WorkTypes
    <3>2. early \in SUBSET Hooks
      BY DEF HooksOf
    <3> HIDE DEF lame, early
    <3>3. Fits(s, off, run, obligation)
      BY <2>4, <3>1, <3>2, SkipThenFits
    <3> QED
      BY <2>1, <2>2, <2>6, <3>3, QuietKeeps
  <2> QED
    BY <2>3, <2>5, <2>6
<1>2. CASE Backup(s)
  <2>1. Working /\ w.at = "backup" /\ Fits(s, w, run, obligation) /\ w \in WorkTypes
    BY <1>2, AtIsWorking DEF Backup
  <2>2. UNCHANGED <<phase, obligation, started>>
    BY <1>2 DEF Backup, Only, ghosts
  <2>3. PICK result, failed, cause :
          /\ run' = run \/ run' = [run EXCEPT ![w.run].backup = result]
          /\ \/ Put(s, [w EXCEPT !.at = "cleanup", !.failed = failed, !.cause = cause])
             \/ Put(s, [[w EXCEPT !.at = "cleanup", !.failed = failed, !.cause = cause]
                          EXCEPT !.failed = TRUE])
    BY <1>2 DEF Backup
  <2> HIDE DEF w
  <2>4. /\ w.run \in Runs /\ SetOf[w.run] = s /\ w.kind = "run"
        /\ run[w.run].state \in Open /\ run[w.run].recovery = "none"
    BY <2>1 DEF Fits, RunOnly
  <2>5. PICK on : Put(s, on) /\ on.at = "cleanup" /\ on.run = w.run /\ on.kind = w.kind
    <3> DEFINE past == [w EXCEPT !.at = "cleanup", !.failed = failed, !.cause = cause]
               off == [past EXCEPT !.failed = TRUE]
    <3>1. /\ past.at = "cleanup" /\ past.run = w.run /\ past.kind = w.kind
          /\ off.at = "cleanup" /\ off.run = w.run /\ off.kind = w.kind
      BY <2>1 DEF WorkTypes
    <3>2. Put(s, past) \/ Put(s, off)
      BY <2>3
    <3> HIDE DEF past, off
    <3> QED
      BY <3>1, <3>2
  <2> DEFINE new == [run[w.run] EXCEPT !.backup = result]
  <2>6. new.state = run[w.run].state /\ new.recovery = run[w.run].recovery
    BY <2>4 DEF TypeOK, RunRows
  <2>7. CASE run' = run
    <3>1. Fits(s, on, run, obligation)
      BY <2>4, <2>5 DEF Fits, RunOnly
    <3> QED
      BY <2>1, <2>2, <2>5, <2>7, <3>1, QuietKeeps
  <2>8. CASE run' = [run EXCEPT ![w.run].backup = result]
    <3>1. run' = [run EXCEPT ![w.run] = new] /\ run'[w.run] = new
      BY <2>4, <2>8 DEF TypeOK
    <3> HIDE DEF new
    <3>2. Fits(s, on, run', obligation)
      BY <2>4, <2>5, <2>6, <3>1 DEF Fits, RunOnly
    <3>3. new.state # "none" /\ (new.state \in Terminal => Unsettled(w.run) = {})
      BY <2>4, <2>6 DEF Terminal, Open
    <3> QED
      BY <2>1, <2>2, <2>4, <2>5, <3>1, <3>2, <3>3, RunKeeps
  <2> QED
    BY <2>3, <2>7, <2>8
<1>3. CASE CleanupStarts(s)
  <2>1. Working /\ w.at = "cleanup" /\ Fits(s, w, run, obligation) /\ w \in WorkTypes
    BY <1>3, AtIsWorking DEF CleanupStarts
  <2>2. UNCHANGED <<phase, obligation, started>>
    BY <1>3 DEF CleanupStarts, Only, ghosts
  <2> DEFINE ow == [w EXCEPT !.at = "owe", !.scope = "set"]
  <2>3. /\ run' = Advanced(w.run, "cleanup_running") \/ run' = run
        /\ Put(s, ow) \/ Put(s, [ow EXCEPT !.failed = TRUE])
    <3>1. ow.run = w.run
      BY <2>1 DEF WorkTypes
    <3> QED BY <1>3, <3>1 DEF CleanupStarts
  <2> HIDE DEF w
  <2>4. /\ w.run \in Runs /\ SetOf[w.run] = s /\ w.kind = "run"
        /\ run[w.run].state \in Open /\ run[w.run].recovery = "none"
    BY <2>1 DEF Fits, RunOnly
  <2>5. PICK on : Put(s, on) /\ on.at = "owe" /\ on.run = w.run /\ on.kind = w.kind
    <3> DEFINE off == [ow EXCEPT !.failed = TRUE]
    <3>1. /\ ow.at = "owe" /\ ow.run = w.run /\ ow.kind = w.kind
          /\ off.at = "owe" /\ off.run = w.run /\ off.kind = w.kind
      BY <2>1 DEF WorkTypes
    <3>2. Put(s, ow) \/ Put(s, off)
      BY <2>3
    <3> HIDE DEF ow, off
    <3> QED
      BY <3>1, <3>2
  <2>6. CASE run' = run
    <3>1. Fits(s, on, run, obligation)
      BY <2>4, <2>5 DEF Fits, RunOnly
    <3> QED
      BY <2>1, <2>2, <2>5, <2>6, <3>1, QuietKeeps
  <2>7. CASE run' = Advanced(w.run, "cleanup_running")
    <3>1. PICK new : /\ run' = [run EXCEPT ![w.run] = new] /\ new.state = "cleanup_running"
                     /\ new.recovery = run[w.run].recovery
      BY <2>4, <2>7, AdvancedRun
    <3>2. run'[w.run] = new
      BY <2>4, <3>1 DEF TypeOK
    <3>3. Fits(s, on, run', obligation)
      BY <2>4, <2>5, <3>1, <3>2 DEF Fits, RunOnly, Open
    <3>4. new.state # "none" /\ (new.state \in Terminal => Unsettled(w.run) = {})
      BY <3>1 DEF Terminal, Open
    <3> QED
      BY <2>1, <2>2, <2>4, <2>5, <3>1, <3>3, <3>4, RunKeeps
  <2> QED
    BY <2>3, <2>6, <2>7
<1> QED
  BY <1>1, <1>2, <1>3

LEMMA ClosingStepsOwed ==
  ASSUME TypeOK, OwedInv, NEW s \in Sets,
         Finish(s) \/ ResolveResumed(s) \/ GiveBack(s) \/ AckResolve(s)
  PROVE  OwedInv'
<1> DEFINE w == work[s]
<1>1. /\ Working /\ w.at \in {"finish", "resolve", "giveback", "ack"}
      /\ Fits(s, w, run, obligation) /\ w \in WorkTypes
  BY AtIsWorking DEF Finish, ResolveResumed, GiveBack, AckResolve
<1>2. UNCHANGED <<phase, obligation, started>>
  BY DEF Finish, ResolveResumed, GiveBack, AckResolve, Only, ghosts
<1>3. /\ w.run \in Runs /\ SetOf[w.run] = s
      /\ w.at = "finish" => run[w.run].recovery = "none"
  BY <1>1 DEF Fits, RunOnly
\* Where it goes on: there is nothing left that relies on the run.
<1>4. PICK on : /\ Put(s, on) /\ on.at \in {"idle", "load", "statuses", "giveback"}
                /\ on.at \in {"statuses", "giveback"} => on.run = w.run
  <2>1. /\ Idle.at = "idle" /\ [Idle EXCEPT !.at = "load"].at = "load"
        /\ [w EXCEPT !.at = "statuses"].at = "statuses"
        /\ [w EXCEPT !.at = "statuses"].run = w.run
        /\ [w EXCEPT !.at = "giveback"].at = "giveback"
        /\ [w EXCEPT !.at = "giveback"].run = w.run
    BY <1>1 DEF Idle, WorkTypes
  <2>2. \/ Put(s, Idle) \/ Put(s, [Idle EXCEPT !.at = "load"])
        \/ Put(s, [w EXCEPT !.at = "statuses"]) \/ Put(s, [w EXCEPT !.at = "giveback"])
    BY DEF Finish, ResolveResumed, GiveBack, AckResolve
  <2> QED
    BY <2>1, <2>2
<1>5. \A rows : Fits(s, on, rows, obligation)
  BY <1>3, <1>4 DEF Fits, RunOnly
<1>6. CASE run' = run
  BY <1>1, <1>2, <1>4, <1>5, <1>6, QuietKeeps
<1>7. ASSUME NEW new, run' = [run EXCEPT ![w.run] = new], new.state # "none",
             new.state \in Terminal => Unsettled(w.run) = {}
      PROVE  OwedInv'
  <2> HIDE DEF w
  <2> QED BY <1>1, <1>2, <1>3, <1>4, <1>5, <1>7, RunKeeps
<1>8. CASE Finish(s)
  <2> DEFINE to == FinalState(w)
  <2>1. \/ run' = run
        \/ MayAdvance(w.run, to) /\ run' = Advanced(w.run, to)
        \/ MayAdvance(w.run, to) /\ run' = Raised(w.run, to, "required")
    BY <1>8 DEF Finish, Writes
  <2>2. ASSUME MayAdvance(w.run, to)
        PROVE  to # "none" /\ (to \in Terminal => Unsettled(w.run) = {})
    <3>1. run[w.run].recovery = "none"
      BY <1>3, <1>8 DEF Finish, At
    <3> QED
      BY <2>2, <3>1, NeverNone DEF MayAdvance
  <2> HIDE DEF to
  <2> QED
    BY <1>3, <1>6, <1>7, <2>1, <2>2, AdvancedRun, WrittenRun
<1>9. CASE GiveBack(s)
  <2>1. run' = run \/ run' = Raised(w.run, "recovery_required", "required")
    BY <1>9 DEF GiveBack
  <2>2. "recovery_required" \notin Terminal
    BY DEF Terminal
  <2> QED
    BY <1>3, <1>6, <1>7, <2>1, <2>2, WrittenRun
<1>10. CASE ResolveResumed(s) \/ AckResolve(s)
  <2>1. \/ run' = run
        \/ \E to : MayResolve(w.run, to) /\ run' = Resolved(w.run, to)
    BY <1>10 DEF ResolveResumed, AckResolve, Writes
  <2>2. \A to : MayResolve(w.run, to) => to # "none" /\ Unsettled(w.run) = {}
    BY NeverNone DEF MayResolve
  <2> QED
    BY <1>3, <1>6, <1>7, <2>1, <2>2, WrittenRun DEF Resolved
<1> QED
  BY <1>8, <1>9, <1>10

\* Fits asks nothing of the other fields.
LEMMA AlikeFits ==
  ASSUME NEW s, NEW v, NEW w, NEW rows, NEW owed, Fits(s, w, rows, owed),
         v.at = w.at, v.left = w.left, v.run = w.run, v.kind = w.kind, v.scope = w.scope,
         v.then = w.then, v.bypassed = w.bypassed, v.hook = w.hook
  PROVE  Fits(s, v, rows, owed)
  BY DEF Fits, RunOnly

LEMMA ObligedValue ==
  ASSUME TypeOK, NEW r \in Runs, NEW c \in Scopes, NEW to, obligation' = Obliged(r, c, to)
  PROVE  /\ obligation'[r][c] = to
         /\ \A q \in Runs : q # r => obligation'[q] = obligation[q]
         /\ \A d \in Scopes : d # c => obligation'[r][d] = obligation[r][d]
  BY DEF Obliged, TypeOK

LEMMA EnterSetScopeOwed ==
  ASSUME TypeOK, OwedInv, NEW s \in Sets, EnterSetScope(s)
  PROVE  OwedInv'
<1> DEFINE w == work[s]
           in == [w EXCEPT !.entered = @ \cup {"set"}]
           on == Enter(in, "before", "set", "before")
           lame == [w EXCEPT !.failed = TRUE]
           off == SkipThen(lame, HooksOf("set", "before"), "cleanup")
<1>1. /\ Working /\ w.at = "enter" /\ Fits(s, w, run, obligation) /\ w \in WorkTypes
  BY AtIsWorking DEF EnterSetScope
<1>2. UNCHANGED <<phase, run, started>>
  BY DEF EnterSetScope, Only, ghosts
<1>3. \/ /\ MayOblige(w.run, "set", "eligible") /\ obligation' = Obliged(w.run, "set", "eligible")
         /\ Put(s, on)
      \/ UNCHANGED obligation /\ Put(s, off)
  BY DEF EnterSetScope, Writes
<1> HIDE DEF w
<1>4. /\ w.run \in Runs /\ SetOf[w.run] = s /\ w.kind = "run"
      /\ run[w.run].state \in Open /\ run[w.run].recovery = "none"
  BY <1>1 DEF Fits, RunOnly
<1>5. /\ in \in WorkTypes /\ in.run = w.run /\ in.kind = w.kind
      /\ lame \in WorkTypes /\ lame.run = w.run /\ lame.kind = w.kind
  BY <1>1, Names DEF WorkTypes
<1> HIDE DEF in, lame
<1>6. CASE /\ MayOblige(w.run, "set", "eligible") /\ obligation' = Obliged(w.run, "set", "eligible")
           /\ Put(s, on)
  <2>1. /\ obligation'[w.run]["set"] = "eligible"
        /\ \A q \in Runs : q # w.run => obligation'[q] = obligation[q]
        /\ \A d \in Scopes : d # "set" => obligation'[w.run][d] = obligation[w.run][d]
    BY <1>4, <1>6, ObligedValue, Names
  <2>2. Fits(s, on, run, obligation')
    BY <1>4, <1>5, <2>1, EnterFits DEF Scopes, Phases
  <2>3. CleanupIsOwed'
    <3>1. \A h \in Hooks : Stage[h].scope \in Scopes
      BY PlanAssumption
    <3>2. \A q \in Runs, d \in Scopes :
            obligation'[q][d] = "never_eligible" => obligation[q][d] = "never_eligible"
      BY <2>1
    <3>3. \A q \in Runs : run[q].state \in Terminal => Unsettled(q)' = Unsettled(q)
      BY <1>4, <2>1 DEF Unsettled, Terminal
    <3> QED
      BY <1>2, <3>1, <3>2, <3>3 DEF OwedInv, CleanupIsOwed
  <2>4. NoneIsFresh'
    BY <1>2 DEF OwedInv, NoneIsFresh
  <2> HIDE DEF on
  <2> QED
    BY <1>1, <1>2, <1>4, <1>6, <2>1, <2>2, <2>3, <2>4, LocalKeeps
<1>7. CASE UNCHANGED obligation /\ Put(s, off)
  <2>1. Fits(s, off, run, obligation)
    BY <1>4, <1>5, SkipThenFits DEF HooksOf
  <2> QED
    BY <1>1, <1>2, <1>7, <2>1, QuietKeeps
<1> QED
  BY <1>3, <1>6, <1>7

LEMMA TakeUpOwed ==
  ASSUME TypeOK, OwedInv, NEW s \in Sets, TakeUp(s)
  PROVE  OwedInv'
<1> DEFINE w == work[s]
           in == Enter(w, "after", w.scope, "after")
           on == [in EXCEPT !.lost = FALSE]
           off == [w EXCEPT !.at = "declare", !.failed = TRUE, !.bad = TRUE, !.owed = TRUE]
           lame == [w EXCEPT !.failed = TRUE]
<1>1. /\ Working /\ w.at = "owe" /\ Fits(s, w, run, obligation) /\ w \in WorkTypes
  BY AtIsWorking DEF TakeUp
<1>2. UNCHANGED <<phase, run, started>>
  BY DEF TakeUp, Only, ghosts
<1>3. \/ /\ MayOblige(w.run, w.scope, "running") /\ obligation' = Obliged(w.run, w.scope, "running")
         /\ Put(s, on)
      \/ UNCHANGED obligation /\ w.kind = "run" /\ Put(s, off)
      \/ UNCHANGED obligation /\ Put(s, Beyond(lame))
  BY DEF TakeUp, Writes
<1> HIDE DEF w
<1>4. /\ w.run \in Runs /\ SetOf[w.run] = s /\ w.scope \in Scopes
      /\ w.kind = "run" => run[w.run].state \in Open /\ run[w.run].recovery = "none"
  BY <1>1 DEF Fits, WorkTypes
<1>5. CASE /\ MayOblige(w.run, w.scope, "running")
           /\ obligation' = Obliged(w.run, w.scope, "running") /\ Put(s, on)
  <2>1. obligation'[w.run][w.scope] # "never_eligible"
    BY <1>4, <1>5, ObligedValue
  <2>2. Fits(s, in, run, obligation')
    BY <1>1, <1>4, <2>1, EnterFits DEF Phases
  <2>3. /\ in \in WorkTypes
    BY <1>1, <1>4, EnterTyped, Names
  <2> HIDE DEF in
  <2>4. /\ on.at = in.at /\ on.left = in.left /\ on.run = in.run /\ on.kind = in.kind
        /\ on.scope = in.scope /\ on.then = in.then /\ on.bypassed = in.bypassed
        /\ on.hook = in.hook
    BY <2>3 DEF WorkTypes
  <2> HIDE DEF on
  <2>5. Fits(s, on, run, obligation')
    BY <2>2, <2>4, AlikeFits
  <2> QED
    BY <1>1, <1>2, <1>4, <1>5, <2>5, ScopeKeeps
<1>6. CASE UNCHANGED obligation /\ w.kind = "run" /\ Put(s, off)
  <2>1. off.at = "declare" /\ off.run = w.run /\ off.kind = w.kind
    BY <1>1 DEF WorkTypes
  <2> HIDE DEF off
  <2>2. Fits(s, off, run, obligation)
    BY <1>4, <1>6, <2>1 DEF Fits, RunOnly
  <2> QED
    BY <1>1, <1>2, <1>6, <2>2, QuietKeeps
<1>7. CASE UNCHANGED obligation /\ Put(s, Beyond(lame))
  <2>1. lame \in WorkTypes /\ lame.run = w.run /\ lame.kind = w.kind
    BY <1>1 DEF WorkTypes
  <2> HIDE DEF lame
  <2>2. Fits(s, Beyond(lame), run, obligation)
    BY <1>4, <2>1, BeyondFits
  <2> QED
    BY <1>1, <1>2, <1>7, <2>2, QuietKeeps
<1> QED
  BY <1>3, <1>5, <1>6, <1>7

LEMMA ScopeStepsOwed ==
  ASSUME TypeOK, OwedInv, NEW s \in Sets, Declare(s) \/ SettleScope(s) \/ AckScope(s)
  PROVE  OwedInv'
<1> DEFINE w == work[s]
<1>1. /\ Working /\ w.at \in {"declare", "after", "ack"} /\ Fits(s, w, run, obligation)
      /\ w \in WorkTypes
  BY AtIsWorking DEF Declare, SettleScope, AckScope
<1>2. UNCHANGED <<phase, run, started>>
  BY DEF Declare, SettleScope, AckScope, Only, ghosts
<1>3. /\ w.run \in Runs /\ SetOf[w.run] = s /\ w.scope \in Scopes
      /\ w.kind = "run" /\ w.at # "ack" =>
           run[w.run].state \in Open /\ run[w.run].recovery = "none"
  BY <1>1 DEF Fits, WorkTypes, RunOnly
<1>4. CASE Declare(s)
  <2>1. \/ /\ MayOblige(w.run, w.scope, "recovery_required")
           /\ obligation' = Obliged(w.run, w.scope, "recovery_required")
        \/ obligation' = obligation
    BY <1>4 DEF Declare, Writes
  <2>2. Put(s, Beyond(w)) /\ w.at = "declare"
    BY <1>4 DEF Declare, At
  <2> HIDE DEF w
  <2>3. \A owed : Fits(s, Beyond(w), run, owed)
    BY <1>1, <1>3, <2>2, BeyondFits
  <2>4. CASE obligation' = obligation
    BY <1>1, <1>2, <2>2, <2>3, <2>4, QuietKeeps
  <2>5. CASE /\ MayOblige(w.run, w.scope, "recovery_required")
             /\ obligation' = Obliged(w.run, w.scope, "recovery_required")
    BY <1>1, <1>2, <1>3, <2>2, <2>3, <2>5, ScopeKeeps
  <2> QED
    BY <2>1, <2>4, <2>5
<1>5. CASE SettleScope(s)
  <2> DEFINE bad == w.bad \/ (w.kind = "resume" /\ Outcome(w) = "failed")
             past == [w EXCEPT !.bad = bad]
             on == Beyond(past)
             off == [on EXCEPT !.failed = TRUE]
  <2>1. /\ \/ MayOblige(w.run, w.scope, Outcome(w)) /\ obligation' = Obliged(w.run, w.scope, Outcome(w))
           \/ obligation' = obligation
        /\ Put(s, on) \/ Put(s, off)
    BY <1>5 DEF SettleScope, Writes
  <2>2. w.at = "after" /\ Outcome(w) # "eligible"
    BY <1>5 DEF SettleScope, At, Outcome
  <2> HIDE DEF w
  <2>3. past \in WorkTypes /\ past.run = w.run /\ past.kind = w.kind
    <3>1. bad \in BOOLEAN
      BY <1>1 DEF WorkTypes
    <3> HIDE DEF bad
    <3> QED BY <1>1, <3>1 DEF WorkTypes
  <2> HIDE DEF past
  <2>4. on \in WorkTypes /\ \A owed : Fits(s, on, run, owed)
    BY <1>3, <2>2, <2>3, BeyondFits, BeyondTyped
  <2> HIDE DEF on
  <2>5. /\ off.at = on.at /\ off.left = on.left /\ off.run = on.run /\ off.kind = on.kind
        /\ off.scope = on.scope /\ off.then = on.then /\ off.bypassed = on.bypassed
        /\ off.hook = on.hook
    BY <2>4 DEF WorkTypes
  <2> HIDE DEF off
  <2>6. \A owed : Fits(s, off, run, owed)
    BY <2>4, <2>5, AlikeFits
  <2>7. PICK new : Put(s, new) /\ \A owed : Fits(s, new, run, owed)
    BY <2>1, <2>4, <2>6
  <2>8. CASE obligation' = obligation
    BY <1>1, <1>2, <2>7, <2>8, QuietKeeps
  <2>9. CASE /\ MayOblige(w.run, w.scope, Outcome(w))
             /\ obligation' = Obliged(w.run, w.scope, Outcome(w))
    BY <1>1, <1>2, <1>3, <2>2, <2>7, <2>9, ScopeKeeps
  <2> QED
    BY <2>1, <2>8, <2>9
<1>6. CASE AckScope(s)
  <2> DEFINE scope == IF "global" \in Unsettled(w.run) THEN "global" ELSE "set"
  <2>1. \/ /\ MayOblige(w.run, scope, "acknowledged")
           /\ obligation' = Obliged(w.run, scope, "acknowledged") /\ UNCHANGED work
        \/ UNCHANGED obligation /\ Put(s, Idle)
    BY <1>6 DEF AckScope, Writes
  <2>2. w.at = "ack" /\ scope \in Scopes
    BY <1>6, Names DEF AckScope, At
  <2>3. CASE UNCHANGED obligation /\ Put(s, Idle)
    BY <1>1, <1>2, <2>3, IdleFits, QuietKeeps DEF Idle
  <2>4. CASE /\ MayOblige(w.run, scope, "acknowledged")
             /\ obligation' = Obliged(w.run, scope, "acknowledged") /\ UNCHANGED work
    <3>1. Put(s, w)
      BY <2>4 DEF Put, TypeOK
    <3>2. Fits(s, w, run, obligation')
      BY <1>1, <2>2 DEF Fits, RunOnly
    <3> HIDE DEF w, scope
    <3> QED
      BY <1>1, <1>2, <1>3, <2>2, <2>4, <3>1, <3>2, ScopeKeeps
  <2> QED
    BY <2>1, <2>3, <2>4
<1> QED
  BY <1>4, <1>5, <1>6

LEMMA HookStepsOwed ==
  ASSUME TypeOK, OwedInv, NEW s \in Sets, BeforeHook(s) \/ AfterHook(s)
  PROVE  OwedInv'
<1> DEFINE w == work[s]
<1>1. /\ Working /\ w.at \in {"before", "after"} /\ Fits(s, w, run, obligation)
      /\ w \in WorkTypes
  BY AtIsWorking DEF BeforeHook, AfterHook
<1>2. UNCHANGED <<phase, run, obligation>>
  BY DEF BeforeHook, AfterHook, Only
<1>3. PICK h \in First(w.left) : RunHook(s, w, h)
  BY DEF BeforeHook, AfterHook
<1> HIDE DEF w
<1>4. /\ h \in Hooks /\ Stage[h] = [scope |-> w.scope, phase |-> w.at] /\ h \in w.left
  BY <1>1, <1>3 DEF First, HooksOf, Fits, WorkTypes
<1>5. /\ w.run \in Runs /\ SetOf[w.run] = s
      /\ w.kind = "run" => run[w.run].state \in Open /\ run[w.run].recovery = "none"
      /\ w.at = "before" => w.kind = "run"
      /\ w.left \subseteq HooksOf(w.scope, w.at)
      /\ obligation[w.run][w.scope] # "never_eligible"
  BY <1>1 DEF Fits, RunOnly
<1>6. CleanupIsOwed'
  <2>1. \A q \in Runs, g \in Hooks : started'[q][g] = started[q][g] \/ (q = w.run /\ g = h)
    BY <1>3 DEF RunHook, ghosts, TypeOK
  <2>2. Stage[h].scope = w.scope
    BY <1>4
  <2> QED
    BY <1>2, <1>5, <2>1, <2>2 DEF OwedInv, CleanupIsOwed, Unsettled
<1>7. NoneIsFresh'
  BY <1>2 DEF OwedInv, NoneIsFresh
<1> DEFINE on == [w EXCEPT !.left = @ \ {h}]
           hooking == [on EXCEPT !.at = "hook", !.hook = h]
           missed == [on EXCEPT !.ok = FALSE, !.failed = TRUE]
           bad == Failing(on, h, "failed")
<1>8. Put(s, hooking) \/ Put(s, missed) \/ Put(s, bad)
  BY <1>3 DEF RunHook
<1>9. /\ on.left \subseteq w.left /\ on.at = w.at /\ on.run = w.run /\ on.kind = w.kind
      /\ on.scope = w.scope /\ on \in WorkTypes
  BY <1>1, Names DEF WorkTypes
<1> HIDE DEF on
<1>10. Fits(s, on, run, obligation)
  BY <1>1, <1>5, <1>9 DEF Fits, RunOnly
<1>11. Fits(s, hooking, run, obligation)
  <2>1. /\ hooking.at = "hook" /\ hooking.hook = h /\ hooking.left = on.left
        /\ hooking.run = on.run /\ hooking.kind = on.kind /\ hooking.scope = on.scope
    BY <1>9 DEF WorkTypes
  <2> HIDE DEF hooking
  <2> QED
    BY <1>4, <1>5, <1>9, <2>1 DEF Fits, RunOnly
<1>12. Fits(s, missed, run, obligation)
  <2>1. /\ missed.at = on.at /\ missed.left = on.left /\ missed.run = on.run
        /\ missed.kind = on.kind /\ missed.scope = on.scope /\ missed.then = on.then
        /\ missed.bypassed = on.bypassed /\ missed.hook = on.hook
    BY <1>9 DEF WorkTypes
  <2> HIDE DEF missed
  <2> QED
    BY <1>10, <2>1, AlikeFits
<1>13. Fits(s, bad, run, obligation)
  <2>1. /\ bad.at = on.at /\ bad.left = on.left /\ bad.run = on.run
        /\ bad.kind = on.kind /\ bad.scope = on.scope /\ bad.then = on.then
        /\ bad.bypassed = on.bypassed /\ bad.hook = on.hook
    BY <1>9 DEF Failing, WorkTypes
  <2> HIDE DEF bad
  <2> QED
    BY <1>10, <2>1, AlikeFits
<1> HIDE DEF hooking, missed, bad
<1> QED
  BY <1>1, <1>2, <1>6, <1>7, <1>8, <1>11, <1>12, <1>13, LocalKeeps

\* While nothing works, only what is recorded counts.
LEMMA IdleKeeps ==
  ASSUME CleanupIsOwed', NoneIsFresh', \A s \in Sets : work'[s].at = "idle",
         ~Working' => asked' = {}
  PROVE  OwedInv'
<1>1. \A s \in Sets : Fits(s, work'[s], run', obligation')
  BY IdleFits
<1> QED
  BY <1>1 DEF OwedInv

LEMMA ProcessOwed ==
  ASSUME TypeOK, OwedInv, Crash \/ Stop \/ PassFails
  PROVE  OwedInv'
<1>1. UNCHANGED <<run, obligation, started>>
  BY DEF Crash, Stop, Die, PassFails, journal, ghosts
<1>2. CleanupIsOwed' /\ NoneIsFresh'
  BY <1>1 DEF OwedInv, CleanupIsOwed, NoneIsFresh, Unsettled
<1>3. (\A s \in Sets : work'[s].at = "idle") /\ (~Working' => asked' = {})
  BY DEF Crash, Stop, Die, PassFails, OwedInv, Working, Idle
<1> QED
  BY <1>2, <1>3, IdleKeeps

LEMMA StartupOwed ==
  ASSUME TypeOK, OwedInv, Startup
  PROVE  OwedInv'
<1>1. UNCHANGED <<work, asked, started>> /\ ~Working
  BY DEF Startup, Start, OpenDone, Serve, ReconcileRun, SettleLeft, MarkOutstanding, Working,
     ghosts, memory
<1>2. (\A s \in Sets : work'[s].at = "idle") /\ (~Working' => asked' = {})
  BY <1>1 DEF OwedInv
<1>3. CASE UNCHANGED <<run, obligation>>
  <2>1. CleanupIsOwed' /\ NoneIsFresh'
    BY <1>1, <1>3 DEF OwedInv, CleanupIsOwed, NoneIsFresh, Unsettled
  <2> QED
    BY <1>2, <2>1, IdleKeeps
<1>4. ASSUME NEW r \in Runs, NEW new, run' = [run EXCEPT ![r] = new], UNCHANGED obligation,
             new.state # "none", new.state \in Terminal => Unsettled(r) = {}
      PROVE  OwedInv'
  <2>1. \A q \in Runs : run'[q] = IF q = r THEN new ELSE run[q]
    BY <1>4 DEF TypeOK
  <2>2. CleanupIsOwed'
    BY <1>1, <1>4, <2>1, AdvanceKeeps DEF OwedInv
  <2>3. NoneIsFresh'
    BY <1>4, <2>1 DEF OwedInv, NoneIsFresh
  <2> QED
    BY <1>2, <2>2, <2>3, IdleKeeps
<1>5. ASSUME NEW r \in Runs, ReconcileRun(r)
      PROVE  OwedInv'
  <2>1. CASE ~MayReconcile(r)
    BY <1>3, <1>5, <2>1 DEF ReconcileRun, journal
  <2>2. CASE MayReconcile(r) /\ Unsettled(r) = {}
    <3>1. run' = Advanced(r, Verdict(r)) /\ UNCHANGED obligation /\ MayAdvance(r, Verdict(r))
      BY <1>5, <2>2 DEF ReconcileRun, Reconciled, MayReconcile
    <3>2. Verdict(r) # "none"
      BY DEF Verdict
    <3> QED
      BY <1>4, <2>2, <3>1, <3>2, AdvancedRun
  <2>3. CASE MayReconcile(r) /\ Unsettled(r) # {}
    <3>1. /\ run' = Raised(r, "recovery_required", "required")
          /\ obligation' = [obligation EXCEPT ![r] =
               [s \in Scopes |-> IF s \in Unsettled(r) THEN "recovery_required" ELSE obligation[r][s]]]
      BY <1>5, <2>3 DEF ReconcileRun, Reconciled
    <3>2. PICK new : /\ run' = [run EXCEPT ![r] = new] /\ new.state = "recovery_required"
                     /\ new.recovery = "required"
      BY <3>1, WrittenRun
    <3>3. \A q \in Runs : run'[q] = IF q = r THEN new ELSE run[q]
      BY <3>2 DEF TypeOK
    <3>4. /\ \A q \in Runs : q # r => obligation'[q] = obligation[q]
          /\ \A d \in Scopes : obligation'[r][d] # obligation[r][d] =>
                                obligation'[r][d] = "recovery_required"
      BY <3>1 DEF TypeOK
    <3>5. \A q \in Runs, d \in Scopes :
            obligation'[q][d] = "never_eligible" => obligation[q][d] = "never_eligible"
      BY <3>4
    <3>6. \A q \in Runs : run'[q].state \in Terminal =>
                           run[q].state \in Terminal /\ Unsettled(q)' = Unsettled(q)
      BY <3>2, <3>3, <3>4 DEF Unsettled, Terminal
    <3>7. \A h \in Hooks : Stage[h].scope \in Scopes
      BY PlanAssumption
    <3>8. CleanupIsOwed'
      BY <1>1, <3>5, <3>6, <3>7 DEF OwedInv, CleanupIsOwed
    <3>9. NoneIsFresh'
      BY <3>2, <3>3 DEF OwedInv, NoneIsFresh
    <3> QED
      BY <1>2, <3>8, <3>9, IdleKeeps
  <2> QED
    BY <2>1, <2>2, <2>3
<1>6. ASSUME NEW r \in Runs, SettleLeft(r)
      PROVE  OwedInv'
  <2>1. \/ UNCHANGED <<run, obligation>>
        \/ /\ UNCHANGED obligation
           /\ \E to \in {"cleanup_failed", "recovered"} : run' = Resolved(r, to)
    BY <1>6 DEF SettleLeft
  <2>2. Unsettled(r) = {}
    BY <1>6 DEF SettleLeft
  <2> QED
    BY <1>3, <1>4, <2>1, <2>2, WrittenRun DEF Resolved
<1>7. ASSUME NEW r \in Runs, NEW c \in Scopes, MarkOutstanding(r, c)
      PROVE  OwedInv'
  <2>1. /\ MayOblige(r, c, "recovery_required") /\ UNCHANGED <<run, started>>
        /\ obligation' = Obliged(r, c, "recovery_required")
    BY <1>7 DEF MarkOutstanding, ghosts
  <2>2. CleanupIsOwed'
    BY <2>1, ObligeKeeps DEF OwedInv
  <2>3. NoneIsFresh'
    BY <2>1 DEF OwedInv, NoneIsFresh
  <2> QED
    BY <1>2, <2>2, <2>3, IdleKeeps
<1> QED
  BY <1>3, <1>5, <1>6, <1>7 DEF Startup, Start, OpenDone, Serve, journal

LEMMA RequestsOwed ==
  ASSUME TypeOK, OwedInv, Requests
  PROVE  OwedInv'
<1>1. ASSUME UNCHANGED <<run, obligation, phase, work, started>>, Working \/ asked' \subseteq asked
      PROVE  OwedInv'
  BY <1>1 DEF OwedInv, CleanupIsOwed, NoneIsFresh, Unsettled, Working
<1>2. \A q : Acquire(q) => Working
  BY DEF Acquire, OwedInv
<1>3. \A r \in Runs : SetOf[r] \in Sets
  BY PlanAssumption
<1>4. ASSUME NEW s \in Sets, BeginRun(s)
      PROVE  OwedInv'
  <2>1. PICK r \in First(Fresh(s)), bypassed \in {FALSE, Bypassing} :
          \/ /\ Committed(r, bypassed)
             /\ Put(s, [Idle EXCEPT !.at = "start", !.kind = "run", !.run = r,
                          !.bypassed = bypassed,
                          !.entered = IF bypassed THEN {} ELSE {"global"}])
             /\ UNCHANGED faults
          \/ Fault("call") /\ UNCHANGED <<journal, work>>
    BY <1>4 DEF BeginRun
  <2> DEFINE w == [Idle EXCEPT !.at = "start", !.kind = "run", !.run = r, !.bypassed = bypassed,
                               !.entered = IF bypassed THEN {} ELSE {"global"}]
  <2>2. r \in Runs /\ SetOf[r] = s /\ run[r].state = "none" /\ run[r].recovery = "none"
    BY DEF First, Fresh, OwedInv, NoneIsFresh
  <2>3. Working /\ UNCHANGED <<phase, started>> /\ asked' \subseteq asked
    BY <1>2, <1>4 DEF BeginRun, Acquire, ghosts
  <2>4. w.at = "start" /\ w.kind = "run" /\ w.run = r /\ w.bypassed = bypassed
    BY DEF Idle
  <2>5. CASE Committed(r, bypassed) /\ Put(s, w)
    <3> HIDE DEF w
    <3>1. PICK new : /\ run' = [run EXCEPT ![r] = new] /\ new.state = "pending"
                     /\ new.recovery = "none"
      BY <2>2, <2>5, AdvancedRun DEF Committed
    <3>2. \A q \in Runs : run'[q] = IF q = r THEN new ELSE run[q]
      BY <3>1 DEF TypeOK
    <3>3. /\ \A q \in Runs : q # r => obligation'[q] = obligation[q]
          /\ \A d \in Scopes : obligation'[r][d] # obligation[r][d] =>
                                obligation'[r][d] = "eligible"
          /\ ~bypassed => obligation'[r]["global"] = "eligible"
      BY <2>2, <2>5, Names DEF Committed, TypeOK
    <3>4. Fits(s, w, run', obligation')
      BY <2>2, <2>4, <3>1, <3>2, <3>3 DEF Fits, RunOnly, Open
    <3>5. \A q \in Runs, d \in Scopes :
            obligation'[q][d] = "never_eligible" => obligation[q][d] = "never_eligible"
      BY <3>3
    <3>6. \A q \in Runs : run'[q].state \in Terminal =>
                           run[q].state \in Terminal /\ Unsettled(q)' = Unsettled(q)
      BY <3>1, <3>2, <3>3 DEF Unsettled, Terminal, Open
    <3>7. \A h \in Hooks : Stage[h].scope \in Scopes
      BY PlanAssumption
    <3>8. CleanupIsOwed'
      BY <2>3, <3>5, <3>6, <3>7 DEF OwedInv, CleanupIsOwed
    <3>9. NoneIsFresh'
      BY <3>1, <3>2 DEF OwedInv, NoneIsFresh
    <3>10. \A q \in Runs : SetOf[q] # s => run'[q] = run[q] /\ obligation'[q] = obligation[q]
      BY <2>2, <3>2, <3>3
    <3> QED
      BY <2>3, <2>5, <3>4, <3>8, <3>9, <3>10, LocalKeeps
  <2>6. CASE UNCHANGED <<journal, work>>
    BY <1>1, <2>3, <2>6 DEF journal
  <2> QED
    BY <2>1, <2>5, <2>6
<1>5. ASSUME NEW r \in Runs, BeginResume(r)
      PROVE  OwedInv'
  <2> DEFINE w == [Idle EXCEPT !.at = "owe", !.kind = "resume", !.run = r, !.scope = "set"]
  <2>1. Working /\ UNCHANGED <<phase, obligation, started>> /\ asked' \subseteq asked
    BY <1>2, <1>5 DEF BeginResume, Acquire, ghosts
  <2>2. \/ run' = Raised(r, "cleanup_running", "in_progress") /\ Put(SetOf[r], w)
        \/ UNCHANGED <<run, work>>
    BY <1>5 DEF BeginResume
  <2>3. CASE UNCHANGED <<run, work>>
    BY <1>1, <2>1, <2>3
  <2>4. CASE run' = Raised(r, "cleanup_running", "in_progress") /\ Put(SetOf[r], w)
    <3>1. PICK new : run' = [run EXCEPT ![r] = new] /\ new.state = "cleanup_running"
      BY <2>4, WrittenRun
    <3>2. new.state # "none" /\ new.state \notin Terminal
      BY <3>1 DEF Terminal, Open
    <3>3. w.at = "owe" /\ w.kind = "resume" /\ w.run = r
      BY DEF Idle
    <3> HIDE DEF w
    <3>4. Fits(SetOf[r], w, run', obligation)
      BY <3>3 DEF Fits, RunOnly
    <3> QED
      BY <1>3, <2>1, <2>4, <3>1, <3>2, <3>4, RunKeeps
  <2> QED
    BY <2>2, <2>3, <2>4
<1>6. ASSUME NEW r \in Runs, BeginAck(r)
      PROVE  OwedInv'
  <2> DEFINE w == [Idle EXCEPT !.at = "ack", !.kind = "ack", !.run = r]
  <2>1. Working /\ Put(SetOf[r], w) /\ UNCHANGED <<phase, run, obligation, started>>
    BY <1>2, <1>6 DEF BeginAck, journal, ghosts
  <2>2. w.at = "ack" /\ w.kind = "ack" /\ w.run = r
    BY DEF Idle
  <2> HIDE DEF w
  <2>3. Fits(SetOf[r], w, run, obligation)
    BY <2>2 DEF Fits, RunOnly
  <2> QED
    BY <1>3, <2>1, <2>3, QuietKeeps
<1>7. ASSUME NEW q, Ask(q) \/ Busy(q)
      PROVE  OwedInv'
  BY <1>1, <1>7 DEF Ask, Busy, journal, ghosts
<1> QED
  BY <1>4, <1>5, <1>6, <1>7 DEF Requests, AskRun, AskResume, AskAck

LEMMA InitOwed ==
  ASSUME Init
  PROVE  OwedInv
<1>1. CleanupIsOwed
  <2>1. \A r \in Runs : run[r].state \notin Terminal
    BY DEF Init, JournalInit, NoRow, Terminal
  <2> QED
    BY <2>1 DEF Init, CleanupIsOwed
<1>2. NoneIsFresh
  BY DEF Init, JournalInit, NoRow, NoneIsFresh
<1>3. asked = {} /\ \A s \in Sets : work[s].at = "idle"
  BY DEF Init, Idle
<1> QED
  BY <1>1, <1>2, <1>3, IdleFits DEF OwedInv

LEMMA NextOwed ==
  ASSUME TypeOK, OwedInv, [Next]_vars
  PROVE  OwedInv'
<1>1. CASE UNCHANGED vars
  BY <1>1 DEF vars, OwedInv, CleanupIsOwed, NoneIsFresh, Unsettled, Working
<1>2. ASSUME NEW s \in Sets, WorkStep(s) \/ StopRun(s)
      PROVE  OwedInv'
  BY <1>2, QuietBeforeOwed, QuietAfterOwed, RunStepsOwed, ClosingStepsOwed, EnterSetScopeOwed,
     TakeUpOwed, ScopeStepsOwed, HookStepsOwed DEF WorkStep
<1> QED
  BY <1>1, <1>2, ProcessOwed, StartupOwed, RequestsOwed DEF Next

\* What is owed is on record, for any plan and any number of runs and sets: a
\* scope has its obligation before one of its hooks starts (enterSetScope,
\* CommitWorkflowPlan), and no run is closed over a scope nobody accounted for
\* (checkTerminalIsAccountedFor), whatever dies or is refused on the way.
THEOREM CleanupIsOwedHolds == Spec => []CleanupIsOwed
<1>1. Init => TypeOK /\ OwedInv
  BY InitTyped, InitOwed
<1>2. TypeOK /\ OwedInv /\ [Next]_vars => TypeOK' /\ OwedInv'
  BY NextTyped, NextOwed
<1>3. OwedInv => CleanupIsOwed
  BY DEF OwedInv
<1> QED
  BY <1>1, <1>2, <1>3, PTL DEF Spec

=============================================================================
