------------------------ MODULE WorkflowRecoveryProofs ------------------------
(***************************************************************************)
(* Theorems about WorkflowRun: who clears a scope in recovery, and what    *)
(* success means.                                                          *)
(*                                                                         *)
(* A run takes scopes up too, so it has to be known that none ahead of it  *)
(* is in recovery.  Whoever stands before the cleanup has put none there,  *)
(* and whoever left the set's scope in recovery has only the global one    *)
(* ahead.  A step of a set's work goes on with it or ends it (Onward), and *)
(* writes of the scope it is at or of none (Obliges); the rest of the      *)
(* argument (MovesClear) is the same for all of them.                      *)
(***************************************************************************)
EXTENDS WorkflowRunProofs

\* Where a piece of work is, whether or not it is busy with hooks there.
Standing(w) ==
  CASE w.at = "skip" -> w.then
    [] w.at = "hook" -> Stage[w.hook].phase
    [] OTHER -> w.at

\* The scopes whose cleanup is yet to be taken up.
AheadAt(place, scope) ==
  CASE place \in {"start", "before", "enter", "backup", "cleanup"} -> Scopes
    [] place = "owe" -> IF scope = "set" THEN Scopes ELSE {"global"}
    [] place \in {"after", "declare"} -> IF scope = "set" THEN {"global"} ELSE {}
    [] OTHER -> {}
Ahead(w) == AheadAt(Standing(w), w.scope)

\* What a piece of work has not put into recovery, and who does it.
Unhurt(w, owed) ==
  /\ w.kind = "run" => \A c \in Ahead(w) : owed[w.run][c] # "recovery_required"
  /\ w.at = "ack" => w.kind = "ack"
  /\ Standing(w) \in {"owe", "after"} => w.kind \in {"run", "resume"}

NonePromised ==
  \A r \in Runs : run[r].state = "none" => \A c \in Scopes : obligation[r][c] = "never_eligible"

ClearInv == NonePromised /\ \A s \in Sets : Unhurt(work[s], obligation)

\* The body of OnlyAPersonClears.
ByAPerson ==
  \A r \in Runs, s \in Scopes :
    obligation[r][s] = "recovery_required" /\ obligation'[r][s] # "recovery_required" =>
      /\ work[SetOf[r]].run = r
      /\ \/ work[SetOf[r]].kind = "resume" /\ obligation'[r][s] = "running"
         \/ work[SetOf[r]].kind = "ack" /\ obligation'[r][s] = "acknowledged"

\* A step of a piece of work goes on with it, forgetting no failure and beginning
\* a cleanup with all its hooks, or ends it.
Onward(w, v) ==
  \/ v.kind = "none" /\ v.at \in {"idle", "load", "store"}
  \/ /\ v.run = w.run /\ v.kind = w.kind /\ Ahead(v) \subseteq Ahead(w)
     /\ w.failed => v.failed
     /\ v.at = "ack" => w.at = "ack"
     /\ Standing(v) \in {"owe", "after"} => Standing(w) \in {"owe", "after"} \/ w.kind = "run"
     /\ Standing(v) = "after" /\ Standing(w) # "after" => HooksOf(v.scope, "after") \subseteq v.left

\* What it writes of its scopes, if anything: the one it is at.
Obliges(w, v) ==
  \/ UNCHANGED obligation
  \/ \E c \in Scopes, to \in ObligationStates :
       /\ MayOblige(w.run, c, to) /\ obligation' = Obliged(w.run, c, to)
       /\ to = "recovery_required" => c \notin Ahead(v)
       /\ to = "running" => (w.kind = "run" /\ c \in Ahead(w)) \/ w.kind = "resume"
       /\ to = "acknowledged" => w.kind = "ack"
       /\ to = "eligible" => run[w.run].state # "none"
       /\ w.run \in Runs /\ w.at \notin {"idle", "load", "store"}

LEMMA AheadScopes ==
  ASSUME NEW w
  PROVE  Ahead(w) \subseteq Scopes
  BY Names DEF Ahead, AheadAt

\* Where the helpers of a run's course lead.
LEMMA SkipThenStands ==
  ASSUME NEW w \in WorkTypes, NEW hs, NEW place \in Places \ {"hook", "skip", "ack"}
  PROVE  LET v == SkipThen(w, hs, place)
         IN /\ v.run = w.run /\ v.kind = w.kind /\ v.scope = w.scope
            /\ v.failed = w.failed /\ Standing(v) = place /\ v.at # "ack"
<1>1. CASE hs = {}
  <2> DEFINE on == [w EXCEPT !.at = place, !.left = {}, !.then = "idle"]
  <2>1. SkipThen(w, hs, place) = on
    BY <1>1 DEF SkipThen
  <2>2. /\ on.at = place /\ on.run = w.run /\ on.kind = w.kind /\ on.scope = w.scope
        /\ on.failed = w.failed
    BY DEF WorkTypes
  <2> HIDE DEF on
  <2> QED
    BY <2>1, <2>2 DEF Standing
<1>2. CASE hs # {}
  <2> DEFINE on == [w EXCEPT !.at = "skip", !.left = hs, !.then = place]
  <2>1. SkipThen(w, hs, place) = on
    BY <1>2 DEF SkipThen
  <2>2. /\ on.at = "skip" /\ on.then = place /\ on.run = w.run /\ on.kind = w.kind
        /\ on.scope = w.scope /\ on.failed = w.failed
    BY DEF WorkTypes
  <2> HIDE DEF on
  <2> QED
    BY <2>1, <2>2 DEF Standing
<1> QED
  BY <1>1, <1>2

LEMMA EnterStands ==
  ASSUME NEW w \in WorkTypes, NEW place \in Phases, NEW scope
  PROVE  LET v == Enter(w, place, scope, place)
         IN /\ v.run = w.run /\ v.kind = w.kind /\ v.scope = scope /\ v.at = place
            /\ v.failed = w.failed /\ v.left = HooksOf(scope, place)
  BY DEF Enter, WorkTypes

LEMMA BeyondStands ==
  ASSUME NEW w \in WorkTypes
  PROVE  LET v == Beyond(w)
         IN /\ v.run = w.run /\ v.kind = w.kind /\ v.failed = w.failed
            /\ IF w.scope = "set" THEN v.at = "owe" /\ v.scope = "global"
               ELSE v.at \in {"finish", "resolve"}
  BY DEF Beyond, WorkTypes

\* Nothing is behind a run that has not come to its cleanup.
LEMMA OnFromBefore ==
  ASSUME NEW w, w.at \in {"start", "before", "enter", "backup", "cleanup"}, w.kind = "run",
         NEW v, v.run = w.run, v.kind = w.kind, v.at # "ack", w.failed => v.failed,
         Standing(v) # "after"
  PROVE  Onward(w, v)
<1>1. Ahead(w) = Scopes
  BY DEF Ahead, AheadAt, Standing
<1> QED
  BY <1>1, AheadScopes DEF Onward

\* Work that stays where it is.
LEMMA OnInPlace ==
  ASSUME NEW w, NEW v, v.run = w.run, v.kind = w.kind, v.scope = w.scope,
         Standing(v) = Standing(w), v.at # "ack", w.failed => v.failed
  PROVE  Onward(w, v)
  BY DEF Onward, Ahead

\* Work that leaves its scope.
LEMMA OnBeyond ==
  ASSUME NEW w \in WorkTypes, w.at \in {"owe", "after", "declare"},
         w.at = "declare" => w.kind = "run",
         NEW v, v.run = w.run, v.kind = w.kind, v.at # "ack", w.failed => v.failed,
         IF w.scope = "set" THEN Standing(v) = "owe" /\ v.scope = "global"
         ELSE Standing(v) \in {"finish", "resolve"}
  PROVE  Onward(w, v) /\ w.scope \notin Ahead(v)
<1>1. CASE w.scope = "set"
  <2>1. Ahead(v) = {"global"}
    BY <1>1 DEF Ahead, AheadAt
  <2>2. "global" \in Ahead(w)
    BY <1>1, Names DEF Ahead, AheadAt, Standing
  <2>3. Standing(w) \in {"owe", "after"} \/ w.kind = "run"
    BY DEF Standing
  <2> QED
    BY <1>1, <2>1, <2>2, <2>3 DEF Onward
<1>2. CASE w.scope # "set"
  <2>1. Ahead(v) = {} /\ Standing(v) \notin {"owe", "after"}
    BY <1>2 DEF Ahead, AheadAt
  <2> QED
    BY <2>1 DEF Onward
<1> QED
  BY <1>1, <1>2

\* Work that is over, or has nothing ahead of it.
LEMMA OnToTheEnd ==
  ASSUME NEW w, NEW v,
         \/ v.kind = "none" /\ v.at \in {"idle", "load", "store"}
         \/ /\ v.run = w.run /\ v.kind = w.kind /\ v.failed = w.failed
            /\ v.at \in {"store", "statuses", "giveback"}
  PROVE  Onward(w, v)
<1>1. CASE v.at \in {"store", "statuses", "giveback"}
  <2>1. Ahead(v) = {} /\ Standing(v) \notin {"owe", "after"}
    BY <1>1 DEF Ahead, AheadAt, Standing
  <2> QED
    BY <1>1, <2>1 DEF Onward
<1>2. CASE v.kind = "none" /\ v.at \in {"idle", "load", "store"}
  BY <1>2 DEF Onward
<1> QED
  BY <1>1, <1>2

\* A step of a set's work, as the argument sees it.
Moves(s) ==
  \E v : Put(s, v) /\ Onward(work[s], v) /\ Obliges(work[s], v)

LEMMA BeforeMoves ==
  ASSUME TypeOK, OwedInv, NEW s \in Sets,
         \/ RecordStart(s) \/ BeforeSkips(s) \/ BeforeDone(s) \/ StopRun(s) \/ Backup(s)
         \/ CleanupStarts(s) \/ EnterSetScope(s)
  PROVE  Moves(s)
<1> DEFINE w == work[s]
<1>1. /\ w.at \in {"start", "before", "enter", "backup", "cleanup"}
      /\ Fits(s, w, run, obligation) /\ w \in WorkTypes
  BY AtIsWorking DEF RecordStart, BeforeSkips, BeforeDone, StopRun, Backup, CleanupStarts,
     EnterSetScope
<1>2. /\ w.kind = "run" /\ w.run \in Runs /\ run[w.run].state # "none"
  BY <1>1 DEF Fits, RunOnly, Open
<1> HIDE DEF w
<1>3. ASSUME NEW v, Put(s, v), v.run = w.run, v.kind = w.kind, v.at # "ack",
             w.failed => v.failed, Standing(v) # "after",
             \/ UNCHANGED obligation
             \/ MayOblige(w.run, "set", "eligible") /\ obligation' = Obliged(w.run, "set", "eligible")
      PROVE  Moves(s)
  <2>1. Onward(w, v)
    BY <1>1, <1>2, <1>3, OnFromBefore
  <2>2. Obliges(w, v)
    <3>1. "set" \in Scopes /\ "eligible" \in ObligationStates
      BY Names, JournalNames
    <3>2. CASE UNCHANGED obligation
      BY <3>2 DEF Obliges
    <3>3. CASE MayOblige(w.run, "set", "eligible") /\ obligation' = Obliged(w.run, "set", "eligible")
      BY <1>1, <1>2, <3>1, <3>3 DEF Obliges
    <3> QED
      BY <1>3, <3>2, <3>3
  <2> QED
    BY <1>3, <2>1, <2>2 DEF Moves, w
<1>4. CASE RecordStart(s)
  <2> DEFINE lame == [w EXCEPT !.failed = TRUE, !.bypassed = FALSE]
             v1 == SkipThen(w, Hooks, "backup")
             v2 == Enter(w, "before", "global", "before")
             v3 == SkipThen(lame, HooksOf("global", "before") \cup HooksOf("set", "before"), "cleanup")
  <2>1. (Put(s, v1) \/ Put(s, v2) \/ Put(s, v3)) /\ UNCHANGED obligation
    BY <1>4 DEF RecordStart, w
  <2>2. lame \in WorkTypes /\ lame.run = w.run /\ lame.kind = w.kind /\ lame.failed
    BY <1>1 DEF WorkTypes
  <2> HIDE DEF lame
  <2>3. /\ v1.run = w.run /\ v1.kind = w.kind /\ v1.at # "ack"
        /\ (w.failed => v1.failed) /\ Standing(v1) # "after"
    BY <1>1, SkipThenStands, Names
  <2>4. /\ v2.run = w.run /\ v2.kind = w.kind /\ v2.at # "ack"
        /\ (w.failed => v2.failed) /\ Standing(v2) # "after"
    BY <1>1, EnterStands DEF Phases, Standing
  <2>5. /\ v3.run = w.run /\ v3.kind = w.kind /\ v3.at # "ack"
        /\ (w.failed => v3.failed) /\ Standing(v3) # "after"
    BY <2>2, SkipThenStands, Names
  <2> HIDE DEF v1, v2, v3
  <2> QED
    BY <1>3, <2>1, <2>3, <2>4, <2>5
<1>5. CASE BeforeSkips(s)
  <2> DEFINE v1 == SkipThen(w, w.left, "before")
  <2>1. Put(s, v1) /\ UNCHANGED obligation
    BY <1>5 DEF BeforeSkips, w, journal
  <2>2. /\ v1.run = w.run /\ v1.kind = w.kind /\ v1.at # "ack"
        /\ (w.failed => v1.failed) /\ Standing(v1) # "after"
    BY <1>1, SkipThenStands, Names
  <2> HIDE DEF v1
  <2> QED
    BY <1>3, <2>1, <2>2
<1>6. CASE BeforeDone(s)
  <2> DEFINE v1 == SkipThen(w, HooksOf("set", "before"), "cleanup")
  <2>1. /\ \/ \E at \in {"enter", "backup", "cleanup"} : Put(s, [w EXCEPT !.at = at])
           \/ Put(s, v1)
        /\ UNCHANGED obligation
    BY <1>1, <1>6 DEF BeforeDone, WorkTypes, Scopes, journal, w
  <2>2. /\ v1.run = w.run /\ v1.kind = w.kind /\ v1.at # "ack"
        /\ (w.failed => v1.failed) /\ Standing(v1) # "after"
    BY <1>1, SkipThenStands, Names
  <2>3. ASSUME NEW at \in {"enter", "backup", "cleanup"}, Put(s, [w EXCEPT !.at = at])
        PROVE  Moves(s)
    <3> DEFINE on == [w EXCEPT !.at = at]
    <3>1. on.run = w.run /\ on.kind = w.kind /\ on.at = at /\ on.failed = w.failed
      BY <1>1 DEF WorkTypes
    <3>2. Put(s, on)
      BY <2>3
    <3> HIDE DEF on
    <3> QED
      BY <1>3, <2>1, <3>1, <3>2 DEF Standing
  <2> HIDE DEF v1
  <2> QED
    BY <1>3, <2>1, <2>2, <2>3
<1>7. CASE StopRun(s)
  <2>1. PICK cause : Put(s, [w EXCEPT !.stop = TRUE,
                                      !.cause = IF @ = "canceled" THEN @ ELSE cause])
    BY <1>7 DEF StopRun, w
  <2> DEFINE v1 == [w EXCEPT !.stop = TRUE, !.cause = IF @ = "canceled" THEN @ ELSE cause]
  <2>2. v1.run = w.run /\ v1.kind = w.kind /\ v1.at = w.at /\ v1.failed = w.failed
    BY <1>1 DEF WorkTypes
  <2>3. Put(s, v1) /\ UNCHANGED obligation
    BY <1>7, <2>1 DEF StopRun, journal
  <2>4. w.at = "before"
    BY <1>7 DEF StopRun, At, w
  <2> HIDE DEF v1
  <2> QED
    BY <1>3, <2>2, <2>3, <2>4 DEF Standing
<1>8. CASE Backup(s)
  <2>1. PICK result, cause :
          LET on == [w EXCEPT !.at = "cleanup", !.failed = @ \/ result = "failed",
                              !.cause = IF @ = "canceled" \/ cause = "none" THEN @ ELSE cause]
          IN Put(s, on) \/ Put(s, [on EXCEPT !.failed = TRUE])
    BY <1>8 DEF Backup, w
  <2> DEFINE on == [w EXCEPT !.at = "cleanup", !.failed = @ \/ result = "failed",
                             !.cause = IF @ = "canceled" \/ cause = "none" THEN @ ELSE cause]
             lame == [on EXCEPT !.failed = TRUE]
  <2>2. /\ on.run = w.run /\ on.kind = w.kind /\ on.at = "cleanup"
        /\ lame.run = w.run /\ lame.kind = w.kind /\ lame.at = "cleanup"
        /\ (w.failed => on.failed) /\ lame.failed
    BY <1>1 DEF WorkTypes
  <2>3. (Put(s, on) \/ Put(s, lame)) /\ UNCHANGED obligation
    BY <1>8, <2>1 DEF Backup
  <2> HIDE DEF on, lame
  <2> QED
    BY <1>3, <2>2, <2>3 DEF Standing
<1>9. CASE CleanupStarts(s)
  <2> DEFINE v1 == [w EXCEPT !.at = "owe", !.scope = "set"]
             v2 == [v1 EXCEPT !.failed = TRUE]
  <2>1. (Put(s, v1) \/ Put(s, v2)) /\ UNCHANGED obligation
    BY <1>9 DEF CleanupStarts, w
  <2>2. /\ v1.run = w.run /\ v1.kind = w.kind /\ v1.at = "owe"
        /\ v2.run = w.run /\ v2.kind = w.kind /\ v2.at = "owe"
        /\ v1.failed = w.failed /\ v2.failed
    BY <1>1 DEF WorkTypes
  <2> HIDE DEF v1, v2
  <2> QED
    BY <1>3, <2>1, <2>2 DEF Standing
<1>10. CASE EnterSetScope(s)
  <2> DEFINE in == [w EXCEPT !.entered = @ \cup {"set"}]
             lame == [w EXCEPT !.failed = TRUE]
             v1 == Enter(in, "before", "set", "before")
             v2 == SkipThen(lame, HooksOf("set", "before"), "cleanup")
  <2>1. /\ Put(s, v1) \/ Put(s, v2)
        /\ \/ UNCHANGED obligation
           \/ MayOblige(w.run, "set", "eligible") /\ obligation' = Obliged(w.run, "set", "eligible")
    BY <1>10 DEF EnterSetScope, Writes, w
  <2>2. /\ in \in WorkTypes /\ in.run = w.run /\ in.kind = w.kind /\ in.failed = w.failed
        /\ lame \in WorkTypes /\ lame.run = w.run /\ lame.kind = w.kind /\ lame.failed
    BY <1>1, Names DEF WorkTypes
  <2> HIDE DEF in, lame
  <2>3. /\ v1.run = w.run /\ v1.kind = w.kind /\ v1.at # "ack"
        /\ (w.failed => v1.failed) /\ Standing(v1) # "after"
    BY <2>2, EnterStands DEF Phases, Standing
  <2>4. /\ v2.run = w.run /\ v2.kind = w.kind /\ v2.at # "ack"
        /\ (w.failed => v2.failed) /\ Standing(v2) # "after"
    BY <2>2, SkipThenStands, Names
  <2> HIDE DEF v1, v2
  <2> QED
    BY <1>3, <2>1, <2>3, <2>4
<1> QED
  BY <1>4, <1>5, <1>6, <1>7, <1>8, <1>9, <1>10

LEMMA HookMoves ==
  ASSUME TypeOK, OwedInv, NEW s \in Sets,
         SkipHook(s) \/ BeforeHook(s) \/ AfterHook(s) \/ AfterKnown(s) \/ HookEnds(s)
  PROVE  Moves(s)
<1> DEFINE w == work[s]
<1>1. /\ w.at \in {"skip", "before", "after", "hook"}
      /\ Fits(s, w, run, obligation) /\ w \in WorkTypes
  BY AtIsWorking DEF SkipHook, BeforeHook, AfterHook, AfterKnown, HookEnds
<1>2. UNCHANGED obligation
  BY DEF SkipHook, BeforeHook, AfterHook, AfterKnown, HookEnds, journal
<1> HIDE DEF w
<1>3. ASSUME NEW v, Put(s, v), v.run = w.run, v.kind = w.kind, v.scope = w.scope,
             Standing(v) = Standing(w), v.at # "ack", w.failed => v.failed
      PROVE  Moves(s)
  BY <1>2, <1>3, OnInPlace DEF Moves, Obliges, w
<1>4. CASE SkipHook(s)
  <2>1. w.at = "skip" /\ w.then \in {"before", "backup", "cleanup", "owe", "finish"}
    BY <1>1, <1>4 DEF SkipHook, At, Fits, w
  <2>2. PICK h \in First(w.left) :
          LET on == SkipThen(w, w.left \ {h}, w.then)
          IN Put(s, on) \/ Put(s, [on EXCEPT !.failed = TRUE])
    BY <1>4 DEF SkipHook, w
  <2> DEFINE on == SkipThen(w, w.left \ {h}, w.then)
             lame == [on EXCEPT !.failed = TRUE]
  <2>3. w.then \in Places \ {"hook", "skip", "ack"} /\ w.then \in Places \ {"hook"}
    BY <2>1, Names
  <2>4. /\ on.run = w.run /\ on.kind = w.kind /\ on.scope = w.scope
        /\ on.failed = w.failed /\ Standing(on) = w.then /\ on.at # "ack"
    BY <1>1, <2>3, SkipThenStands
  <2>5. on \in WorkTypes
    <3>1. w.left \ {h} \in SUBSET Hooks
      BY <1>1 DEF WorkTypes
    <3> QED BY <1>1, <2>3, <3>1, SkipThenTyped
  <2>6. Put(s, on) \/ Put(s, lame)
    BY <2>2
  <2> HIDE DEF on
  <2>7. /\ lame.run = on.run /\ lame.kind = on.kind /\ lame.scope = on.scope
        /\ lame.at = on.at /\ lame.then = on.then /\ lame.hook = on.hook /\ lame.failed
    BY <2>5 DEF WorkTypes
  <2> HIDE DEF lame
  <2>8. Standing(lame) = Standing(on) /\ Standing(w) = w.then
    BY <2>1, <2>7 DEF Standing
  <2> QED
    BY <1>3, <2>4, <2>6, <2>7, <2>8
<1>5. CASE BeforeHook(s) \/ AfterHook(s)
  <2>1. w.at \in {"before", "after"} /\ Standing(w) = w.at
    BY <1>5 DEF BeforeHook, AfterHook, At, Standing, w
  <2>2. PICK h \in First(w.left) : RunHook(s, w, h)
    BY <1>5 DEF BeforeHook, AfterHook, w
  <2>3. Stage[h].phase = w.at
    <3>1. h \in HooksOf(w.scope, w.at)
      BY <1>1, <2>1, <2>2 DEF Fits, First
    <3> QED BY <3>1 DEF HooksOf
  <2> DEFINE on == [w EXCEPT !.left = @ \ {h}]
             hooking == [on EXCEPT !.at = "hook", !.hook = h]
             missed == [on EXCEPT !.ok = FALSE, !.failed = TRUE]
             bad == Failing(on, h, "failed")
  <2>4. Put(s, hooking) \/ Put(s, missed) \/ Put(s, bad)
    BY <2>2 DEF RunHook
  <2>5. /\ on.run = w.run /\ on.kind = w.kind /\ on.scope = w.scope /\ on.at = w.at
        /\ on.failed = w.failed /\ on \in WorkTypes
    BY <1>1 DEF WorkTypes
  <2> HIDE DEF on
  <2>6. /\ hooking.run = w.run /\ hooking.kind = w.kind /\ hooking.scope = w.scope
        /\ hooking.at = "hook" /\ hooking.hook = h /\ hooking.failed = w.failed
        /\ missed.run = w.run /\ missed.kind = w.kind /\ missed.scope = w.scope
        /\ missed.at = w.at /\ missed.failed
    BY <2>5 DEF WorkTypes
  <2>7. /\ bad.run = w.run /\ bad.kind = w.kind /\ bad.scope = w.scope /\ bad.at = w.at
        /\ bad.failed
    BY <2>5 DEF WorkTypes, Failing
  <2> HIDE DEF hooking, missed, bad
  <2>8. Standing(hooking) = w.at /\ Standing(missed) = w.at /\ Standing(bad) = w.at
    BY <2>1, <2>3, <2>6, <2>7 DEF Standing
  <2> QED
    BY <1>3, <2>1, <2>4, <2>6, <2>7, <2>8
<1>6. CASE AfterKnown(s)
  <2>1. PICK h, was : Put(s, [w EXCEPT !.left = @ \ {h}, !.ok = @ /\ was = "success",
                                       !.lost = @ \/ was = "interrupted",
                                       !.bad = @ \/ was \notin {"success", "interrupted"}])
    BY <1>6 DEF AfterKnown, w
  <2> DEFINE on == [w EXCEPT !.left = @ \ {h}, !.ok = @ /\ was = "success",
                             !.lost = @ \/ was = "interrupted",
                             !.bad = @ \/ was \notin {"success", "interrupted"}]
  <2>2. /\ on.run = w.run /\ on.kind = w.kind /\ on.scope = w.scope /\ on.at = w.at
        /\ on.failed = w.failed /\ w.at = "after"
    BY <1>1, <1>6 DEF WorkTypes, AfterKnown, At, w
  <2>3. Put(s, on)
    BY <2>1
  <2> HIDE DEF on
  <2>4. Standing(on) = "after" /\ Standing(w) = "after"
    BY <2>2 DEF Standing
  <2> QED
    BY <1>3, <2>2, <2>3, <2>4
<1>7. CASE HookEnds(s)
  <2>1. w.at = "hook" /\ Stage[w.hook].phase \in {"before", "after"}
    <3>1. w.at = "hook" /\ w.hook \in Hooks
      BY <1>1, <1>7 DEF HookEnds, At, WorkTypes, w
    <3> QED BY <3>1, PlanAssumption DEF Phases
  <2> DEFINE on == [w EXCEPT !.at = Stage[w.hook].phase, !.hook = 0]
  <2>2. PICK outcome \in {"success", "failed", "timed_out", "canceled"} :
          \/ Put(s, IF outcome = "success" THEN on ELSE Failing(on, w.hook, outcome))
          \/ Put(s, [on EXCEPT !.failed = TRUE, !.ok = @ /\ outcome = "success"])
    BY <1>7 DEF HookEnds, w
  <2> DEFINE bad == Failing(on, w.hook, outcome)
             missed == [on EXCEPT !.failed = TRUE, !.ok = @ /\ outcome = "success"]
  <2>3. Put(s, on) \/ Put(s, bad) \/ Put(s, missed)
    BY <2>2
  <2>4. /\ on.run = w.run /\ on.kind = w.kind /\ on.scope = w.scope
        /\ on.at = Stage[w.hook].phase /\ on.failed = w.failed
    BY <1>1 DEF WorkTypes
  <2>5. on \in [at : {"before", "after"}, kind : Kinds, run : Runs \cup {0}, bypassed : BOOLEAN,
                scope : Scopes, left : SUBSET Hooks, hook : Hooks \cup {0},
                then : Places \ {"hook"}, entered : SUBSET Scopes, ok : BOOLEAN,
                failed : BOOLEAN, bad : BOOLEAN, owed : BOOLEAN, lost : BOOLEAN,
                stop : BOOLEAN, cause : Causes, seen : SUBSET Sets]
    BY <1>1, <2>1 DEF WorkTypes
  <2> HIDE DEF on
  <2>6. /\ bad.run = on.run /\ bad.kind = on.kind /\ bad.scope = on.scope /\ bad.at = on.at
        /\ bad.failed
    BY <2>5 DEF Failing
  <2>7. /\ missed.run = on.run /\ missed.kind = on.kind /\ missed.scope = on.scope
        /\ missed.at = on.at /\ missed.failed
    BY <2>5
  <2> HIDE DEF bad, missed
  <2>8. /\ Standing(w) = Stage[w.hook].phase /\ Standing(on) = Stage[w.hook].phase
        /\ Standing(bad) = Stage[w.hook].phase /\ Standing(missed) = Stage[w.hook].phase
        /\ on.at # "ack" /\ bad.at # "ack" /\ missed.at # "ack"
    BY <2>1, <2>4, <2>6, <2>7 DEF Standing
  <2> QED
    BY <1>3, <2>3, <2>4, <2>6, <2>7, <2>8
<1> QED
  BY <1>4, <1>5, <1>6, <1>7

LEMMA CleanupMoves ==
  ASSUME TypeOK, OwedInv, ClearInv, NEW s \in Sets,
         PassOver(s) \/ TakeUp(s) \/ Declare(s) \/ SettleScope(s)
  PROVE  Moves(s)
<1> DEFINE w == work[s]
<1>1. /\ w.at \in {"owe", "declare", "after"} /\ w \in WorkTypes
      /\ w.at = "declare" => w.kind = "run"
      /\ w.run \in Runs /\ w.scope \in Scopes
      /\ w.at \in {"owe", "after"} => w.kind \in {"run", "resume"}
  <2>1. /\ w.at \in {"owe", "declare", "after"} /\ w \in WorkTypes
        /\ Fits(s, w, run, obligation)
    BY AtIsWorking DEF PassOver, TakeUp, Declare, SettleScope
  <2>2. Unhurt(w, obligation)
    BY DEF ClearInv
  <2> HIDE DEF w
  <2> QED
    BY <2>1, <2>2 DEF Fits, RunOnly, WorkTypes, Unhurt, Standing
<1> HIDE DEF w
<1>2. ASSUME NEW on \in WorkTypes, on.run = w.run, on.kind = w.kind, on.scope = w.scope,
             w.failed => on.failed, Put(s, Beyond(on)),
             \/ UNCHANGED obligation
             \/ \E to \in ObligationStates \ {"running", "acknowledged", "eligible"} :
                  /\ MayOblige(w.run, w.scope, to) /\ obligation' = Obliged(w.run, w.scope, to)
      PROVE  Moves(s)
  <2> DEFINE v == Beyond(on)
  <2>1. /\ v.run = w.run /\ v.kind = w.kind /\ (w.failed => v.failed)
        /\ IF w.scope = "set" THEN v.at = "owe" /\ v.scope = "global"
           ELSE v.at \in {"finish", "resolve"}
    BY <1>2, BeyondStands
  <2>2. Put(s, v)
    BY <1>2
  <2> HIDE DEF v
  <2>3. Onward(w, v) /\ w.scope \notin Ahead(v)
    <3>1. /\ v.at # "ack"
          /\ IF w.scope = "set" THEN Standing(v) = "owe" /\ v.scope = "global"
             ELSE Standing(v) \in {"finish", "resolve"}
      BY <2>1 DEF Standing
    <3> QED BY <1>1, <2>1, <3>1, OnBeyond
  <2>4. Obliges(w, v)
    BY <1>1, <1>2, <2>3 DEF Obliges
  <2> QED
    BY <2>2, <2>3, <2>4 DEF Moves, w
<1>3. CASE PassOver(s)
  <2> DEFINE on == Beyond(w)
             v == SkipThen(on, IF w.kind = "run" /\ ~w.bypassed THEN HooksOf(w.scope, "after") ELSE {},
                           on.at)
  <2>1. Put(s, v) /\ UNCHANGED obligation /\ w.at = "owe"
    BY <1>3 DEF PassOver, At, journal, w
  <2>2. /\ on.run = w.run /\ on.kind = w.kind /\ on.failed = w.failed /\ on \in WorkTypes
        /\ IF w.scope = "set" THEN on.at = "owe" /\ on.scope = "global"
           ELSE on.at \in {"finish", "resolve"}
    BY <1>1, BeyondStands, BeyondTyped
  <2> HIDE DEF on
  <2>3. on.at \in Places \ {"hook", "skip", "ack"}
    BY <2>2, Names
  <2>4. /\ v.run = w.run /\ v.kind = w.kind /\ v.scope = on.scope /\ Standing(v) = on.at
        /\ v.failed = on.failed /\ v.at # "ack"
    BY <2>2, <2>3, SkipThenStands
  <2> HIDE DEF v
  <2>5. Onward(w, v)
    BY <1>1, <2>2, <2>4, OnBeyond
  <2> QED
    BY <2>1, <2>5 DEF Moves, Obliges, w
<1>4. CASE TakeUp(s)
  <2> DEFINE in == Enter(w, "after", w.scope, "after")
             v1 == [in EXCEPT !.lost = FALSE]
             v2 == [w EXCEPT !.at = "declare", !.failed = TRUE, !.bad = TRUE, !.owed = TRUE]
             lame == [w EXCEPT !.failed = TRUE]
  <2>1. /\ w.at = "owe"
        /\ \/ /\ MayOblige(w.run, w.scope, "running") /\ obligation' = Obliged(w.run, w.scope, "running")
              /\ Put(s, v1)
           \/ UNCHANGED obligation /\ w.kind = "run" /\ Put(s, v2)
           \/ UNCHANGED obligation /\ Put(s, Beyond(lame))
    BY <1>4 DEF TakeUp, Writes, At, w
  <2>2. /\ in.run = w.run /\ in.kind = w.kind /\ in.scope = w.scope /\ in.at = "after" /\ in \in WorkTypes
        /\ in.failed = w.failed /\ in.left = HooksOf(w.scope, "after")
    BY <1>1, EnterStands, EnterTyped, Names DEF Phases
  <2>3. /\ lame \in WorkTypes /\ lame.run = w.run /\ lame.kind = w.kind /\ lame.scope = w.scope
        /\ lame.failed
    BY <1>1 DEF WorkTypes
  <2> HIDE DEF in, lame
  <2>4. /\ v1.run = w.run /\ v1.kind = w.kind /\ v1.scope = w.scope /\ v1.at = "after"
        /\ v2.run = w.run /\ v2.kind = w.kind /\ v2.scope = w.scope /\ v2.at = "declare"
        /\ v1.failed = w.failed /\ v1.left = HooksOf(w.scope, "after") /\ v2.failed
    BY <1>1, <2>2 DEF WorkTypes
  <2> HIDE DEF v1, v2
  <2>5. Ahead(w) = AheadAt("owe", w.scope) /\ Standing(w) = "owe"
    BY <2>1 DEF Ahead, Standing
  <2>6. /\ Ahead(v1) = AheadAt("after", w.scope) /\ Ahead(v2) = AheadAt("declare", w.scope)
    BY <2>4 DEF Ahead, Standing
  <2>7. Onward(w, v1) /\ Onward(w, v2)
    <3>1. Standing(v2) = "declare" /\ AheadAt("after", w.scope) \subseteq AheadAt("owe", w.scope)
          /\ AheadAt("declare", w.scope) \subseteq AheadAt("owe", w.scope)
      BY <2>4, Names DEF Standing, AheadAt
    <3> QED BY <1>1, <2>4, <2>5, <2>6, <3>1 DEF Onward
  <2>8. CASE /\ MayOblige(w.run, w.scope, "running") /\ obligation' = Obliged(w.run, w.scope, "running")
             /\ Put(s, v1)
    <3>1. w.scope \in Ahead(w)
      BY <1>1, <2>5, Names DEF AheadAt, Scopes
    <3>2. "running" \in ObligationStates
      BY JournalNames
    <3>3. w.kind \in {"run", "resume"} /\ w.at \notin {"idle", "load", "store"}
      BY <1>1, <2>1
    <3>4. Obliges(w, v1)
      BY <1>1, <2>8, <3>1, <3>2, <3>3 DEF Obliges
    <3> QED BY <2>7, <2>8, <3>4 DEF Moves, w
  <2>9. CASE UNCHANGED obligation /\ w.kind = "run" /\ Put(s, v2)
    BY <2>7, <2>9 DEF Moves, Obliges, w
  <2>10. CASE UNCHANGED obligation /\ Put(s, Beyond(lame))
    BY <1>2, <2>3, <2>10
  <2> QED
    BY <2>1, <2>8, <2>9, <2>10
<1>5. CASE Declare(s)
  <2>1. /\ Put(s, Beyond(w))
        /\ \/ /\ MayOblige(w.run, w.scope, "recovery_required")
              /\ obligation' = Obliged(w.run, w.scope, "recovery_required")
           \/ UNCHANGED obligation
    BY <1>5 DEF Declare, Writes, w
  <2> QED
    BY <1>1, <1>2, <2>1, JournalNames
<1>6. CASE SettleScope(s)
  <2> DEFINE on == [w EXCEPT !.bad = @ \/ (w.kind = "resume" /\ Outcome(w) = "failed")]
             lame == [Beyond(on) EXCEPT !.failed = TRUE]
             on2 == [on EXCEPT !.failed = TRUE]
  <2>1. \/ /\ MayOblige(w.run, w.scope, Outcome(w)) /\ obligation' = Obliged(w.run, w.scope, Outcome(w))
           /\ Put(s, Beyond(on))
        \/ UNCHANGED obligation /\ Put(s, lame)
    BY <1>6 DEF SettleScope, Writes, w
  <2>2. /\ on \in WorkTypes /\ on.run = w.run /\ on.kind = w.kind /\ on.scope = w.scope
        /\ on.failed = w.failed
    BY <1>1 DEF WorkTypes
  <2> HIDE DEF on
  <2>3. /\ on2 \in WorkTypes /\ on2.run = w.run /\ on2.kind = w.kind /\ on2.scope = w.scope
        /\ on2.failed
    BY <2>2 DEF WorkTypes
  <2>4. lame = Beyond(on2)
    BY <2>2 DEF WorkTypes, Beyond
  <2> HIDE DEF lame, on2
  <2>5. Outcome(w) \in ObligationStates \ {"running", "acknowledged", "eligible"}
    BY JournalNames DEF Outcome
  <2> HIDE DEF Outcome
  <2> QED
    BY <1>2, <2>1, <2>2, <2>3, <2>4, <2>5
<1> QED
  BY <1>3, <1>4, <1>5, <1>6

LEMMA EndMoves ==
  ASSUME TypeOK, OwedInv, ClearInv, NEW s \in Sets,
         \/ Finish(s) \/ LoadHolds(s) \/ StoreHolds(s) \/ ResolveResumed(s) \/ GiveBack(s)
         \/ AckScope(s) \/ AckResolve(s) \/ Statuses(s)
  PROVE  Moves(s)
<1> DEFINE w == work[s]
<1>1. w \in WorkTypes /\ Fits(s, w, run, obligation) /\ Unhurt(w, obligation)
  BY WorkTyped DEF OwedInv, ClearInv
<1> DEFINE load == [Idle EXCEPT !.at = "load"]
           store == [w EXCEPT !.at = "store", !.seen = Owing]
           statuses == [w EXCEPT !.at = "statuses"]
           back == [w EXCEPT !.at = "giveback"]
<1>2. /\ Idle.kind = "none" /\ Idle.at = "idle" /\ load.kind = "none" /\ load.at = "load"
      /\ store.run = w.run /\ store.kind = w.kind /\ store.at = "store"
      /\ statuses.run = w.run /\ statuses.kind = w.kind /\ statuses.at = "statuses"
      /\ back.run = w.run /\ back.kind = w.kind /\ back.at = "giveback"
      /\ store.failed = w.failed /\ statuses.failed = w.failed /\ back.failed = w.failed
  BY <1>1 DEF Idle, WorkTypes
<1>3. CASE /\ UNCHANGED obligation
           /\ \/ Put(s, Idle) \/ Put(s, load) \/ Put(s, store) \/ Put(s, statuses) \/ Put(s, back)
  <2> HIDE DEF w, load, store, statuses, back
  <2>1. /\ Onward(w, Idle) /\ Onward(w, load) /\ Onward(w, store) /\ Onward(w, statuses)
        /\ Onward(w, back)
    BY <1>2, OnToTheEnd
  <2> QED
    BY <1>3, <2>1 DEF Moves, Obliges, w
<1>4. CASE Finish(s)
  <2>1. UNCHANGED obligation /\ (Put(s, load) \/ Put(s, Idle))
    BY <1>4 DEF Finish
  <2> QED
    BY <1>3, <2>1
<1>5. CASE LoadHolds(s) \/ StoreHolds(s) \/ Statuses(s)
  <2>1. UNCHANGED obligation /\ (Put(s, load) \/ Put(s, Idle) \/ Put(s, store))
    BY <1>5 DEF LoadHolds, StoreHolds, Statuses, journal
  <2> QED
    BY <1>3, <2>1
<1>6. CASE ResolveResumed(s) \/ GiveBack(s) \/ AckResolve(s)
  <2>1. /\ UNCHANGED obligation
        /\ Put(s, load) \/ Put(s, Idle) \/ Put(s, statuses) \/ Put(s, back)
    BY <1>6 DEF ResolveResumed, GiveBack, AckResolve
  <2> QED
    BY <1>3, <2>1
<1>7. CASE AckScope(s)
  <2> DEFINE scope == IF "global" \in Unsettled(w.run) THEN "global" ELSE "set"
  <2>1. \/ /\ MayOblige(w.run, scope, "acknowledged")
           /\ obligation' = Obliged(w.run, scope, "acknowledged") /\ UNCHANGED work
        \/ UNCHANGED obligation /\ Put(s, Idle)
    BY <1>7 DEF AckScope, Writes
  <2>2. CASE /\ MayOblige(w.run, scope, "acknowledged")
             /\ obligation' = Obliged(w.run, scope, "acknowledged") /\ UNCHANGED work
    <3>1. Put(s, w)
      BY <2>2 DEF Put, TypeOK
    <3>2. w.at = "ack"
      BY <1>7 DEF AckScope, At
    <3>3. scope \in Scopes /\ "acknowledged" \in ObligationStates
      BY Names, JournalNames
    <3> HIDE DEF w, scope
    <3>4. w.kind = "ack" /\ w.run \in Runs
      BY <1>1, <3>2 DEF Unhurt, Fits
    <3>5. Onward(w, w)
      BY <3>2, <3>4 DEF Onward, Standing
    <3>6. Obliges(w, w)
      BY <2>2, <3>2, <3>3, <3>4 DEF Obliges
    <3> QED
      BY <3>1, <3>5, <3>6 DEF Moves, w
  <2> QED
    BY <1>3, <2>1, <2>2
<1> QED
  BY <1>4, <1>5, <1>6, <1>7

\* A run that was made stays made.
StaysMade == \A r \in Runs : run'[r].state = "none" => run[r].state = "none"

LEMMA WrittenStays ==
  ASSUME TypeOK, NEW r, NEW to, to # "none",
         \/ run' = Advanced(r, to)
         \/ \E recovery : run' = Raised(r, to, recovery)
  PROVE  StaysMade
<1>1. CASE run' = Advanced(r, to)
  BY <1>1 DEF Advanced, TypeOK, RunRows, StaysMade
<1>2. ASSUME NEW recovery, run' = Raised(r, to, recovery)
      PROVE  StaysMade
  BY <1>2 DEF Raised, TypeOK, RunRows, StaysMade
<1> QED
  BY <1>1, <1>2

LEMMA QuietStays ==
  ASSUME UNCHANGED run
  PROVE  StaysMade
  BY DEF StaysMade

LEMMA WorkStays ==
  ASSUME TypeOK, NEW s \in Sets, WorkStep(s) \/ StopRun(s)
  PROVE  StaysMade
<1>1. CASE \/ SkipHook(s) \/ BeforeHook(s) \/ BeforeSkips(s) \/ HookEnds(s) \/ BeforeDone(s)
           \/ EnterSetScope(s) \/ PassOver(s) \/ TakeUp(s) \/ Declare(s) \/ AfterHook(s)
           \/ AfterKnown(s) \/ SettleScope(s) \/ LoadHolds(s) \/ StoreHolds(s) \/ AckScope(s)
           \/ Statuses(s) \/ StopRun(s)
  <2>1. UNCHANGED run
    BY <1>1 DEF SkipHook, BeforeHook, BeforeSkips, HookEnds, BeforeDone, EnterSetScope, PassOver,
       TakeUp, Declare, AfterHook, AfterKnown, SettleScope, LoadHolds, StoreHolds, AckScope,
       Statuses, StopRun, journal
  <2> QED
    BY <2>1, QuietStays
<1> DEFINE r == work[s].run
<1>2. \A to : MayAdvance(r, to) \/ MayResolve(r, to) => to # "none"
  BY NeverNone DEF MayAdvance, MayResolve
<1>3. CASE RecordStart(s) \/ CleanupStarts(s) \/ GiveBack(s)
  <2>1. \/ UNCHANGED run
        \/ run' = Advanced(r, "running") \/ run' = Advanced(r, "cleanup_running")
        \/ run' = Raised(r, "recovery_required", "required")
    BY <1>3 DEF RecordStart, CleanupStarts, GiveBack
  <2> QED
    BY <2>1, QuietStays, WrittenStays
<1>4. CASE Finish(s)
  <2>1. \/ UNCHANGED run
        \/ \E to : MayAdvance(r, to) /\ (run' = Raised(r, to, "required") \/ run' = Advanced(r, to))
    BY <1>4 DEF Finish, Writes
  <2> QED
    BY <1>2, <2>1, QuietStays, WrittenStays
<1>5. CASE ResolveResumed(s) \/ AckResolve(s)
  <2>1. UNCHANGED run \/ \E to : MayResolve(r, to) /\ run' = Raised(r, to, "resolved")
    BY <1>5 DEF ResolveResumed, AckResolve, Writes, Resolved
  <2> QED
    BY <1>2, <2>1, QuietStays, WrittenStays
<1>6. CASE Backup(s)
  <2>1. UNCHANGED run \/ \E result : run' = [run EXCEPT ![r].backup = result]
    BY <1>6 DEF Backup
  <2>2. ASSUME NEW result, run' = [run EXCEPT ![r].backup = result]
        PROVE  StaysMade
    BY <2>2 DEF TypeOK, RunRows, StaysMade
  <2> QED
    BY <2>1, <2>2, QuietStays
<1> QED
  BY <1>1, <1>3, <1>4, <1>5, <1>6 DEF WorkStep

LEMMA IdleUnhurt ==
  ASSUME NEW w, w.at = "idle", NEW owed
  PROVE  Unhurt(w, owed)
  BY DEF Unhurt, Ahead, AheadAt, Standing

\* What happens under the lock of one set is nothing to the work of another.
LEMMA LocalClear ==
  ASSUME TypeOK, OwedInv, ClearInv, NEW s \in Sets, NEW v, Put(s, v), Unhurt(v, obligation'),
         NonePromised', \A r \in Runs : SetOf[r] # s => obligation'[r] = obligation[r]
  PROVE  ClearInv'
<1>1. ASSUME NEW q \in Sets
      PROVE  Unhurt(work'[q], obligation')
  <2>1. CASE q = s
    BY <2>1 DEF Put, TypeOK
  <2>2. CASE q # s
    <3>1. work'[q] = work[q] /\ Unhurt(work[q], obligation) /\ Fits(q, work[q], run, obligation)
      BY <2>2 DEF Put, TypeOK, ClearInv, OwedInv
    <3>2. CASE work[q].at \in {"idle", "load", "store"}
      BY <3>1, <3>2 DEF Unhurt, Ahead, AheadAt, Standing
    <3>3. CASE work[q].at \notin {"idle", "load", "store"}
      <4>1. obligation'[work[q].run] = obligation[work[q].run]
        BY <2>2, <3>1, <3>3 DEF Fits
      <4> QED
        BY <3>1, <4>1 DEF Unhurt
    <3> QED
      BY <3>2, <3>3
  <2> QED
    BY <2>1, <2>2
<1> QED
  BY <1>1 DEF ClearInv

LEMMA MovesClear ==
  ASSUME TypeOK, OwedInv, ClearInv, NEW s \in Sets, Moves(s), StaysMade
  PROVE  ClearInv' /\ ByAPerson
<1> DEFINE w == work[s]
<1>1. PICK v : Put(s, v) /\ Onward(w, v) /\ Obliges(w, v)
  BY DEF Moves
<1>2. Fits(s, w, run, obligation) /\ Unhurt(w, obligation)
  BY DEF OwedInv, ClearInv
<1> HIDE DEF w
<1>3. CASE UNCHANGED obligation
  <2>1. Unhurt(v, obligation')
    BY <1>1, <1>2, <1>3 DEF Onward, Unhurt, Ahead, AheadAt, Standing
  <2>2. NonePromised'
    BY <1>3 DEF NonePromised, ClearInv, StaysMade
  <2>3. ByAPerson
    BY <1>3 DEF ByAPerson
  <2> QED
    BY <1>1, <1>3, <2>1, <2>2, <2>3, LocalClear
<1>4. ASSUME NEW c \in Scopes, NEW to \in ObligationStates,
             MayOblige(w.run, c, to), obligation' = Obliged(w.run, c, to),
             to = "recovery_required" => c \notin Ahead(v),
             to = "running" => (w.kind = "run" /\ c \in Ahead(w)) \/ w.kind = "resume",
             to = "acknowledged" => w.kind = "ack",
             to = "eligible" => run[w.run].state # "none",
             w.run \in Runs, w.at \notin {"idle", "load", "store"}
      PROVE  ClearInv' /\ ByAPerson
  <2>1. SetOf[w.run] = s
    BY <1>2, <1>4 DEF Fits
  <2>2. \A q \in Runs, d \in Scopes :
          obligation'[q][d] = IF q = w.run /\ d = c THEN to ELSE obligation[q][d]
    BY <1>4 DEF Obliged, TypeOK
  <2>3. \A q \in Runs : q # w.run => obligation'[q] = obligation[q]
    BY <1>4 DEF Obliged, TypeOK
  <2>4. Unhurt(v, obligation')
    <3>1. v.at = "ack" => v.kind = "ack"
      BY <1>1, <1>2 DEF Onward, Unhurt
    <3>2. Standing(v) \in {"owe", "after"} => v.kind \in {"run", "resume"}
      BY <1>1, <1>2 DEF Onward, Unhurt, Standing
    <3>3. ASSUME v.kind = "run", NEW d \in Ahead(v)
          PROVE  obligation'[v.run][d] # "recovery_required"
      <4>1. v.run = w.run /\ w.kind = "run" /\ d \in Ahead(w)
        BY <1>1, <3>3 DEF Onward
      <4>2. obligation[w.run][d] # "recovery_required" /\ d \in Scopes
        BY <1>2, <4>1, AheadScopes DEF Unhurt
      <4> QED
        BY <1>4, <2>2, <3>3, <4>1, <4>2
    <3> QED
      BY <3>1, <3>2, <3>3 DEF Unhurt
  <2>5. NonePromised'
    <3>1. ASSUME NEW q \in Runs, run'[q].state = "none", NEW d \in Scopes
          PROVE  obligation'[q][d] = "never_eligible"
      <4>1. run[q].state = "none" /\ obligation[q][d] = "never_eligible"
        BY <3>1 DEF StaysMade, NonePromised, ClearInv
      <4>2. CASE q = w.run /\ d = c
        BY <1>4, <4>1, <4>2 DEF MayOblige, ObligationFollows
      <4> QED
        BY <2>2, <4>1, <4>2
    <3> QED
      BY <3>1 DEF NonePromised
  <2>6. ByAPerson
    <3>1. ASSUME NEW q \in Runs, NEW d \in Scopes, obligation[q][d] = "recovery_required",
                 obligation'[q][d] # "recovery_required"
          PROVE  /\ work[SetOf[q]].run = q
                 /\ \/ work[SetOf[q]].kind = "resume" /\ obligation'[q][d] = "running"
                    \/ work[SetOf[q]].kind = "ack" /\ obligation'[q][d] = "acknowledged"
      <4>1. q = w.run /\ d = c /\ obligation'[q][d] = to
        BY <2>2, <3>1
      <4>2. to \in {"running", "acknowledged"}
        BY <1>4, <3>1, <4>1 DEF MayOblige, ObligationFollows
      <4>3. ~(w.kind = "run" /\ c \in Ahead(w))
        BY <1>2, <3>1, <4>1 DEF Unhurt
      <4> QED
        BY <1>4, <2>1, <4>1, <4>2, <4>3 DEF w
    <3> QED
      BY <3>1 DEF ByAPerson
  <2> QED
    BY <1>1, <2>1, <2>3, <2>4, <2>5, <2>6, LocalClear
<1> QED
  BY <1>1, <1>3, <1>4 DEF Obliges

LEMMA WorkClear ==
  ASSUME TypeOK, OwedInv, ClearInv, NEW s \in Sets, WorkStep(s) \/ StopRun(s)
  PROVE  ClearInv' /\ ByAPerson
<1>1. Moves(s)
  BY BeforeMoves, HookMoves, CleanupMoves, EndMoves DEF WorkStep
<1> QED
  BY <1>1, WorkStays, MovesClear

LEMMA ProcessClear ==
  ASSUME TypeOK, OwedInv, ClearInv, Crash \/ Stop \/ PassFails
  PROVE  ClearInv' /\ ByAPerson
<1>1. UNCHANGED <<run, obligation>>
  BY DEF Crash, Stop, Die, PassFails, journal
<1>2. NonePromised' /\ ByAPerson
  BY <1>1 DEF ClearInv, NonePromised, ByAPerson
<1>3. UNCHANGED work \/ \A s \in Sets : work'[s].at = "idle"
  BY DEF Crash, Stop, Die, PassFails, Idle
<1> QED
  BY <1>1, <1>2, <1>3, IdleUnhurt DEF ClearInv

LEMMA StartupClear ==
  ASSUME TypeOK, OwedInv, ClearInv, Startup
  PROVE  ClearInv' /\ ByAPerson
<1>1. \A s \in Sets : work'[s].at = "idle"
  BY DEF Startup, Start, OpenDone, Serve, ReconcileRun, SettleLeft, MarkOutstanding, Working,
     memory, OwedInv
<1>2. \A s \in Sets : Unhurt(work'[s], obligation')
  BY <1>1, IdleUnhurt
<1>3. CASE UNCHANGED <<run, obligation>>
  BY <1>2, <1>3 DEF ClearInv, NonePromised, ByAPerson
<1>4. ASSUME NEW r \in Runs, run[r].state # "none", StaysMade,
             \A q \in Runs : q # r => obligation'[q] = obligation[q],
             \A c \in Scopes : obligation'[r][c] = obligation[r][c]
                                \/ obligation'[r][c] = "recovery_required"
      PROVE  ClearInv' /\ ByAPerson
  <2>1. NonePromised'
    BY <1>4 DEF ClearInv, NonePromised, StaysMade
  <2>2. ByAPerson
    BY <1>4 DEF ByAPerson
  <2> QED
    BY <1>2, <2>1, <2>2 DEF ClearInv
<1>5. ASSUME NEW r \in Runs, ReconcileRun(r)
      PROVE  ClearInv' /\ ByAPerson
  <2>1. CASE ~MayReconcile(r)
    BY <1>3, <1>5, <2>1 DEF ReconcileRun, journal
  <2>2. CASE MayReconcile(r)
    <3>1. Reconciled(r) /\ run[r].state # "none"
      BY <1>5, <2>2 DEF ReconcileRun, Open
    <3>2. StaysMade
      <4>1. Verdict(r) # "none"
        BY DEF Verdict
      <4>2. run' = Advanced(r, Verdict(r)) \/ run' = Raised(r, "recovery_required", "required")
        BY <3>1 DEF Reconciled
      <4> QED
        BY <4>1, <4>2, WrittenStays
    <3>3. /\ \A q \in Runs : q # r => obligation'[q] = obligation[q]
          /\ \A c \in Scopes : obligation'[r][c] = obligation[r][c]
                                \/ obligation'[r][c] = "recovery_required"
      BY <3>1 DEF Reconciled, TypeOK
    <3> QED
      BY <1>4, <3>1, <3>2, <3>3
  <2> QED
    BY <2>1, <2>2
<1>6. ASSUME NEW r \in Runs, NEW to, UNCHANGED obligation, run' = Resolved(r, to),
             to \in {"cleanup_failed", "recovered"}
      PROVE  ClearInv' /\ ByAPerson
  <2>1. StaysMade
    BY <1>6, WrittenStays DEF Resolved
  <2> QED
    BY <1>2, <1>6, <2>1 DEF ClearInv, NonePromised, StaysMade, ByAPerson
<1>7. ASSUME NEW r \in Runs, SettleLeft(r)
      PROVE  ClearInv' /\ ByAPerson
  <2>1. /\ UNCHANGED obligation
        /\ UNCHANGED run \/ \E to \in {"cleanup_failed", "recovered"} : run' = Resolved(r, to)
    BY <1>7 DEF SettleLeft
  <2> QED
    BY <1>3, <1>6, <2>1
<1>8. ASSUME NEW r \in Runs, NEW c \in Scopes, MarkOutstanding(r, c)
      PROVE  ClearInv' /\ ByAPerson
  <2>1. UNCHANGED run /\ obligation' = Obliged(r, c, "recovery_required")
    BY <1>8 DEF MarkOutstanding
  <2>2. run[r].state # "none"
    BY <1>8 DEF MarkOutstanding, OwedInv, NoneIsFresh, Outstanding
  <2>3. /\ \A q \in Runs : q # r => obligation'[q] = obligation[q]
        /\ \A d \in Scopes : obligation'[r][d] = obligation[r][d]
                              \/ obligation'[r][d] = "recovery_required"
    BY <2>1 DEF Obliged, TypeOK
  <2> QED
    BY <1>4, <2>1, <2>2, <2>3, QuietStays
<1> QED
  BY <1>3, <1>5, <1>7, <1>8 DEF Startup, Start, OpenDone, Serve, journal

LEMMA RequestsClear ==
  ASSUME TypeOK, OwedInv, ClearInv, Requests
  PROVE  ClearInv' /\ ByAPerson
<1>1. CASE UNCHANGED <<run, obligation, work>>
  BY <1>1 DEF ClearInv, NonePromised, ByAPerson
<1>2. ASSUME NEW r \in Runs, NEW v, Put(SetOf[r], v), Unhurt(v, obligation),
             UNCHANGED obligation, StaysMade
      PROVE  ClearInv' /\ ByAPerson
  <2>1. NonePromised' /\ ByAPerson /\ SetOf[r] \in Sets
    BY <1>2, PlanAssumption DEF ClearInv, NonePromised, StaysMade, ByAPerson
  <2> QED
    BY <1>2, <2>1, LocalClear
<1>3. ASSUME NEW s \in Sets, BeginRun(s)
      PROVE  ClearInv' /\ ByAPerson
  <2>1. PICK r \in First(Fresh(s)), bypassed \in {FALSE, Bypassing} :
          \/ /\ Committed(r, bypassed)
             /\ Put(s, [Idle EXCEPT !.at = "start", !.kind = "run", !.run = r,
                          !.bypassed = bypassed,
                          !.entered = IF bypassed THEN {} ELSE {"global"}])
          \/ UNCHANGED <<journal, work>>
    BY <1>3 DEF BeginRun
  <2> DEFINE w == [Idle EXCEPT !.at = "start", !.kind = "run", !.run = r, !.bypassed = bypassed,
                               !.entered = IF bypassed THEN {} ELSE {"global"}]
  <2>2. r \in Runs /\ SetOf[r] = s /\ \A c \in Scopes : obligation[r][c] = "never_eligible"
    BY DEF First, Fresh, ClearInv, NonePromised
  <2>3. w.at = "start" /\ w.kind = "run" /\ w.run = r
    BY DEF Idle
  <2>4. CASE Committed(r, bypassed) /\ Put(s, w)
    <3> HIDE DEF w
    <3>1. /\ \A q \in Runs : q # r => obligation'[q] = obligation[q]
          /\ \A c \in Scopes : obligation'[r][c] \in {"never_eligible", "eligible"}
      BY <2>2, <2>4 DEF Committed, TypeOK
    <3>2. Unhurt(w, obligation')
      BY <2>3, <3>1, AheadScopes DEF Unhurt, Standing
    <3>3. run'[r].state = "pending" /\ \A q \in Runs : q # r => run'[q] = run[q]
      BY <2>2, <2>4 DEF Committed, Advanced, TypeOK, RunRows
    <3>4. NonePromised'
      BY <3>1, <3>3 DEF NonePromised, ClearInv
    <3>5. ByAPerson
      BY <2>2, <3>1 DEF ByAPerson
    <3> QED
      BY <2>2, <2>4, <3>1, <3>2, <3>4, <3>5, LocalClear
  <2> QED
    BY <1>1, <2>1, <2>4 DEF journal
<1>4. ASSUME NEW r \in Runs, BeginResume(r)
      PROVE  ClearInv' /\ ByAPerson
  <2> DEFINE w == [Idle EXCEPT !.at = "owe", !.kind = "resume", !.run = r, !.scope = "set"]
  <2>1. /\ UNCHANGED obligation
        /\ \/ run' = Raised(r, "cleanup_running", "in_progress") /\ Put(SetOf[r], w)
           \/ UNCHANGED <<run, work>>
    BY <1>4 DEF BeginResume
  <2>2. w.at = "owe" /\ w.kind = "resume"
    BY DEF Idle
  <2> HIDE DEF w
  <2>3. Unhurt(w, obligation)
    BY <2>2 DEF Unhurt
  <2> QED
    BY <1>1, <1>2, <2>1, <2>3, WrittenStays
<1>5. ASSUME NEW r \in Runs, BeginAck(r)
      PROVE  ClearInv' /\ ByAPerson
  <2> DEFINE w == [Idle EXCEPT !.at = "ack", !.kind = "ack", !.run = r]
  <2>1. UNCHANGED <<run, obligation>> /\ Put(SetOf[r], w)
    BY <1>5 DEF BeginAck, journal
  <2>2. w.at = "ack" /\ w.kind = "ack"
    BY DEF Idle
  <2> HIDE DEF w
  <2>3. Unhurt(w, obligation)
    BY <2>2 DEF Unhurt, Standing
  <2> QED
    BY <1>2, <2>1, <2>3, QuietStays
<1>6. ASSUME NEW q, Ask(q) \/ Busy(q)
      PROVE  ClearInv' /\ ByAPerson
  BY <1>1, <1>6 DEF Ask, Busy, journal
<1> QED
  BY <1>3, <1>4, <1>5, <1>6 DEF Requests, AskRun, AskResume, AskAck

LEMMA InitClear ==
  ASSUME Init
  PROVE  ClearInv
<1>1. NonePromised
  BY DEF Init, JournalInit, NonePromised
<1>2. \A s \in Sets : work[s].at = "idle"
  BY DEF Init, Idle
<1> QED
  BY <1>1, <1>2, IdleUnhurt DEF ClearInv

LEMMA NextClear ==
  ASSUME TypeOK, OwedInv, ClearInv, [Next]_vars
  PROVE  ClearInv' /\ ByAPerson
<1>1. CASE UNCHANGED vars
  BY <1>1 DEF vars, ClearInv, NonePromised, ByAPerson
<1> QED
  BY <1>1, WorkClear, ProcessClear, StartupClear, RequestsClear DEF Next

\* A scope in recovery is taken up again by a resume of its run alone and written
\* off by an acknowledgement alone, for any plan and any number of runs and sets:
\* neither the passes of a restart nor the runs of other plans touch it (doc.go,
\* "Recovery is never automatic").
THEOREM OnlyAPersonClearsHolds == Spec => OnlyAPersonClears
<1>1. Init => TypeOK /\ OwedInv /\ ClearInv
  BY InitTyped, InitOwed, InitClear
<1>2. TypeOK /\ OwedInv /\ ClearInv /\ [Next]_vars => TypeOK' /\ OwedInv' /\ ClearInv'
  BY NextTyped, NextOwed, NextClear
<1>3. TypeOK /\ OwedInv /\ ClearInv /\ [Next]_vars => [ByAPerson]_vars
  BY NextClear
<1> QED
  BY <1>1, <1>2, <1>3, PTL DEF Spec, OnlyAPersonClears, ByAPerson

-----------------------------------------------------------------------------
(* Success is earned.                                                      *)
(*                                                                         *)
(* The rows tell the truth about what ran and what went well, and so does  *)
(* what a piece of work remembers: as long as it remembers no failure,     *)
(* whatever it started did exit well, except the hook it has in hand; and  *)
(* as long as a cleanup goes well, of its hooks only those it has left are *)
(* yet to.  A resume also has its run to itself: nobody closes it.         *)

\* The hook that was handed to its executor and has not ended.
InHand(w) == IF w.at = "hook" THEN {w.hook} ELSE {}

\* What a piece of work remembers is so.
Earning(w, rows, begun, well) ==
  /\ w.kind = "run" /\ w.at \notin {"idle", "load", "store"} /\ ~w.failed =>
       \A h \in Hooks : begun[w.run][h] > 0 => h \in well[w.run] \cup InHand(w)
  /\ Standing(w) = "after" /\ w.ok =>
       HooksOf(w.scope, "after") \ w.left \subseteq well[w.run] \cup InHand(w)
  /\ w.kind = "resume" /\ Standing(w) \in {"owe", "after"} =>
       rows[w.run].state = "cleanup_running"

\* What the rows say of a hook is so.
RowsTrue ==
  \A r \in Runs, h \in Hooks :
    /\ row[r][h] = "success" => h \in good[r]
    /\ row[r][h] = "skipped" \/ run[r].state = "none" => started[r][h] = 0

EarnInv ==
  /\ SuccessIsEarned /\ RowsTrue
  /\ \A s \in Sets : Earning(work[s], run, started, good)

LEMMA PausedEarns ==
  ASSUME NEW w, w.at \in {"idle", "load", "store"}, NEW rows, NEW begun, NEW well
  PROVE  Earning(w, rows, begun, well)
  BY DEF Earning, Standing

\* What happens under the lock of one set is nothing to the work of another.
LEMMA LocalEarns ==
  ASSUME TypeOK, OwedInv, EarnInv, NEW s \in Sets, NEW v, Put(s, v),
         Earning(v, run', started', good'), SuccessIsEarned', RowsTrue',
         \A r \in Runs : SetOf[r] # s =>
           run'[r] = run[r] /\ started'[r] = started[r] /\ good'[r] = good[r]
  PROVE  EarnInv'
<1>1. ASSUME NEW q \in Sets
      PROVE  Earning(work'[q], run', started', good')
  <2>1. CASE q = s
    BY <2>1 DEF Put, TypeOK
  <2>2. CASE q # s
    <3>1. /\ work'[q] = work[q] /\ Fits(q, work[q], run, obligation)
          /\ Earning(work[q], run, started, good)
      BY <2>2 DEF Put, TypeOK, OwedInv, EarnInv
    <3>2. CASE work[q].at \in {"idle", "load", "store"}
      BY <3>1, <3>2, PausedEarns
    <3>3. CASE work[q].at \notin {"idle", "load", "store"}
      <4>1. LET r == work[q].run
            IN run'[r] = run[r] /\ started'[r] = started[r] /\ good'[r] = good[r]
        BY <2>2, <3>1, <3>3 DEF Fits
      <4> QED
        BY <3>1, <4>1 DEF Earning
    <3> QED
      BY <3>2, <3>3
  <2> QED
    BY <2>1, <2>2
<1> QED
  BY <1>1 DEF EarnInv

\* What a step of a set's work writes of runs: the row of its own, if any.
LEMMA RunWrites ==
  ASSUME TypeOK, NEW s \in Sets, WorkStep(s) \/ StopRun(s)
  PROVE  LET w == work[s]
             r == w.run
         IN \/ UNCHANGED run
            \/ /\ w.at \notin {"idle", "load", "store"}
               /\ \/ run' = Advanced(r, "running")
                  \/ run' = Advanced(r, "cleanup_running")
                  \/ run' = Raised(r, "recovery_required", "required")
                  \/ run' = Raised(r, "recovered", "resolved")
                  \/ run' = Raised(r, "cleanup_failed", "resolved")
                  \/ \E result : run' = [run EXCEPT ![r].backup = result]
                  \/ /\ Finish(s)
                     /\ \/ run' = Advanced(r, FinalState(w))
                        \/ run' = Raised(r, FinalState(w), "required")
<1> DEFINE w == work[s]
           r == w.run
<1>1. CASE \/ SkipHook(s) \/ BeforeHook(s) \/ BeforeSkips(s) \/ HookEnds(s) \/ BeforeDone(s)
           \/ EnterSetScope(s) \/ PassOver(s) \/ TakeUp(s) \/ Declare(s) \/ AfterHook(s)
           \/ AfterKnown(s) \/ SettleScope(s) \/ LoadHolds(s) \/ StoreHolds(s) \/ AckScope(s)
           \/ Statuses(s) \/ StopRun(s)
  <2>1. UNCHANGED run
    BY <1>1 DEF SkipHook, BeforeHook, BeforeSkips, HookEnds, BeforeDone, EnterSetScope, PassOver,
       TakeUp, Declare, AfterHook, AfterKnown, SettleScope, LoadHolds, StoreHolds, AckScope,
       Statuses, StopRun, journal
  <2> QED
    BY <2>1
<1>2. CASE RecordStart(s) \/ CleanupStarts(s) \/ GiveBack(s)
  <2>1. \/ UNCHANGED run
        \/ run' = Advanced(r, "running") \/ run' = Advanced(r, "cleanup_running")
        \/ run' = Raised(r, "recovery_required", "required")
    BY <1>2 DEF RecordStart, CleanupStarts, GiveBack
  <2>2. w.at \notin {"idle", "load", "store"}
    BY <1>2 DEF RecordStart, CleanupStarts, GiveBack, At
  <2> QED
    BY <2>1, <2>2
<1>3. CASE ResolveResumed(s) \/ AckResolve(s)
  <2>1. \/ UNCHANGED run
        \/ run' = Raised(r, "recovered", "resolved")
        \/ run' = Raised(r, "cleanup_failed", "resolved")
    BY <1>3 DEF ResolveResumed, AckResolve, Resolved
  <2>2. w.at \notin {"idle", "load", "store"}
    BY <1>3 DEF ResolveResumed, AckResolve, At
  <2> QED
    BY <2>1, <2>2
<1>4. CASE Backup(s)
  <2>1. UNCHANGED run \/ \E result : run' = [run EXCEPT ![r].backup = result]
    BY <1>4 DEF Backup
  <2>2. w.at \notin {"idle", "load", "store"}
    BY <1>4 DEF Backup, At
  <2> QED
    BY <2>1, <2>2
<1>5. CASE Finish(s)
  <2>1. \/ UNCHANGED run
        \/ run' = Advanced(r, FinalState(w)) \/ run' = Raised(r, FinalState(w), "required")
    BY <1>5 DEF Finish
  <2>2. w.at \notin {"idle", "load", "store"}
    BY <1>5 DEF Finish, At
  <2> QED
    BY <1>5, <2>1, <2>2
<1> QED
  BY <1>1, <1>2, <1>3, <1>4, <1>5 DEF WorkStep

LEMMA OwnRun ==
  ASSUME TypeOK, OwedInv, NEW s \in Sets, WorkStep(s) \/ StopRun(s)
  PROVE  \A q \in Runs : SetOf[q] # s => run'[q] = run[q]
<1>1. UNCHANGED run \/ \A q \in Runs : q # work[s].run => run'[q] = run[q]
  BY RunWrites DEF Advanced, Raised, TypeOK
<1>2. UNCHANGED run \/ SetOf[work[s].run] = s
  BY RunWrites DEF OwedInv, Fits
<1> QED
  BY <1>1, <1>2

\* Who claims success.
LEMMA ClaimsSuccess ==
  ASSUME TypeOK, NEW s \in Sets, WorkStep(s) \/ StopRun(s)
  PROVE  /\ ~Finish(s) => \A r \in Runs : run'[r].state = "success" => run[r].state = "success"
         /\ ~SettleScope(s) => \A r \in Runs, c \in Scopes :
              obligation'[r][c] = "success" => obligation[r][c] = "success"
<1> DEFINE r == work[s].run
<1>1. ASSUME ~Finish(s)
      PROVE  \A q \in Runs : run'[q].state = "success" => run[q].state = "success"
  <2>1. \/ UNCHANGED run
        \/ run' = Advanced(r, "running") \/ run' = Advanced(r, "cleanup_running")
        \/ run' = Raised(r, "recovery_required", "required")
        \/ run' = Raised(r, "recovered", "resolved") \/ run' = Raised(r, "cleanup_failed", "resolved")
        \/ \E result : run' = [run EXCEPT ![r].backup = result]
    BY <1>1, RunWrites
  <2>2. ASSUME NEW result, run' = [run EXCEPT ![r].backup = result]
        PROVE  \A q \in Runs : run'[q].state = run[q].state
    BY <2>2 DEF TypeOK, RunRows
  <2>3. ASSUME NEW to \in {"running", "cleanup_running"}, run' = Advanced(r, to)
        PROVE  \A q \in Runs : run'[q].state = "success" => run[q].state = "success"
    BY <2>3 DEF Advanced, TypeOK, RunRows
  <2>4. ASSUME NEW to \in {"recovery_required", "recovered", "cleanup_failed"}, NEW recovery,
               run' = Raised(r, to, recovery)
        PROVE  \A q \in Runs : run'[q].state = "success" => run[q].state = "success"
    BY <2>4 DEF Raised, TypeOK, RunRows
  <2> QED
    BY <2>1, <2>2, <2>3, <2>4
<1>2. ASSUME ~SettleScope(s)
      PROVE  \A q \in Runs, c \in Scopes :
               obligation'[q][c] = "success" => obligation[q][c] = "success"
  <2>1. ASSUME NEW c, NEW to \in {"eligible", "running", "recovery_required", "acknowledged"},
               obligation' = Obliged(r, c, to)
        PROVE  \A q \in Runs, d \in Scopes :
                 obligation'[q][d] = "success" => obligation[q][d] = "success"
    BY <2>1 DEF Obliged, TypeOK
  <2>2. CASE \/ RecordStart(s) \/ SkipHook(s) \/ BeforeHook(s) \/ BeforeSkips(s) \/ HookEnds(s)
             \/ BeforeDone(s) \/ Backup(s) \/ CleanupStarts(s) \/ PassOver(s) \/ AfterHook(s)
             \/ AfterKnown(s) \/ Finish(s) \/ LoadHolds(s) \/ StoreHolds(s)
             \/ ResolveResumed(s) \/ GiveBack(s) \/ AckResolve(s) \/ Statuses(s) \/ StopRun(s)
    <3>1. UNCHANGED obligation
      BY <2>2 DEF RecordStart, SkipHook, BeforeHook, BeforeSkips, HookEnds, BeforeDone, Backup,
         CleanupStarts, PassOver, AfterHook, AfterKnown, Finish, LoadHolds, StoreHolds,
         ResolveResumed, GiveBack, AckResolve, Statuses, StopRun, journal
    <3> QED
      BY <3>1
  <2>3. CASE EnterSetScope(s)
    <3>1. UNCHANGED obligation \/ obligation' = Obliged(r, "set", "eligible")
      BY <2>3 DEF EnterSetScope
    <3> QED
      BY <2>1, <3>1
  <2>4. CASE TakeUp(s) \/ Declare(s)
    <3>1. \/ UNCHANGED obligation
          \/ obligation' = Obliged(r, work[s].scope, "running")
          \/ obligation' = Obliged(r, work[s].scope, "recovery_required")
      BY <2>4 DEF TakeUp, Declare
    <3> QED
      BY <2>1, <3>1
  <2>5. CASE AckScope(s)
    <3>1. PICK c : UNCHANGED obligation \/ obligation' = Obliged(r, c, "acknowledged")
      BY <2>5 DEF AckScope
    <3> QED
      BY <2>1, <3>1
  <2> QED
    BY <1>2, <2>2, <2>3, <2>4, <2>5 DEF WorkStep
<1> QED
  BY <1>1, <1>2

\* A claim that was earned stays so.
LEMMA EarnedStays ==
  ASSUME SuccessIsEarned,
         \A r \in Runs : good[r] \subseteq good'[r],
         \A r \in Runs, h \in Hooks : started'[r][h] > 0 /\ run'[r].state = "success" =>
           started[r][h] > 0,
         \A r \in Runs, c \in Scopes :
           obligation'[r][c] = "success" =>
             obligation[r][c] = "success" \/ HooksOf(c, "after") \subseteq good'[r],
         \A r \in Runs : run'[r].state = "success" =>
           run[r].state = "success" \/ \A h \in Hooks : started[r][h] > 0 => h \in good'[r]
  PROVE  SuccessIsEarned'
<1>1. ASSUME NEW r \in Runs
      PROVE  /\ \A s \in Scopes : obligation'[r][s] = "success" =>
                  HooksOf(s, "after") \subseteq good'[r]
             /\ run'[r].state = "success" => \A h \in Hooks : started'[r][h] > 0 => h \in good'[r]
  BY DEF SuccessIsEarned
<1> QED
  BY <1>1 DEF SuccessIsEarned, HooksOf

\* The steps that start no hook and end none.
LEMMA QuietEarns ==
  ASSUME TypeOK, OwedInv, EarnInv, NEW s \in Sets, Moves(s), WorkStep(s) \/ StopRun(s),
         UNCHANGED <<started, good>>, SuccessIsEarned', RowsTrue',
         work[s].at \notin {"idle", "load", "store", "hook"},
         Standing(work[s]) = "after" => Standing(work'[s]) # "after",
         Standing(work[s]) \in {"owe", "after"} => UNCHANGED run
  PROVE  EarnInv'
<1> DEFINE w == work[s]
<1>1. PICK v : Put(s, v) /\ Onward(w, v)
  BY DEF Moves
<1>2. v = work'[s]
  BY <1>1 DEF Put, TypeOK
<1>3. Earning(w, run, started, good)
  BY DEF EarnInv
<1> HIDE DEF w
<1>4. Earning(v, run', started', good')
  <2>1. CASE v.at \in {"idle", "load", "store"}
    BY <2>1, PausedEarns
  <2>2. CASE v.at \notin {"idle", "load", "store"}
    <3>1. /\ v.run = w.run /\ v.kind = w.kind /\ (w.failed => v.failed)
          /\ Standing(v) \in {"owe", "after"} => Standing(w) \in {"owe", "after"} \/ w.kind = "run"
          /\ Standing(v) = "after" => HooksOf(v.scope, "after") \subseteq v.left
      BY <1>1, <1>2, <2>2 DEF Onward, w
    <3>2. InHand(w) = {} /\ w.at \notin {"idle", "load", "store"}
      BY DEF InHand, w
    <3>3. v.kind = "run" /\ ~v.failed =>
            \A h \in Hooks : started'[v.run][h] > 0 => h \in good'[v.run] \cup InHand(v)
      BY <1>3, <3>1, <3>2 DEF Earning
    <3>4. Standing(v) = "after" => HooksOf(v.scope, "after") \ v.left \subseteq {}
      BY <3>1
    <3>5. v.kind = "resume" /\ Standing(v) \in {"owe", "after"} =>
            run'[v.run].state = "cleanup_running"
      BY <1>3, <3>1 DEF Earning, w
    <3> QED
      BY <3>3, <3>4, <3>5 DEF Earning
  <2> QED
    BY <2>1, <2>2
<1> QED
  BY <1>1, <1>4, OwnRun, LocalEarns

\* What is recorded of a hook is so afterwards.
LEMMA RowsStayTrue ==
  ASSUME TypeOK, RowsTrue, RanOnce, UNCHANGED <<started, good>>, StaysMade,
         NEW r, NEW h, row' = row \/ (MayMark(r, h, "skipped") /\ row' = Marked(r, h, "skipped"))
  PROVE  RowsTrue'
<1>1. ASSUME NEW q \in Runs, NEW g \in Hooks
      PROVE  /\ row'[q][g] = "success" => g \in good[q]
             /\ row'[q][g] = "skipped" \/ run'[q].state = "none" => started[q][g] = 0
  <2>1. CASE row'[q][g] = row[q][g]
    BY <2>1 DEF RowsTrue, StaysMade
  <2>2. CASE row'[q][g] # row[q][g]
    <3>1. q = r /\ g = h /\ row[q][g] = "pending" /\ row'[q][g] = "skipped"
      BY <2>2 DEF Marked, MayMark, RowFollows, TypeOK
    <3> QED
      BY <3>1 DEF RanOnce
  <2> QED
    BY <2>1, <2>2
<1> QED
  BY <1>1 DEF RowsTrue

LEMMA QuietStepsEarn ==
  ASSUME TypeOK, OwedInv, ClearInv, RanOnce, EarnInv, NEW s \in Sets,
         \/ RecordStart(s) \/ SkipHook(s) \/ BeforeSkips(s) \/ BeforeDone(s) \/ StopRun(s)
         \/ EnterSetScope(s) \/ Backup(s) \/ CleanupStarts(s) \/ PassOver(s) \/ TakeUp(s)
         \/ Declare(s) \/ ResolveResumed(s) \/ GiveBack(s) \/ AckScope(s) \/ AckResolve(s)
         \/ Statuses(s)
  PROVE  EarnInv'
<1> DEFINE w == work[s]
<1>1. WorkStep(s) \/ StopRun(s)
  BY DEF WorkStep
<1>2. Moves(s)
  BY BeforeMoves, HookMoves, CleanupMoves, EndMoves
<1>3. UNCHANGED <<started, good>>
  BY DEF RecordStart, SkipHook, BeforeSkips, BeforeDone, StopRun, EnterSetScope, Backup,
     CleanupStarts, PassOver, TakeUp, Declare, ResolveResumed, GiveBack, AckScope, AckResolve,
     Statuses, ghosts
<1>4. StaysMade
  BY <1>1, WorkStays
<1>5. /\ w.at \in {"start", "skip", "before", "enter", "backup", "cleanup", "owe", "declare",
                   "resolve", "giveback", "ack", "statuses"}
      /\ w.at = "owe" => UNCHANGED run
      /\ w.at = "skip" => UNCHANGED run
  BY DEF RecordStart, SkipHook, BeforeSkips, BeforeDone, StopRun, EnterSetScope, Backup,
     CleanupStarts, PassOver, TakeUp, Declare, ResolveResumed, GiveBack, AckScope, AckResolve,
     Statuses, At, journal
<1>6. Standing(w) # "after" /\ (Standing(w) = "owe" => w.at \in {"owe", "skip"})
  <2>1. w.at = "skip" => w.then # "after"
    BY DEF OwedInv, Fits
  <2> HIDE DEF w
  <2> QED
    BY <1>5, <2>1 DEF Standing
<1>7. RowsTrue'
  <2>1. row' = row \/ \E h : MayMark(w.run, h, "skipped") /\ row' = Marked(w.run, h, "skipped")
    <3>1. CASE SkipHook(s)
      BY <3>1 DEF SkipHook, Writes
    <3>2. CASE ~SkipHook(s)
      BY <3>2 DEF RecordStart, BeforeSkips, BeforeDone, StopRun, EnterSetScope, Backup,
         CleanupStarts, PassOver, TakeUp, Declare, ResolveResumed, GiveBack, AckScope, AckResolve,
         Statuses, journal
    <3> QED
      BY <3>1, <3>2
  <2> QED
    BY <1>3, <1>4, <2>1, RowsStayTrue DEF EarnInv
<1>8. ~Finish(s) /\ ~SettleScope(s)
  BY <1>5 DEF Finish, SettleScope, At
<1>9. SuccessIsEarned'
  BY <1>1, <1>3, <1>8, ClaimsSuccess, EarnedStays DEF EarnInv
<1> HIDE DEF w
<1> QED
  BY <1>1, <1>2, <1>3, <1>5, <1>6, <1>7, <1>9, QuietEarns DEF w

\* The end of a run: success is what a run without a failure claims.
LEMMA EndingsEarn ==
  ASSUME TypeOK, OwedInv, ClearInv, RanOnce, EarnInv, NEW s \in Sets,
         Finish(s) \/ LoadHolds(s) \/ StoreHolds(s)
  PROVE  EarnInv'
<1> DEFINE w == work[s]
<1>1. WorkStep(s) /\ UNCHANGED <<row, started, good>>
  BY DEF WorkStep, Finish, LoadHolds, StoreHolds, journal, ghosts
<1>2. StaysMade
  BY <1>1, WorkStays
<1>3. RowsTrue'
  BY <1>1, <1>2, RowsStayTrue DEF EarnInv
<1>4. w \in WorkTypes /\ Earning(w, run, started, good)
  BY WorkTyped DEF EarnInv
<1>5. PICK v : Put(s, v) /\ v.at \in {"idle", "load", "store"}
  <2>1. Idle.at = "idle" /\ [Idle EXCEPT !.at = "load"].at = "load"
    BY DEF Idle
  <2>2. [w EXCEPT !.at = "store", !.seen = Owing].at = "store"
    BY <1>4 DEF WorkTypes
  <2>3. \/ Put(s, Idle) \/ Put(s, [Idle EXCEPT !.at = "load"])
        \/ Put(s, [w EXCEPT !.at = "store", !.seen = Owing])
    BY DEF Finish, LoadHolds, StoreHolds
  <2> HIDE DEF w
  <2> QED
    BY <2>1, <2>2, <2>3
<1>6. SuccessIsEarned'
  <2>1. CASE LoadHolds(s) \/ StoreHolds(s)
    BY <1>1, <2>1, EarnedStays DEF LoadHolds, StoreHolds, journal, EarnInv
  <2>2. CASE Finish(s)
    <3>1. w.at = "finish" /\ w.kind = "run" /\ w.run \in Runs /\ UNCHANGED obligation
      BY <2>2 DEF Finish, At, OwedInv, Fits, RunOnly
    <3>2. FinalState(w) = "success" => ~w.failed
      <4>1. w.owed \in BOOLEAN /\ w.bad \in BOOLEAN
        BY <1>4 DEF WorkTypes
      <4>2. CASE w.owed
        BY <4>2 DEF FinalState
      <4>3. CASE ~w.owed /\ w.cause # "none"
        <5>1. FinalState(w) = w.cause /\ w.cause # "success"
          BY <1>4, <4>3 DEF FinalState, WorkTypes, Causes
        <5> QED BY <5>1
      <4>4. CASE ~w.owed /\ w.cause = "none" /\ w.bad
        BY <4>4 DEF FinalState
      <4>5. CASE ~w.owed /\ w.cause = "none" /\ ~w.bad
        BY <4>5 DEF FinalState
      <4> QED
        BY <4>1, <4>2, <4>3, <4>4, <4>5
    <3>3. \A q \in Runs : run'[q].state = "success" =>
            run[q].state = "success" \/ (q = w.run /\ FinalState(w) = "success")
      <4>1. \/ UNCHANGED run \/ run' = Advanced(w.run, FinalState(w))
            \/ run' = Raised(w.run, FinalState(w), "required")
        BY <2>2 DEF Finish
      <4> HIDE DEF w
      <4> QED BY <4>1 DEF Advanced, Raised, TypeOK, RunRows
    <3>4. ~w.failed => \A h \in Hooks : started[w.run][h] > 0 => h \in good[w.run]
      BY <1>4, <3>1 DEF Earning, InHand
    <3> HIDE DEF w
    <3> QED
      BY <1>1, <3>1, <3>2, <3>3, <3>4, EarnedStays DEF EarnInv
  <2> QED
    BY <2>1, <2>2
<1> QED
  BY <1>1, <1>3, <1>5, <1>6, OwnRun, PausedEarns, LocalEarns

\* The end of a scope's cleanup: success is what one that went well claims.
LEMMA SettleScopeEarns ==
  ASSUME TypeOK, OwedInv, ClearInv, RanOnce, EarnInv, NEW s \in Sets, SettleScope(s)
  PROVE  EarnInv'
<1> DEFINE w == work[s]
<1>1. WorkStep(s) /\ UNCHANGED <<run, row, started, good>>
  BY DEF WorkStep, SettleScope, ghosts
<1>2. w.at = "after" /\ w.left = {} /\ w \in WorkTypes /\ Earning(w, run, started, good)
  BY WorkTyped DEF SettleScope, At, EarnInv
<1>3. RowsTrue'
  BY <1>1, RowsStayTrue, QuietStays DEF EarnInv
<1>4. SuccessIsEarned'
  <2>1. \A q \in Runs, c \in Scopes : obligation'[q][c] = "success" =>
          obligation[q][c] = "success" \/ (q = w.run /\ c = w.scope /\ Outcome(w) = "success")
    <3>1. UNCHANGED obligation \/ obligation' = Obliged(w.run, w.scope, Outcome(w))
      BY DEF SettleScope
    <3> HIDE DEF w
    <3> QED BY <3>1 DEF Obliged, TypeOK
  <2>2. Outcome(w) = "success" => w.ok
    BY DEF Outcome
  <2>3. w.ok => HooksOf(w.scope, "after") \subseteq good[w.run]
    BY <1>2 DEF Earning, InHand, Standing
  <2> HIDE DEF w
  <2> QED
    BY <1>1, <2>1, <2>2, <2>3, EarnedStays DEF EarnInv
<1>5. Standing(work'[s]) # "after"
  <2> DEFINE on == [w EXCEPT !.bad = @ \/ (w.kind = "resume" /\ Outcome(w) = "failed")]
             lame == [Beyond(on) EXCEPT !.failed = TRUE]
  <2>1. Put(s, Beyond(on)) \/ Put(s, lame)
    BY DEF SettleScope
  <2>2. on \in WorkTypes
    BY <1>2 DEF WorkTypes
  <2> HIDE DEF on
  <2>3. Beyond(on).at \in {"owe", "finish", "resolve"} /\ Beyond(on) \in WorkTypes
    BY <2>2, BeyondStands, BeyondTyped
  <2>4. lame.at = Beyond(on).at
    BY <2>3 DEF WorkTypes
  <2> HIDE DEF lame
  <2>5. work'[s] = Beyond(on) \/ work'[s] = lame
    BY <2>1 DEF Put, TypeOK
  <2> QED
    BY <2>3, <2>4, <2>5 DEF Standing
<1>6. Moves(s)
  BY CleanupMoves
<1> QED
  BY <1>1, <1>2, <1>3, <1>4, <1>5, <1>6, QuietEarns

\* A resume takes the word of the rows, which are true.
LEMMA AfterKnownEarns ==
  ASSUME TypeOK, OwedInv, ClearInv, RanOnce, EarnInv, NEW s \in Sets, AfterKnown(s)
  PROVE  EarnInv'
<1> DEFINE w == work[s]
<1>1. WorkStep(s) /\ UNCHANGED <<run, obligation, row, started, good>>
  BY DEF WorkStep, AfterKnown, journal, ghosts
<1>2. /\ w.at = "after" /\ w.kind = "resume" /\ w \in WorkTypes /\ w.run \in Runs
      /\ Earning(w, run, started, good)
  BY WorkTyped DEF AfterKnown, At, EarnInv, OwedInv, Fits
<1>3. RowsTrue' /\ SuccessIsEarned'
  BY <1>1, RowsStayTrue, QuietStays, EarnedStays DEF EarnInv
<1>4. PICK h \in First(w.left) :
        Put(s, [w EXCEPT !.left = @ \ {h}, !.ok = @ /\ row[w.run][h] = "success",
                         !.lost = @ \/ row[w.run][h] = "interrupted",
                         !.bad = @ \/ row[w.run][h] \notin {"success", "interrupted"}])
  BY DEF AfterKnown
<1> DEFINE v == [w EXCEPT !.left = @ \ {h}, !.ok = @ /\ row[w.run][h] = "success",
                          !.lost = @ \/ row[w.run][h] = "interrupted",
                          !.bad = @ \/ row[w.run][h] \notin {"success", "interrupted"}]
<1>5. /\ v.at = "after" /\ v.kind = "resume" /\ v.run = w.run /\ v.scope = w.scope
      /\ v.left = w.left \ {h} /\ (v.ok => w.ok /\ row[w.run][h] = "success")
  BY <1>2 DEF WorkTypes
<1>6. h \in Hooks
  BY <1>2, <1>4 DEF First, WorkTypes
<1>7. Put(s, v)
  BY <1>4
<1> HIDE DEF v, w
<1>8. Earning(v, run, started, good)
  <2>1. row[w.run][h] = "success" => h \in good[w.run]
    BY <1>2, <1>6 DEF EarnInv, RowsTrue
  <2>2. Standing(v) = "after" /\ Standing(w) = "after" /\ InHand(w) = {}
    BY <1>2, <1>5 DEF Standing, InHand
  <2>3. v.ok => HooksOf(v.scope, "after") \ v.left \subseteq good[v.run] \cup InHand(v)
    BY <1>2, <1>5, <2>1, <2>2 DEF Earning
  <2> QED
    BY <1>2, <1>5, <2>2, <2>3 DEF Earning
<1> QED
  BY <1>1, <1>3, <1>7, <1>8, LocalEarns

\* A hook is handed over while its run is open, so no claim is about it.
LEMMA RunHookEarns ==
  ASSUME TypeOK, OwedInv, ClearInv, RanOnce, EarnInv, NEW s \in Sets,
         BeforeHook(s) \/ AfterHook(s)
  PROVE  EarnInv'
<1> DEFINE w == work[s]
<1>1. /\ w.at \in {"before", "after"} /\ w \in WorkTypes /\ Fits(s, w, run, obligation)
      /\ Earning(w, run, started, good) /\ Unhurt(w, obligation)
  BY AtIsWorking DEF BeforeHook, AfterHook, EarnInv, ClearInv
<1>2. UNCHANGED <<run, obligation>>
  BY DEF BeforeHook, AfterHook
<1>3. PICK h \in First(w.left) : RunHook(s, w, h)
  BY DEF BeforeHook, AfterHook
<1> HIDE DEF w
<1>4. /\ h \in Hooks /\ Stage[h] = [scope |-> w.scope, phase |-> w.at]
      /\ w.run \in Runs /\ SetOf[w.run] = s /\ w.scope \in Scopes
  BY <1>1, <1>3 DEF First, HooksOf, Fits, WorkTypes
<1>5. Standing(w) = w.at /\ InHand(w) = {}
  BY <1>1 DEF Standing, InHand
<1>6. run[w.run].state \notin {"none", "success"}
  <2>1. w.kind = "run" => run[w.run].state \in Open
    BY <1>1 DEF Fits, RunOnly
  <2>2. w.kind \in {"run", "resume"}
    BY <1>1, <1>5 DEF Fits, RunOnly, Unhurt
  <2>3. w.kind = "resume" => run[w.run].state = "cleanup_running"
    <3>1. w.kind = "resume" => w.at = "after"
      BY <1>1 DEF Fits, RunOnly
    <3> QED BY <1>1, <1>5, <3>1 DEF Earning
  <2> QED
    BY <2>1, <2>2, <2>3 DEF Open
<1> DEFINE on == [w EXCEPT !.left = @ \ {h}]
           hooking == [on EXCEPT !.at = "hook", !.hook = h]
           missed == [on EXCEPT !.ok = FALSE, !.failed = TRUE]
           bad == Failing(on, h, "failed")
<1>7. /\ on.run = w.run /\ on.kind = w.kind /\ on.scope = w.scope /\ on.at = w.at
      /\ on.failed = w.failed /\ on.ok = w.ok /\ on.left = w.left \ {h} /\ on \in WorkTypes
  BY <1>1 DEF WorkTypes
<1>8. \/ /\ Put(s, hooking) /\ row' = Marked(w.run, h, "running")
         /\ started' = [started EXCEPT ![w.run][h] = @ + 1] /\ UNCHANGED good
      \/ /\ Put(s, missed) \/ Put(s, bad)
         /\ row' = Marked(w.run, h, "failed") \/ row' = row
         /\ UNCHANGED <<started, good>>
  BY <1>3 DEF RunHook, ghosts
<1> HIDE DEF on
<1>9. /\ hooking.run = w.run /\ hooking.kind = w.kind /\ hooking.scope = w.scope
      /\ hooking.at = "hook" /\ hooking.hook = h /\ hooking.failed = w.failed
      /\ hooking.ok = w.ok /\ hooking.left = w.left \ {h}
  BY <1>7 DEF WorkTypes
<1>10. /\ missed.run = w.run /\ missed.kind = w.kind /\ missed.scope = w.scope
       /\ missed.at = w.at /\ missed.failed /\ ~missed.ok
  BY <1>7 DEF WorkTypes
<1>11. /\ bad.run = w.run /\ bad.kind = w.kind /\ bad.scope = w.scope /\ bad.at = w.at
       /\ bad.failed /\ ~bad.ok
  BY <1>7 DEF WorkTypes, Failing
<1> HIDE DEF hooking, missed, bad
<1>12. \A q \in Runs, g \in Hooks :
         /\ started'[q][g] = started[q][g] \/ (q = w.run /\ g = h /\ Put(s, hooking))
         /\ row'[q][g] = row[q][g] \/ (q = w.run /\ g = h /\ row'[q][g] \in {"running", "failed"})
         /\ q = w.run /\ g = h /\ started'[q][g] # started[q][g] => row'[q][g] = "running"
  BY <1>4, <1>8 DEF Marked, TypeOK
<1>13. UNCHANGED good
  BY <1>8
<1>14. RowsTrue'
  BY <1>2, <1>6, <1>12, <1>13 DEF EarnInv, RowsTrue
<1>15. SuccessIsEarned'
  BY <1>2, <1>6, <1>12, <1>13, EarnedStays DEF EarnInv
<1>16. \A q \in Runs : SetOf[q] # s => run'[q] = run[q] /\ started'[q] = started[q] /\ good'[q] = good[q]
  BY <1>2, <1>4, <1>8 DEF TypeOK
<1>17. CASE Put(s, hooking)
  <2>1. InHand(hooking) = {h} /\ Standing(hooking) = w.at
    BY <1>4, <1>9 DEF InHand, Standing
  <2>2. w.kind = "run" /\ ~w.failed =>
          \A g \in Hooks : started'[w.run][g] > 0 => g \in good'[w.run] \cup {h}
    BY <1>1, <1>4, <1>5, <1>12, <1>13 DEF Earning
  <2>3. w.at = "after" /\ w.ok =>
          HooksOf(w.scope, "after") \ (w.left \ {h}) \subseteq good'[w.run] \cup {h}
    BY <1>1, <1>5, <1>13 DEF Earning
  <2>4. w.kind = "resume" /\ w.at = "after" => run'[w.run].state = "cleanup_running"
    BY <1>1, <1>2, <1>5 DEF Earning
  <2>5. Earning(hooking, run', started', good')
    BY <1>1, <1>9, <2>1, <2>2, <2>3, <2>4 DEF Earning
  <2> QED
    BY <1>14, <1>15, <1>16, <1>17, <2>5, LocalEarns
<1>18. ASSUME NEW v, Put(s, v), v.failed, ~v.ok, v.run = w.run, v.kind = w.kind, v.at = w.at
       PROVE  EarnInv'
  <2>1. Standing(v) = w.at
    BY <1>1, <1>18 DEF Standing
  <2>2. w.kind = "resume" /\ w.at = "after" => run'[w.run].state = "cleanup_running"
    BY <1>1, <1>2, <1>5 DEF Earning
  <2>3. Earning(v, run', started', good')
    BY <1>1, <1>18, <2>1, <2>2 DEF Earning
  <2> QED
    BY <1>14, <1>15, <1>16, <1>18, <2>3, LocalEarns
<1> QED
  BY <1>8, <1>10, <1>11, <1>17, <1>18

\* A hook that ends well did so whether or not that can be recorded.
LEMMA HookEndsEarns ==
  ASSUME TypeOK, OwedInv, ClearInv, RanOnce, EarnInv, NEW s \in Sets, HookEnds(s)
  PROVE  EarnInv'
<1> DEFINE w == work[s]
           r == w.run
           h == w.hook
<1>1. /\ w.at = "hook" /\ w \in WorkTypes /\ h \in Hooks /\ Fits(s, w, run, obligation)
      /\ Earning(w, run, started, good)
  BY AtIsWorking DEF HookEnds, EarnInv, WorkTypes
<1>2. UNCHANGED <<run, obligation, started>>
  BY DEF HookEnds
<1>3. /\ r \in Runs /\ SetOf[r] = s /\ Stage[h].phase \in {"before", "after"}
  BY <1>1, PlanAssumption DEF Fits, Phases
<1>4. InHand(w) = {h} /\ Standing(w) = Stage[h].phase
  BY <1>1 DEF InHand, Standing
<1> DEFINE on == [w EXCEPT !.at = Stage[h].phase, !.hook = 0]
<1>5. PICK outcome \in {"success", "failed", "timed_out", "canceled"} :
        /\ good' = IF outcome = "success" THEN [good EXCEPT ![r] = @ \cup {h}] ELSE good
        /\ \/ /\ row' = Marked(r, h, IF outcome = "success" THEN "success" ELSE "failed")
              /\ Put(s, IF outcome = "success" THEN on ELSE Failing(on, h, outcome))
           \/ /\ UNCHANGED row
              /\ Put(s, [on EXCEPT !.failed = TRUE, !.ok = @ /\ outcome = "success"])
  BY DEF HookEnds, Writes
<1> DEFINE bad == Failing(on, h, outcome)
           missed == [on EXCEPT !.failed = TRUE, !.ok = @ /\ outcome = "success"]
<1>6. /\ on.run = r /\ on.kind = w.kind /\ on.scope = w.scope /\ on.at = Stage[h].phase
      /\ on.failed = w.failed /\ on.ok = w.ok /\ on.left = w.left
  BY <1>1 DEF WorkTypes
<1>7. on \in [at : {"before", "after"}, kind : Kinds, run : Runs \cup {0}, bypassed : BOOLEAN,
              scope : Scopes, left : SUBSET Hooks, hook : Hooks \cup {0},
              then : Places \ {"hook"}, entered : SUBSET Scopes, ok : BOOLEAN,
              failed : BOOLEAN, bad : BOOLEAN, owed : BOOLEAN, lost : BOOLEAN,
              stop : BOOLEAN, cause : Causes, seen : SUBSET Sets]
  BY <1>1, <1>3 DEF WorkTypes
<1> HIDE DEF w, on
<1>8. /\ bad.run = on.run /\ bad.kind = on.kind /\ bad.scope = on.scope /\ bad.at = on.at
      /\ bad.failed /\ ~bad.ok
  BY <1>7 DEF Failing
<1>9. /\ missed.run = on.run /\ missed.kind = on.kind /\ missed.scope = on.scope
      /\ missed.at = on.at /\ missed.failed /\ missed.left = on.left
      /\ missed.ok => on.ok /\ outcome = "success"
  BY <1>7
<1>10. /\ \/ outcome = "success" /\ Put(s, on)
          \/ Put(s, bad)
          \/ Put(s, missed)
       /\ row' = row \/ row' = Marked(r, h, IF outcome = "success" THEN "success" ELSE "failed")
  BY <1>5
<1> HIDE DEF bad, missed
<1>11. /\ \A q \in Runs : q # r => good'[q] = good[q]
       /\ good[r] \subseteq good'[r]
       /\ outcome = "success" => h \in good'[r]
  BY <1>3, <1>5 DEF TypeOK
<1>12. \A q \in Runs, g \in Hooks :
         \/ row'[q][g] = row[q][g]
         \/ q = r /\ g = h /\ row'[q][g] = IF outcome = "success" THEN "success" ELSE "failed"
  BY <1>10 DEF Marked, TypeOK
<1>13. RowsTrue'
  <2>1. ASSUME NEW q \in Runs, NEW g \in Hooks
        PROVE  /\ row'[q][g] = "success" => g \in good'[q]
               /\ row'[q][g] = "skipped" \/ run'[q].state = "none" => started'[q][g] = 0
    <3>1. /\ row[q][g] = "success" => g \in good[q]
          /\ row[q][g] = "skipped" \/ run[q].state = "none" => started[q][g] = 0
      BY DEF EarnInv, RowsTrue
    <3>2. good[q] \subseteq good'[q]
      BY <1>11
    <3> QED
      BY <1>2, <1>11, <1>12, <3>1, <3>2
  <2> QED
    BY <2>1 DEF RowsTrue
<1>14. SuccessIsEarned'
  BY <1>2, <1>11, EarnedStays DEF EarnInv
<1>15. ASSUME NEW v, Put(s, v), v.run = r, v.kind = w.kind, v.scope = w.scope, v.at = Stage[h].phase,
              ~v.failed => ~w.failed /\ outcome = "success",
              v.ok => w.ok /\ outcome = "success" /\ v.left = w.left
       PROVE  EarnInv'
  <2>1. Standing(v) = v.at /\ InHand(v) = {}
    BY <1>3, <1>15 DEF Standing, InHand
  <2>2. v.kind = "run" /\ ~v.failed =>
          \A g \in Hooks : started'[r][g] > 0 => g \in good'[r]
    BY <1>1, <1>2, <1>4, <1>11, <1>15 DEF Earning
  <2>3. v.at = "after" /\ v.ok => HooksOf(v.scope, "after") \ v.left \subseteq good'[r]
    BY <1>1, <1>4, <1>11, <1>15 DEF Earning
  <2>4. v.kind = "resume" /\ v.at \in {"owe", "after"} => run'[r].state = "cleanup_running"
    BY <1>1, <1>2, <1>3, <1>4, <1>15 DEF Earning
  <2>5. Earning(v, run', started', good')
    BY <1>15, <2>1, <2>2, <2>3, <2>4 DEF Earning
  <2> QED
    BY <1>2, <1>3, <1>11, <1>13, <1>14, <1>15, <2>5, LocalEarns
<1> QED
  BY <1>6, <1>8, <1>9, <1>10, <1>15

LEMMA WorkEarns ==
  ASSUME TypeOK, OwedInv, ClearInv, RanOnce, EarnInv, NEW s \in Sets, WorkStep(s) \/ StopRun(s)
  PROVE  EarnInv'
  BY QuietStepsEarn, EndingsEarn, SettleScopeEarns, AfterKnownEarns, RunHookEarns, HookEndsEarns
  DEF WorkStep

LEMMA ProcessEarns ==
  ASSUME TypeOK, OwedInv, RanOnce, EarnInv, Crash \/ Stop \/ PassFails
  PROVE  EarnInv'
<1>1. UNCHANGED <<run, obligation, row, started, good>>
  BY DEF Crash, Stop, Die, PassFails, journal, ghosts
<1>2. RowsTrue' /\ SuccessIsEarned'
  BY <1>1, RowsStayTrue, QuietStays, EarnedStays DEF EarnInv
<1>3. UNCHANGED work \/ \A s \in Sets : work'[s].at = "idle"
  BY DEF Crash, Stop, Die, PassFails, Idle
<1> QED
  BY <1>1, <1>2, <1>3, PausedEarns DEF EarnInv

\* What the startup pass reads from the rows of a run is so: if all of its hooks
\* are on record as successful or skipped, whatever was started exited well.
LEMMA StartupEarns ==
  ASSUME TypeOK, OwedInv, ClearInv, RanOnce, EarnInv, Startup
  PROVE  EarnInv'
<1>1. UNCHANGED <<started, good>> /\ \A s \in Sets : work'[s].at = "idle"
  BY DEF Startup, Start, OpenDone, Serve, ReconcileRun, SettleLeft, MarkOutstanding, Working,
     ghosts, memory, OwedInv
<1>2. \A s \in Sets : Earning(work'[s], run', started', good')
  BY <1>1, PausedEarns
<1>3. ASSUME UNCHANGED row, StaysMade,
             \A r \in Runs : run'[r].state = "success" => run[r].state = "success",
             \A r \in Runs, c \in Scopes :
               obligation'[r][c] = "success" => obligation[r][c] = "success"
      PROVE  EarnInv'
  BY <1>1, <1>2, <1>3, RowsStayTrue, EarnedStays DEF EarnInv
<1>4. CASE UNCHANGED journal
  BY <1>3, <1>4, QuietStays DEF journal
<1>5. ASSUME NEW r \in Runs, ReconcileRun(r), MayReconcile(r), Unsettled(r) = {}
      PROVE  EarnInv'
  <2>1. run' = Advanced(r, Verdict(r)) /\ UNCHANGED <<obligation, row>>
    BY <1>5 DEF ReconcileRun, Reconciled
  <2>2. StaysMade
    <3>1. Verdict(r) # "none"
      BY DEF Verdict
    <3> QED BY <2>1, <3>1, WrittenStays
  <2>3. RowsTrue'
    BY <1>1, <2>1, <2>2, RowsStayTrue DEF EarnInv
  <2>4. Verdict(r) = "success" => \A h \in Hooks : row[r][h] \in {"success", "skipped"}
    BY DEF Verdict
  <2>5. Verdict(r) = "success" => \A h \in Hooks : started[r][h] > 0 => h \in good[r]
    BY <2>4 DEF EarnInv, RowsTrue
  <2>6. \A q \in Runs : run'[q].state = "success" =>
          run[q].state = "success" \/ (q = r /\ Verdict(r) = "success")
    BY <2>1 DEF Advanced, TypeOK, RunRows
  <2>7. SuccessIsEarned'
    BY <1>1, <2>1, <2>5, <2>6, EarnedStays DEF EarnInv
  <2> QED
    BY <1>2, <2>3, <2>7 DEF EarnInv
<1>6. ASSUME NEW r \in Runs, ReconcileRun(r), MayReconcile(r), Unsettled(r) # {}
      PROVE  EarnInv'
  <2>1. /\ run' = Raised(r, "recovery_required", "required")
        /\ obligation' = [obligation EXCEPT ![r] =
             [s \in Scopes |-> IF s \in Unsettled(r) THEN "recovery_required" ELSE obligation[r][s]]]
        /\ row' = [row EXCEPT ![r] = Interrupted(r)]
    BY <1>6 DEF ReconcileRun, Reconciled
  <2>2. StaysMade
    BY <2>1, WrittenStays
  <2>3. RowsTrue'
    <3>1. ASSUME NEW q \in Runs, NEW h \in Hooks
          PROVE  /\ row'[q][h] = "success" => h \in good[q]
                 /\ row'[q][h] = "skipped" \/ run'[q].state = "none" => started[q][h] = 0
      <4>1. \/ row'[q][h] = row[q][h]
            \/ row'[q][h] = "interrupted"
            \/ row'[q][h] = "skipped" /\ row[q][h] = "pending"
        BY <2>1 DEF Interrupted, TypeOK
      <4> QED
        BY <2>2, <4>1 DEF EarnInv, RowsTrue, RanOnce, StaysMade
    <3> QED
      BY <1>1, <3>1 DEF RowsTrue
  <2>4. SuccessIsEarned'
    <3>1. \A q \in Runs : run'[q].state = "success" => run[q].state = "success"
      BY <2>1 DEF Raised, TypeOK, RunRows
    <3>2. \A q \in Runs, c \in Scopes :
            obligation'[q][c] = "success" => obligation[q][c] = "success"
      BY <2>1 DEF TypeOK
    <3> QED
      BY <1>1, <3>1, <3>2, EarnedStays DEF EarnInv
  <2> QED
    BY <1>2, <2>3, <2>4 DEF EarnInv
<1>7. ASSUME NEW r \in Runs, SettleLeft(r)
      PROVE  EarnInv'
  <2>1. /\ UNCHANGED <<obligation, row>>
        /\ \/ UNCHANGED run
           \/ run' = Raised(r, "cleanup_failed", "resolved")
           \/ run' = Raised(r, "recovered", "resolved")
    BY <1>7 DEF SettleLeft, Resolved
  <2>2. StaysMade
    BY <2>1, QuietStays, WrittenStays
  <2>3. \A q \in Runs : run'[q].state = "success" => run[q].state = "success"
    BY <2>1 DEF Raised, TypeOK, RunRows
  <2> QED
    BY <1>3, <2>1, <2>2, <2>3
<1>8. ASSUME NEW r \in Runs, NEW c \in Scopes, MarkOutstanding(r, c)
      PROVE  EarnInv'
  <2>1. UNCHANGED <<run, row>> /\ obligation' = Obliged(r, c, "recovery_required")
    BY <1>8 DEF MarkOutstanding
  <2>2. \A q \in Runs, d \in Scopes :
          obligation'[q][d] = "success" => obligation[q][d] = "success"
    BY <2>1 DEF Obliged, TypeOK
  <2> QED
    BY <1>3, <2>1, <2>2, QuietStays
<1> QED
  BY <1>4, <1>5, <1>6, <1>7, <1>8 DEF Startup, Start, OpenDone, Serve, ReconcileRun

\* A run begins with nothing started, and a resume with its run at its cleanup.
LEMMA RequestsEarn ==
  ASSUME TypeOK, OwedInv, ClearInv, RanOnce, EarnInv, Requests
  PROVE  EarnInv'
<1>1. UNCHANGED <<row, started, good>>
  BY DEF Requests, AskRun, AskResume, AskAck, Ask, BeginRun, BeginResume, BeginAck, Busy,
     Committed, journal, ghosts
<1>2. CASE UNCHANGED <<run, obligation, work>>
  BY <1>1, <1>2 DEF EarnInv, SuccessIsEarned, RowsTrue
<1>3. ASSUME NEW s \in Sets, BeginRun(s)
      PROVE  EarnInv'
  <2>1. PICK r \in First(Fresh(s)), bypassed \in {FALSE, Bypassing} :
          \/ /\ Committed(r, bypassed)
             /\ Put(s, [Idle EXCEPT !.at = "start", !.kind = "run", !.run = r,
                          !.bypassed = bypassed,
                          !.entered = IF bypassed THEN {} ELSE {"global"}])
          \/ UNCHANGED <<journal, work>>
    BY <1>3 DEF BeginRun
  <2> DEFINE w == [Idle EXCEPT !.at = "start", !.kind = "run", !.run = r, !.bypassed = bypassed,
                               !.entered = IF bypassed THEN {} ELSE {"global"}]
  <2>2. r \in Runs /\ SetOf[r] = s /\ \A h \in Hooks : started[r][h] = 0
    BY DEF First, Fresh, EarnInv, RowsTrue
  <2>3. w.at = "start" /\ w.kind = "run" /\ w.run = r
    BY DEF Idle
  <2>4. CASE Committed(r, bypassed) /\ Put(s, w)
    <3> HIDE DEF w
    <3>1. run' = Advanced(r, "pending")
      BY <2>4 DEF Committed
    <3>2. /\ StaysMade
          /\ \A q \in Runs : run'[q].state = "success" => run[q].state = "success"
          /\ \A q \in Runs : q # r => run'[q] = run[q]
      BY <3>1, WrittenStays DEF Advanced, TypeOK, RunRows
    <3>3. \A q \in Runs, c \in Scopes :
            obligation'[q][c] = "success" => obligation[q][c] = "success"
      BY <2>4 DEF Committed, TypeOK
    <3>4. RowsTrue' /\ SuccessIsEarned'
      BY <1>1, <3>2, <3>3, RowsStayTrue, EarnedStays DEF EarnInv
    <3>5. Earning(w, run', started', good')
      BY <1>1, <2>2, <2>3 DEF Earning, Standing
    <3> QED
      BY <1>1, <2>2, <2>4, <3>2, <3>4, <3>5, LocalEarns
  <2> QED
    BY <1>2, <2>1, <2>4 DEF journal
<1>4. ASSUME NEW r \in Runs, BeginResume(r)
      PROVE  EarnInv'
  <2> DEFINE w == [Idle EXCEPT !.at = "owe", !.kind = "resume", !.run = r, !.scope = "set"]
  <2>1. /\ UNCHANGED obligation /\ SetOf[r] \in Sets
        /\ \/ run' = Raised(r, "cleanup_running", "in_progress") /\ Put(SetOf[r], w)
           \/ UNCHANGED <<run, work>>
    BY <1>4, PlanAssumption DEF BeginResume
  <2>2. w.at = "owe" /\ w.kind = "resume" /\ w.run = r
    BY DEF Idle
  <2> HIDE DEF w
  <2>3. CASE run' = Raised(r, "cleanup_running", "in_progress") /\ Put(SetOf[r], w)
    <3>1. /\ StaysMade /\ run'[r].state = "cleanup_running"
          /\ \A q \in Runs : run'[q].state = "success" => run[q].state = "success"
          /\ \A q \in Runs : q # r => run'[q] = run[q]
      BY <2>3, WrittenStays DEF Raised, TypeOK, RunRows
    <3>2. RowsTrue' /\ SuccessIsEarned'
      BY <1>1, <2>1, <3>1, RowsStayTrue, EarnedStays DEF EarnInv
    <3>3. Earning(w, run', started', good')
      BY <2>2, <3>1 DEF Earning, Standing
    <3> QED
      BY <1>1, <2>1, <2>3, <3>1, <3>2, <3>3, LocalEarns
  <2> QED
    BY <1>2, <2>1, <2>3
<1>5. ASSUME NEW r \in Runs, BeginAck(r)
      PROVE  EarnInv'
  <2> DEFINE w == [Idle EXCEPT !.at = "ack", !.kind = "ack", !.run = r]
  <2>1. UNCHANGED <<run, obligation>> /\ Put(SetOf[r], w) /\ SetOf[r] \in Sets
    BY <1>5, PlanAssumption DEF BeginAck, journal
  <2>2. w.at = "ack" /\ w.kind = "ack"
    BY DEF Idle
  <2> HIDE DEF w
  <2>3. Earning(w, run', started', good')
    BY <2>2 DEF Earning, Standing
  <2>4. RowsTrue' /\ SuccessIsEarned'
    BY <1>1, <2>1, QuietStays, RowsStayTrue, EarnedStays DEF EarnInv
  <2> QED
    BY <1>1, <2>1, <2>3, <2>4, LocalEarns
<1>6. ASSUME NEW q, Ask(q) \/ Busy(q)
      PROVE  EarnInv'
  BY <1>2, <1>6 DEF Ask, Busy, journal
<1> QED
  BY <1>3, <1>4, <1>5, <1>6 DEF Requests, AskRun, AskResume, AskAck

LEMMA InitEarns ==
  ASSUME Init
  PROVE  EarnInv
<1>1. SuccessIsEarned /\ RowsTrue
  BY DEF Init, JournalInit, NoRow, SuccessIsEarned, RowsTrue
<1>2. \A s \in Sets : work[s].at = "idle"
  BY DEF Init, Idle
<1> QED
  BY <1>1, <1>2, PausedEarns DEF EarnInv

LEMMA NextEarns ==
  ASSUME TypeOK, OwedInv, ClearInv, RanOnce, EarnInv, [Next]_vars
  PROVE  EarnInv'
<1>1. CASE UNCHANGED vars
  BY <1>1 DEF vars, EarnInv, SuccessIsEarned, RowsTrue
<1> QED
  BY <1>1, WorkEarns, ProcessEarns, StartupEarns, RequestsEarn DEF Next

\* Success is never claimed for what did not happen, for any plan and any number of
\* runs and sets: neither by a run that ends (finish) or is resumed (resumeScope),
\* nor by a startup pass that reads it from the rows (finishedRunAdvance), whatever
\* dies or is refused on the way.
THEOREM SuccessIsEarnedHolds == Spec => []SuccessIsEarned
<1> DEFINE Inv == TypeOK /\ OwedInv /\ ClearInv /\ RanOnce /\ EarnInv
<1>1. Init => Inv
  BY InitTyped, InitOwed, InitClear, InitEarns DEF Init, JournalInit, RanOnce
<1>2. Inv /\ [Next]_vars => Inv'
  BY NextTyped, NextOwed, NextClear, NextRanOnce, NextEarns
<1>3. Inv => SuccessIsEarned
  BY DEF EarnInv
<1> QED
  BY <1>1, <1>2, <1>3, PTL DEF Spec

=============================================================================
