---------------------------- MODULE PlacementMove ----------------------------
(***************************************************************************)
(* Moving one managed artifact from the medium it lives on to another.     *)
(* The move engine copies the bytes, verifies the copy at the class the    *)
(* destination requires, records it, and only then deletes the source.     *)
(*                                                                         *)
(* A move is a row of the journal with a phase; a placement is a row       *)
(* saying what the journal believes about the copy on one medium.  Both    *)
(* are written together, in a transaction that first compares the phase it *)
(* is leaving.  The copies themselves are on disks and in object stores,   *)
(* which a transaction does not reach: every call to them is an action of  *)
(* its own, and the process may stop between any two.                      *)
(*                                                                         *)
(* An engine is one process running move cycles.  Left out: a copy that    *)
(* rots without its size, time or storage class changing (the code accepts *)
(* that within the two minutes a read-back counts for), restores of        *)
(* archived objects, and the limit of 32 phase steps in one cycle, which   *)
(* MaxCopies attempts never reach.                                         *)
(*                                                                         *)
(* A definition marked "Mutated:" is not part of the model.  It is the     *)
(* definition after it with one slip in it, which a property has to catch. *)
(***************************************************************************)
EXTENDS Naturals

CONSTANTS
  Engines,     \* processes that run move cycles over the one journal
  Mediums,     \* where copies can be
  Local,       \* the backup set's own directory, one of the Mediums
  Want,        \* the verification class each medium requires
  MaxCopies,   \* defaultMaxCopyAttempts: copies tried in one cycle
  MaxMoves,    \* bound on the moves of a behaviour
  FaultKinds,  \* the kinds of fault that happen
  MaxFaults,   \* bound on the faults of a behaviour
  MaxChanges   \* bound on the changes of configuration and of the artifact's state

ASSUME MediumAssumption ==
  /\ Local \in Mediums
  /\ Want \in [Mediums -> {"content", "attested"}]
  /\ Want[Local] = "content"

ASSUME BoundAssumption ==
  /\ MaxCopies \in Nat \ {0}
  /\ MaxMoves \in Nat
  /\ MaxFaults \in Nat
  /\ MaxChanges \in Nat

VARIABLES
  state,     \* the artifact's lifecycle state
  place,     \* its placements: what the journal says of the copy on each medium
  moves,     \* its moves, in the order they were planned
  objs,      \* the copy that is on each medium
  staged,    \* the staging copy of a move between two mediums other than Local
  wanted,    \* the mediums some retention tier selects the artifact on
  archived,  \* the mediums whose storage class is an archive class
  job,       \* where each engine is, and what it holds in memory
  hurt,      \* the mediums whose copy was ever damaged from outside
  faults,    \* faults so far
  changes    \* changes of configuration and state so far

vars == <<state, place, moves, objs, staged, wanted, archived, job, hurt, faults, changes>>
outside == <<state, wanted, archived, hurt, changes>>

Copies == {"good", "bad", "none"}
Phases == {"PLANNED", "COPYING", "COPIED", "VERIFYING", "VERIFIED",
           "SOURCE_DELETE_PENDING", "DONE", "ABANDONED"}
Terminal == {"DONE", "ABANDONED"}

PhaseTransitions ==
  {<<"PLANNED", "COPYING">>, <<"COPYING", "COPIED">>, <<"COPIED", "VERIFYING">>,
   <<"VERIFYING", "VERIFIED">>, <<"VERIFIED", "SOURCE_DELETE_PENDING">>,
   <<"SOURCE_DELETE_PENDING", "DONE">>, <<"SOURCE_DELETE_PENDING", "COPYING">>,
   <<"VERIFYING", "COPYING">>, <<"PLANNED", "ABANDONED">>, <<"COPYING", "ABANDONED">>,
   <<"COPIED", "ABANDONED">>, <<"VERIFYING", "ABANDONED">>}

MoveIds == 1 .. MaxMoves
Unplanned == [phase |-> "none", src |-> Local, dst |-> Local]
Live(n) == moves[n].phase \in Phases \ Terminal

Idle == [pc |-> "idle", n |-> 0, phase |-> "none", tries |-> 0,
         known |-> FALSE, still |-> FALSE, sound |-> FALSE, readable |-> FALSE]

Init ==
  /\ state = "COMPLETE"
  /\ place = [m \in Mediums |-> IF m = Local
                                THEN [status |-> "ACTIVE", class |-> "content"]
                                ELSE [status |-> "none", class |-> "none"]]
  /\ moves = [n \in MoveIds |-> Unplanned]
  /\ objs = [m \in Mediums |-> IF m = Local THEN "good" ELSE "none"]
  /\ staged = "none"
  /\ wanted \in {{Local}, Mediums \ {Local}}
  /\ archived = {}
  /\ job = [e \in Engines |-> Idle]
  /\ hurt = {}
  /\ faults = 0
  /\ changes = 0

-----------------------------------------------------------------------------
(* What the actions are made of.                                           *)

At(e, pc) == job[e].pc = pc
AtPhase(e, phase) == At(e, "phase") /\ job[e].phase = phase
Src(e) == moves[job[e].n].src
Dst(e) == moves[job[e].n].dst

Goto(e, pc) == job' = [job EXCEPT ![e].pc = pc]

\* The engine gives up on the move for this cycle.  Why is noted on the move's
\* row, in a write that leaves its phase and the placements as they are.
Stop(e) == job' = [job EXCEPT ![e] = Idle]

NoFault == UNCHANGED faults
Fault(kind) == /\ kind \in FaultKinds
               /\ faults < MaxFaults
               /\ faults' = faults + 1

\* A copy on medium m has been written or removed: an identity taken of it
\* before no longer matches it.
Disturbed(m) == [e \in Engines |->
  IF job[e].n # 0 /\ Dst(e) = m THEN [job[e] EXCEPT !.still = FALSE] ELSE job[e]]

WithStatus(m, status) == [place EXCEPT ![m].status = status]
Restored(m) == IF place[m].status \notin {"none", "ACTIVE"} THEN WithStatus(m, "ACTIVE") ELSE place

\* The journal's compare-and-set of a move's phase, placements included.
MayAdvance(e, to) ==
  /\ moves[job[e].n].phase = job[e].phase
  /\ job[e].phase = to \/ <<job[e].phase, to>> \in PhaseTransitions

AdvanceMove(e, to, placements, pc) ==
  /\ MayAdvance(e, to)
  /\ moves' = [moves EXCEPT ![job[e].n].phase = to]
  /\ place' = placements
  /\ job' = [job EXCEPT ![e] = [@ EXCEPT !.phase = to, !.pc = pc]]
  /\ UNCHANGED <<objs, staged, faults, outside>>

\* An artifact that may move has one ACTIVE placement, and not at the destination.
Eligible(dst) ==
  /\ state = "COMPLETE"
  /\ place[dst].status # "ACTIVE"
  /\ \E m \in Mediums : \A k \in Mediums : place[k].status = "ACTIVE" <=> k = m
  /\ dst \notin archived

-----------------------------------------------------------------------------
(* A cycle: it resumes what is unfinished, then plans what is due.         *)

Resume(e, n) ==
  /\ At(e, "idle")
  /\ Live(n)
  /\ job' = [job EXCEPT ![e] = [Idle EXCEPT !.pc = "phase", !.n = n, !.phase = moves[n].phase]]
  /\ UNCHANGED <<place, moves, objs, staged, faults, outside>>

\* Mutated: a second live move of the artifact is let through.
PlanBesideAnother(e, n, src, dst) ==
  /\ At(e, "idle")
  /\ moves[n].phase = "none" /\ (\A k \in MoveIds : k < n => moves[k].phase # "none")
  /\ src # dst /\ Eligible(dst)
  /\ place[src].status = "ACTIVE"
  /\ moves' = [moves EXCEPT ![n] = [phase |-> "PLANNED", src |-> src, dst |-> dst]]
  /\ job' = [job EXCEPT ![e] = [Idle EXCEPT !.pc = "phase", !.n = n, !.phase = "PLANNED"]]
  /\ UNCHANGED <<place, objs, staged, faults, outside>>

\* The plan names the destination; it was drawn up from the tiers some time
\* before.  PlanMove repeats, in its own transaction, what it depends on.
Plan(e, n, src, dst) ==
  /\ At(e, "idle")
  /\ moves[n].phase = "none" /\ (\A k \in MoveIds : k < n => moves[k].phase # "none")
  /\ \A k \in MoveIds : ~Live(k)
  /\ src # dst /\ Eligible(dst)
  /\ place[src].status = "ACTIVE"
  /\ moves' = [moves EXCEPT ![n] = [phase |-> "PLANNED", src |-> src, dst |-> dst]]
  /\ job' = [job EXCEPT ![e] = [Idle EXCEPT !.pc = "phase", !.n = n, !.phase = "PLANNED"]]
  /\ UNCHANGED <<place, objs, staged, faults, outside>>

-----------------------------------------------------------------------------
(* PLANNED to COPIED.                                                      *)

StartCopy(e) ==
  /\ AtPhase(e, "PLANNED")
  /\ Eligible(Dst(e))
  /\ AdvanceMove(e, "COPYING", place, "phase")

Ineligible(e) ==
  /\ AtPhase(e, "PLANNED")
  /\ ~Eligible(Dst(e))
  /\ Goto(e, "abandon")
  /\ UNCHANGED <<place, moves, objs, staged, faults, outside>>

\* Mutated: attempts are not counted against the limit.
CopyUselessOnce(e) == place[Src(e)].status = "none" \/ Dst(e) \in archived

\* No further attempt: the cycle has had enough of them, the source has no
\* placement, or a copy at the destination could not be verified.
CopyUseless(e) == \/ job[e].tries = MaxCopies
                  \/ place[Src(e)].status = "none"
                  \/ Dst(e) \in archived

CopyBegin(e) ==
  /\ AtPhase(e, "COPYING")
  /\ \/ /\ CopyUseless(e)
        /\ Goto(e, "abandon")
     \/ /\ ~CopyUseless(e)
        /\ job' = [job EXCEPT ![e] = [@ EXCEPT !.pc = "transfer", !.tries = job[e].tries + 1]]
  /\ UNCHANGED <<place, moves, objs, staged, faults, outside>>

\* What a transfer of c may deliver.
Delivers(c, delivered) ==
  \/ delivered = c /\ NoFault
  \/ delivered = "bad" /\ Fault("miscopy")

\* copyToMedium: the upload replaces whatever is at the key.
CopyToMedium(e) ==
  /\ At(e, "transfer")
  /\ Src(e) = Local
  /\ objs[Local] # "none"
  /\ \E c \in Copies : /\ Delivers(objs[Local], c)
                       /\ objs' = [objs EXCEPT ![Dst(e)] = c]
  /\ job' = [Disturbed(Dst(e)) EXCEPT ![e].pc = "copied"]
  /\ UNCHANGED <<place, moves, staged, outside>>

\* copyToLocal: the download does not replace a file that is already there.
CopyToLocal(e) ==
  /\ At(e, "transfer")
  /\ Dst(e) = Local
  /\ objs[Src(e)] # "none"
  /\ Src(e) \notin archived
  /\ IF objs[Local] = "none"
     THEN /\ \E c \in Copies : /\ Delivers(objs[Src(e)], c)
                               /\ objs' = [objs EXCEPT ![Local] = c]
          /\ job' = [Disturbed(Local) EXCEPT ![e].pc = "copied"]
     ELSE Goto(e, "copied") /\ UNCHANGED <<objs, faults>>
  /\ UNCHANGED <<place, moves, staged, outside>>

\* copyMediumToMedium, first: a staging copy, a good one that is already there
\* reused.  A source that would have to be restored refuses the copy for good.
ThroughStaging(e) == Src(e) # Local /\ Dst(e) # Local

Stage(e) ==
  /\ At(e, "transfer")
  /\ ThroughStaging(e)
  /\ IF Src(e) \in archived
     THEN Goto(e, "abandon") /\ UNCHANGED <<staged, faults>>
     ELSE \/ staged = "good" /\ Goto(e, "send") /\ UNCHANGED <<staged, faults>>
          \/ /\ staged # "good" /\ objs[Src(e)] # "none"
             /\ \E c \in Copies : Delivers(objs[Src(e)], c) /\ staged' = c
             /\ IF staged' = "good" THEN Goto(e, "send") ELSE Stop(e)
  /\ UNCHANGED <<place, moves, objs, outside>>

SendStaged(e) ==
  /\ At(e, "send")
  /\ \E c \in Copies : /\ Delivers(staged, c)
                       /\ objs' = [objs EXCEPT ![Dst(e)] = c]
  /\ job' = [Disturbed(Dst(e)) EXCEPT ![e].pc = "unstage"]
  /\ UNCHANGED <<place, moves, staged, outside>>

Unstage(e) ==
  /\ At(e, "unstage")
  /\ staged' = "none"
  /\ Goto(e, "copied")
  /\ UNCHANGED <<place, moves, objs, faults, outside>>

\* What an upload in flight carries.
InFlight(e) == IF At(e, "send") THEN staged
               ELSE IF At(e, "transfer") /\ Src(e) = Local THEN objs[Local] ELSE "none"

\* The copy does not succeed: nothing at the source, or a call failed.  An upload
\* whose answer is lost has happened all the same.
CopyFails(e) ==
  /\ job[e].pc \in {"transfer", "send", "unstage"}
  /\ \/ /\ Fault("call")
        /\ \/ objs' = objs
           \/ InFlight(e) # "none" /\ objs' = [objs EXCEPT ![Dst(e)] = InFlight(e)]
     \/ /\ At(e, "transfer")
        /\ objs[Src(e)] = "none" \/ (Src(e) \in archived /\ Dst(e) = Local)
        /\ ~(ThroughStaging(e) /\ (staged = "good" \/ Src(e) \in archived))
        /\ UNCHANGED <<objs, faults>>
  /\ staged' = IF At(e, "send") THEN "none" ELSE staged
  /\ job' = [(IF objs' = objs THEN job ELSE Disturbed(Dst(e))) EXCEPT ![e] = Idle]
  /\ UNCHANGED <<place, moves, outside>>

CopyRecord(e) == At(e, "copied") /\ AdvanceMove(e, "COPIED", place, "phase")

-----------------------------------------------------------------------------
(* COPIED to SOURCE_DELETE_PENDING.                                        *)

StartVerify(e) == AtPhase(e, "COPIED") /\ AdvanceMove(e, "VERIFYING", place, "phase")

\* The identity of what is about to be read, where a full read will be worth
\* keeping; it cannot be had when there is no object or the call fails.
Identify(e) ==
  /\ AtPhase(e, "VERIFYING")
  /\ LET identifiable == /\ Want[Dst(e)] = "content"
                         /\ objs[Dst(e)] # "none"
                         /\ Dst(e) \notin archived
     IN  job' = [job EXCEPT ![e] = [@ EXCEPT !.pc = "read", !.known = identifiable,
                                             !.still = identifiable]]
  /\ UNCHANGED <<place, moves, objs, staged, faults, outside>>

\* The gated verification at the class the medium requires: refused for good where
\* the class could not be had without a restore; anything else that is not a pass,
\* an unreadable copy included, is a reason to copy again.
VerifyRead(e) ==
  /\ At(e, "read")
  /\ \/ NoFault /\ Goto(e, IF Dst(e) \in archived THEN "abandon"
                           ELSE IF objs[Dst(e)] = "good" THEN "pass" ELSE "recopy")
     \/ Fault("call") /\ Goto(e, "recopy")
  /\ UNCHANGED <<place, moves, objs, staged, outside>>

\* Mutated: the copy is identified when its verification is recorded, not before
\* it was read.
VerifyPassIdentifiesLate(e) ==
  /\ At(e, "pass")
  /\ MayAdvance(e, "VERIFIED")
  /\ moves' = [moves EXCEPT ![job[e].n].phase = "VERIFIED"]
  /\ place' = [place EXCEPT ![Dst(e)] = [status |-> "ACTIVE", class |-> Want[Dst(e)]]]
  /\ job' = [job EXCEPT ![e] = [@ EXCEPT !.phase = "VERIFIED", !.pc = "phase",
                                         !.still = job[e].known]]
  /\ UNCHANGED <<objs, staged, faults, outside>>

VerifyPass(e) ==
  /\ At(e, "pass")
  /\ AdvanceMove(e, "VERIFIED",
                 [place EXCEPT ![Dst(e)] = [status |-> "ACTIVE", class |-> Want[Dst(e)]]],
                 "phase")

IntendDelete(e) ==
  /\ AtPhase(e, "VERIFIED")
  /\ AdvanceMove(e, "SOURCE_DELETE_PENDING", WithStatus(Src(e), "DELETE_PENDING"), "phase")

-----------------------------------------------------------------------------
(* SOURCE_DELETE_PENDING to DONE.                                          *)

\* One read of the journal serves the whole attempt.
DeleteLook(e) ==
  /\ AtPhase(e, "SOURCE_DELETE_PENDING")
  /\ LET sound == /\ state = "COMPLETE"
                  /\ place[Dst(e)] = [status |-> "ACTIVE", class |-> Want[Dst(e)]]
                  /\ place[Src(e)].status = "DELETE_PENDING"
     IN  job' = [job EXCEPT ![e] = [@ EXCEPT !.pc = "reverify", !.sound = sound]]
  /\ UNCHANGED <<place, moves, objs, staged, faults, outside>>

\* The read-back made at VERIFYING still counts when this cycle made it, it is
\* recent and the object looks the same.  A proof counts once.
ProofHolds(e) == job[e].known /\ job[e].still /\ objs[Dst(e)] # "none"

\* Reading the copy again, ungated: an archived object cannot be read back, and
\* can still be attested.
Unreadable(m) == objs[m] = "none" \/ (Want[m] = "content" /\ m \in archived)

\* Mutated: a copy that cannot be read is taken for a copy that is wrong.
ReverifyTakesUnreadForWrong(e) ==
  /\ At(e, "reverify")
  /\ \/ /\ ProofHolds(e) /\ NoFault
        /\ job' = [job EXCEPT ![e] = [@ EXCEPT !.pc = "guard", !.readable = TRUE, !.known = FALSE]]
     \/ /\ ~Unreadable(Dst(e)) /\ NoFault
        /\ job' = [job EXCEPT ![e] =
             IF objs[Dst(e)] = "good"
             THEN [@ EXCEPT !.pc = "guard", !.readable = TRUE, !.still = TRUE]
             ELSE [@ EXCEPT !.pc = "recopy"]]
     \/ /\ \/ Unreadable(Dst(e)) /\ NoFault
           \/ Fault("call")
        /\ Goto(e, "recopy")
  /\ UNCHANGED <<place, moves, objs, staged, outside>>

ReverifyForDelete(e) ==
  /\ At(e, "reverify")
  /\ \/ /\ ProofHolds(e) /\ NoFault
        /\ job' = [job EXCEPT ![e] = [@ EXCEPT !.pc = "guard", !.readable = TRUE, !.known = FALSE]]
     \/ /\ ~Unreadable(Dst(e)) /\ NoFault
        /\ job' = [job EXCEPT ![e] =
             IF objs[Dst(e)] = "good"
             THEN [@ EXCEPT !.pc = "guard", !.readable = TRUE, !.still = TRUE]
             ELSE [@ EXCEPT !.pc = "recopy"]]
     \/ /\ \/ Unreadable(Dst(e)) /\ NoFault
           \/ Fault("call")
        /\ job' = [job EXCEPT ![e] = [@ EXCEPT !.pc = "guard", !.readable = FALSE]]
  /\ UNCHANGED <<place, moves, objs, staged, outside>>

\* CheckSourceDelete: another copy can stand in for the one about to go.
StandsIn(e) == \E m \in Mediums \ {Src(e)} : /\ place[m].status = "ACTIVE"
                                             /\ place[m].class \in {"content", "attested"}
                                             /\ m \notin archived

\* Which of guardSourceDelete's clauses still have to be asked of the world: the
\* tiers (who refuse an artifact that is not COMPLETE), the object, the survivors.
MayAsk(e) == job[e].sound /\ state = "COMPLETE" /\ Src(e) \notin wanted

\* Mutated: a source that is already gone is one more refusal.
GuardRefusesGone(e) ==
  /\ At(e, "guard")
  /\ \/ /\ MayAsk(e) /\ objs[Src(e)] # "none" /\ StandsIn(e) /\ job[e].readable /\ NoFault
        /\ Goto(e, "remove")
     \/ /\ \/ NoFault /\ \/ ~MayAsk(e)
                         \/ objs[Src(e)] # "good"
                         \/ ~(StandsIn(e) /\ job[e].readable)
           \/ Fault("call")
        /\ Stop(e)
  /\ UNCHANGED <<place, moves, objs, staged, outside>>

\* A source of another size than the recorded one is refused: bad bytes may have it.
GuardSourceDelete(e) ==
  /\ At(e, "guard")
  /\ \/ /\ MayAsk(e) /\ objs[Src(e)] = "none" /\ NoFault
        /\ Goto(e, "done")
     \/ /\ MayAsk(e) /\ objs[Src(e)] # "none" /\ StandsIn(e) /\ job[e].readable /\ NoFault
        /\ Goto(e, "remove")
     \/ /\ \/ NoFault /\ \/ ~MayAsk(e)
                         \/ objs[Src(e)] = "bad"
                         \/ objs[Src(e)] # "none" /\ ~(StandsIn(e) /\ job[e].readable)
           \/ Fault("call")
        /\ Stop(e)
  /\ UNCHANGED <<place, moves, objs, staged, outside>>

RemoveSource(e) ==
  /\ At(e, "remove")
  /\ objs' = [objs EXCEPT ![Src(e)] = "none"]
  /\ job' = [Disturbed(Src(e)) EXCEPT ![e].pc = "done"]
  /\ NoFault
  /\ UNCHANGED <<place, moves, staged, outside>>

\* The call fails, or only its answer is lost.
RemoveFails(e) ==
  /\ At(e, "remove")
  /\ Fault("call")
  /\ objs' \in {objs, [objs EXCEPT ![Src(e)] = "none"]}
  /\ job' = [Disturbed(Src(e)) EXCEPT ![e] = Idle]
  /\ UNCHANGED <<place, moves, staged, outside>>

RecordDone(e) ==
  /\ At(e, "done")
  /\ AdvanceMove(e, "DONE", WithStatus(Src(e), "GONE"), "finished")

-----------------------------------------------------------------------------
(* The ways back.                                                          *)

\* Mutated: the destination keeps its ACTIVE placement while it is thrown away.
RecopyKeepsListing(e) ==
  /\ At(e, "recopy")
  /\ AdvanceMove(e, "COPYING", Restored(Src(e)), "discard")

\* Mutated: the source is not put back.
RecopyWithoutRestore(e) ==
  /\ At(e, "recopy")
  /\ AdvanceMove(e, "COPYING",
                 IF place[Dst(e)].status = "ACTIVE" THEN WithStatus(Dst(e), "DELETE_PENDING") ELSE place,
                 "discard")

\* recopyOrAbandon: the source is ACTIVE again before anything is thrown away.
Recopy(e) ==
  /\ At(e, "recopy")
  /\ AdvanceMove(e, "COPYING",
                 [m \in Mediums |->
                    IF m = Src(e) THEN Restored(m)[m]
                    ELSE IF m = Dst(e) /\ place[m].status = "ACTIVE"
                         THEN [place[m] EXCEPT !.status = "DELETE_PENDING"]
                         ELSE place[m]],
                 "discard")

Abandon(e) ==
  /\ At(e, "abandon")
  /\ AdvanceMove(e, "ABANDONED", Restored(Src(e)), "discard")

\* discardDestination, the object first.  A failed call stops the cycle there, and
\* the object may be gone or not.
Discard(e) ==
  /\ At(e, "discard")
  /\ objs' = [objs EXCEPT ![Dst(e)] = "none"]
  /\ job' = [Disturbed(Dst(e)) EXCEPT ![e].pc = "discarded"]
  /\ NoFault
  /\ UNCHANGED <<place, moves, staged, outside>>

DiscardFails(e) ==
  /\ At(e, "discard")
  /\ Fault("call")
  /\ objs' \in {objs, [objs EXCEPT ![Dst(e)] = "none"]}
  /\ job' = [Disturbed(Dst(e)) EXCEPT ![e] = Idle]
  /\ UNCHANGED <<place, moves, staged, outside>>

AfterDiscard(e) == IF job[e].phase = "ABANDONED" THEN "unstaging" ELSE "phase"

DiscardRecord(e) ==
  /\ At(e, "discarded")
  /\ IF place[Dst(e)].status \in {"none", "GONE"}
     THEN Goto(e, AfterDiscard(e)) /\ UNCHANGED <<place, moves, objs, staged, faults, outside>>
     ELSE AdvanceMove(e, job[e].phase, WithStatus(Dst(e), "GONE"), AfterDiscard(e))

\* discardStaging, and the end of the cycle for this move.
DropStaging(e) ==
  /\ At(e, "unstaging")
  /\ staged' = IF ThroughStaging(e) THEN "none" ELSE staged
  /\ Stop(e)
  /\ UNCHANGED <<place, moves, objs, faults, outside>>

Finish(e) ==
  /\ At(e, "finished")
  /\ Stop(e)
  /\ UNCHANGED <<place, moves, objs, staged, faults, outside>>

-----------------------------------------------------------------------------
(* Around the engine.                                                      *)

\* The process dies, or a call to the journal fails, if only because another
\* engine's move of the phase came first: what it held is lost.
Crash(e) ==
  /\ ~At(e, "idle")
  /\ Fault("crash")
  /\ Stop(e)
  /\ UNCHANGED <<place, moves, objs, staged, outside>>

\* Somebody else overwrites or removes a copy.
Damage(m) ==
  /\ objs[m] # "none"
  /\ Fault("damage")
  /\ \E c \in {"bad", "none"} : objs' = [objs EXCEPT ![m] = c]
  /\ job' = Disturbed(m)
  /\ hurt' = hurt \cup {m}
  /\ UNCHANGED <<state, place, moves, staged, wanted, archived, changes>>

Change == changes < MaxChanges /\ changes' = changes + 1

\* Time passes, and the tiers select the artifact elsewhere.
TiersMove ==
  /\ Change
  /\ \E m \in Mediums : wanted' = {m}
  /\ UNCHANGED <<state, place, moves, objs, staged, archived, job, hurt, faults>>

\* A medium's storage class is set to an archive class, or back.
Reclassify(m) ==
  /\ Change
  /\ m # Local
  /\ archived' = IF m \in archived THEN archived \ {m} ELSE archived \cup {m}
  /\ UNCHANGED <<state, place, moves, objs, staged, wanted, job, hurt, faults>>

\* Reconciliation finds the local file that should be there missing or wrong, or
\* no ACTIVE placement at all.
Reconcile ==
  /\ Change
  /\ state = "COMPLETE"
  /\ IF place[Local].status = "ACTIVE"
     THEN objs[Local] # "good"
     ELSE \A m \in Mediums : place[m].status # "ACTIVE"
  /\ state' = "QUARANTINED_LOST"
  /\ UNCHANGED <<place, moves, objs, staged, wanted, archived, job, hurt, faults>>

\* The operator reinstates an artifact whose local copy proves good after all.
Reinstate ==
  /\ Change
  /\ state = "QUARANTINED_LOST"
  /\ place[Local].status = "ACTIVE" /\ objs[Local] = "good"
  /\ state' = "COMPLETE"
  /\ UNCHANGED <<place, moves, objs, staged, wanted, archived, job, hurt, faults>>

\* What an engine does of its own accord once it has a move in hand.
Step(e) ==
  \/ StartCopy(e) \/ Ineligible(e) \/ CopyBegin(e) \/ CopyToMedium(e) \/ CopyToLocal(e)
  \/ Stage(e) \/ SendStaged(e) \/ Unstage(e) \/ CopyFails(e) \/ CopyRecord(e)
  \/ StartVerify(e) \/ Identify(e) \/ VerifyRead(e) \/ VerifyPass(e) \/ IntendDelete(e)
  \/ DeleteLook(e) \/ ReverifyForDelete(e) \/ GuardSourceDelete(e)
  \/ RemoveSource(e) \/ RemoveFails(e) \/ RecordDone(e)
  \/ Recopy(e) \/ Abandon(e) \/ Discard(e) \/ DiscardFails(e) \/ DiscardRecord(e)
  \/ DropStaging(e) \/ Finish(e)

Cycle(e) ==
  \/ \E n \in MoveIds : Resume(e, n)
  \/ \E n \in MoveIds, src, dst \in Mediums : Plan(e, n, src, dst)

World ==
  \/ \E m \in Mediums : Damage(m) \/ Reclassify(m)
  \/ TiersMove \/ Reconcile \/ Reinstate

Next == (\E e \in Engines : Step(e) \/ Cycle(e) \/ Crash(e)) \/ World

Spec == Init /\ [][Next]_vars

\* The daemon runs a cycle every interval, and a cycle runs to its end.
Fairness == \A e \in Engines : /\ WF_vars(Step(e))
                               /\ WF_vars(\E n \in MoveIds : Resume(e, n))
FairSpec == Spec /\ Fairness

-----------------------------------------------------------------------------
(* What should hold.                                                       *)

Pcs == {"idle", "phase", "transfer", "send", "unstage", "copied", "read", "pass",
        "reverify", "guard", "remove", "done", "finished", "recopy", "abandon",
        "discard", "discarded", "unstaging"}
Jobs == [pc : Pcs, n : MoveIds \cup {0}, phase : Phases \cup {"none"}, tries : 0 .. MaxCopies,
         known : BOOLEAN, still : BOOLEAN, sound : BOOLEAN, readable : BOOLEAN]

\* The types of the journal's rows, the copies and the engines' memory.
TypeOK ==
  /\ state \in {"COMPLETE", "QUARANTINED_LOST"}
  /\ place \in [Mediums -> [status : {"none", "ACTIVE", "DELETE_PENDING", "GONE"},
                            class : {"none", "content", "attested"}]]
  /\ moves \in [MoveIds -> [phase : Phases \cup {"none"}, src : Mediums, dst : Mediums]]
  /\ objs \in [Mediums -> Copies]
  /\ staged \in Copies
  /\ wanted \subseteq Mediums
  /\ archived \subseteq Mediums \ {Local}
  /\ job \in [Engines -> Jobs]
  /\ hurt \subseteq Mediums
  /\ faults \in 0 .. MaxFaults
  /\ changes \in 0 .. MaxChanges

\* CheckInvariant, the engine's standing invariant: at every instant, mid-move and
\* mid-crash, a managed-complete artifact has an ACTIVE placement verified at a class
\* that proves its bytes.
AlwaysActive ==
  state = "COMPLETE" => \E m \in Mediums : /\ place[m].status = "ACTIVE"
                                           /\ place[m].class \in {"content", "attested"}

\* PlanMove's refusal of a second live move, whatever the engines were planning from:
\* two moves of one artifact would be two opinions about which copy is disposable.
OneLiveMove == \A k, n \in MoveIds : Live(k) /\ Live(n) => k = n

\* Whether a step is an engine's own, not of the world around them.
OwnStep == \E e \in Engines : job'[e].pc # job[e].pc

\* recopyOrAbandon and intendSourceDelete write the journal before they touch a copy:
\* an engine never removes a copy the journal lists as ACTIVE, damage or no damage.
NeverRemovesListed ==
  [][\A m \in Mediums : /\ OwnStep
                        /\ objs[m] # "none" /\ objs'[m] = "none"
                        => place[m].status # "ACTIVE"]_vars

\* deleteSource removes the source only against a destination that is good: if nobody
\* touched the destination since the engine last identified or read it, then what the
\* source is given up for is the artifact, also when the read-back was made at VERIFYING
\* and the destination was changed between that read and the delete.
DeletesAgainstGood ==
  [][\A e \in Engines : RemoveSource(e) /\ job[e].still => objs[Dst(e)] = "good"]_vars

\* Why a move may rightly stay where it is: something an operator has to settle.
Held(n) == \/ state # "COMPLETE"
           \/ moves[n].src \in wanted
           \/ {moves[n].src, moves[n].dst} \cap archived # {}

\* Cycles drive every move they plan to DONE or ABANDONED, over crashes, failed calls
\* and bad copies: one that stays unfinished for ever is one that is held for ever, by
\* a tier that still wants the source, a medium that cannot be read, or a quarantine.
MovesConclude == \A n \in MoveIds : <>[]Live(n) => <>[]Held(n)

\* What the moves keep of the artifact, whatever the engine is in the middle of.
Keeping == INSTANCE Safekeeping WITH held <- {m \in Mediums : objs[m] = "good"}

\* As long as nobody outside touches the copies, no order of planning, copying,
\* verifying, giving up and starting again, with the crashes and failed calls between,
\* removes the last good copy of the artifact.
KeepsSafe == Keeping!Spec

=============================================================================
