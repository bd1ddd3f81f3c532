------------------------ MODULE PlacementMoveProofs ------------------------
(***************************************************************************)
(* Theorems about PlacementMove, for any mediums, any number of moves and  *)
(* any faults.  What is said of the placements is proved for one engine:   *)
(* two break it, as the README's table of limits shows.                    *)
(***************************************************************************)
EXTENDS PlacementMove, TLAPS

-----------------------------------------------------------------------------
(* The inductive invariant.                                                *)

Classed == \A m \in Mediums :
  place[m].status # "none" => place[m].class \in {"content", "attested"}

TwoEnds == \A n \in MoveIds : moves[n].phase # "none" => moves[n].src # moves[n].dst

\* Up to VERIFYING the destination is the disposable copy.
Early == {"PLANNED", "COPYING", "COPIED", "VERIFYING"}
SourceServes == \A n \in MoveIds : moves[n].phase \in Early =>
  place[moves[n].src].status = "ACTIVE" /\ place[moves[n].dst].status # "ACTIVE"

BothServe == \A n \in MoveIds : moves[n].phase = "VERIFIED" =>
  place[moves[n].src].status = "ACTIVE" /\ place[moves[n].dst].status = "ACTIVE"

DestinationServes == \A n \in MoveIds : moves[n].phase = "SOURCE_DELETE_PENDING" =>
  place[moves[n].src].status = "DELETE_PENDING" /\ place[moves[n].dst].status = "ACTIVE"

\* The phases an engine can be busy with at each of its steps.
PhaseFits(pc, phase) ==
  /\ phase \in Phases
  /\ pc = "phase" => phase \notin Terminal
  /\ pc \in {"transfer", "send", "unstage", "copied"} => phase = "COPYING"
  /\ pc \in {"read", "pass"} => phase = "VERIFYING"
  /\ pc \in {"reverify", "guard", "remove", "done"} => phase = "SOURCE_DELETE_PENDING"
  /\ pc = "recopy" => phase \in {"VERIFYING", "SOURCE_DELETE_PENDING"}
  /\ pc = "abandon" => phase \in {"PLANNED", "COPYING", "VERIFYING"}
  /\ pc \in {"discard", "discarded"} => phase \in {"COPYING", "ABANDONED"}
  /\ pc = "unstaging" => phase = "ABANDONED"
  /\ pc = "finished" => phase = "DONE"

\* What an engine that is busy with a move knows of it: it has the move's phase right,
\* no other move is live, and what it is about to discard is not listed.
Fits(j) == j.pc # "idle" =>
  /\ j.n \in MoveIds
  /\ j.phase = moves[j.n].phase
  /\ PhaseFits(j.pc, j.phase)
  /\ j.pc = "send" => staged = "good"
  /\ \A k \in MoveIds : Live(k) => k = j.n
  /\ j.phase = "ABANDONED" => /\ place[moves[j.n].src].status = "ACTIVE"
                              /\ place[moves[j.n].dst].status # "ACTIVE"

Engaged == \A e \in Engines : Fits(job[e])

SomeActive == \E m \in Mediums : place[m].status = "ACTIVE"

IInv == /\ TypeOK /\ OneLiveMove /\ Classed /\ TwoEnds
        /\ SourceServes /\ BothServe /\ DestinationServes
        /\ Engaged /\ SomeActive

-----------------------------------------------------------------------------
(* Type correctness.                                                       *)

Placements == [Mediums -> [status : {"none", "ACTIVE", "DELETE_PENDING", "GONE"},
                           class : {"none", "content", "attested"}]]

\* An engine that moves on to another step keeps its memory well formed.
LEMMA GotoTypes ==
  ASSUME job \in [Engines -> Jobs], NEW e \in Engines, NEW pc \in Pcs, Goto(e, pc)
  PROVE  job' \in [Engines -> Jobs]
BY DEF Goto, Jobs

LEMMA IdleType == Idle \in Jobs
BY BoundAssumption DEF Idle, Jobs, Pcs

LEMMA StopTypes ==
  ASSUME job \in [Engines -> Jobs], NEW e \in Engines, Stop(e)
  PROVE  job' \in [Engines -> Jobs]
BY IdleType DEF Stop

LEMMA DisturbedTypes ==
  ASSUME job \in [Engines -> Jobs], NEW m
  PROVE  Disturbed(m) \in [Engines -> Jobs]
BY DEF Disturbed, Jobs

LEMMA DisturbedGoes ==
  ASSUME job \in [Engines -> Jobs], NEW e \in Engines, NEW m, NEW pc \in Pcs,
         job' = [Disturbed(m) EXCEPT ![e].pc = pc]
  PROVE  job' \in [Engines -> Jobs]
<1>1. Disturbed(m) \in [Engines -> Jobs]
  BY DisturbedTypes
<1>2. \A j \in Jobs : [j EXCEPT !.pc = pc] \in Jobs
  BY DEF Jobs
<1>3. QED
  BY <1>1, <1>2

LEMMA FaultTypes ==
  ASSUME faults \in 0 .. MaxFaults, NEW kind, NoFault \/ Fault(kind)
  PROVE  faults' \in 0 .. MaxFaults
BY BoundAssumption DEF NoFault, Fault

LEMMA WithStatusTypes ==
  ASSUME place \in Placements, NEW m,
         NEW status \in {"ACTIVE", "DELETE_PENDING", "GONE"}
  PROVE  WithStatus(m, status) \in Placements
BY DEF WithStatus, Placements

LEMMA RestoredTypes ==
  ASSUME place \in Placements, NEW m
  PROVE  Restored(m) \in Placements
BY WithStatusTypes DEF Restored

\* The part of TypeOK a move's journal write can disturb.
LEMMA AdvanceTypes ==
  ASSUME TypeOK, NEW e \in Engines, NEW to \in Phases \cup {"none"},
         NEW placements \in Placements, NEW pc \in Pcs, AdvanceMove(e, to, placements, pc)
  PROVE  TypeOK'
<1>1. moves' \in [MoveIds -> [phase : Phases \cup {"none"}, src : Mediums, dst : Mediums]]
  BY DEF TypeOK, AdvanceMove
<1>2. job' \in [Engines -> Jobs]
  <2>1. job \in [Engines -> Jobs]
    BY DEF TypeOK
  <2>2. [job[e] EXCEPT !.phase = to, !.pc = pc] \in Jobs
    BY <2>1 DEF Jobs
  <2>3. QED
    BY <2>1, <2>2 DEF AdvanceMove
<1>3. place' \in Placements
  BY DEF AdvanceMove
<1>4. UNCHANGED <<objs, staged, faults, outside>>
  BY DEF AdvanceMove
<1>5. QED
  BY <1>1, <1>2, <1>3, <1>4 DEF TypeOK, outside, Placements

\* A step that leaves the journal's rows alone.
LEMMA LocalTypes ==
  ASSUME TypeOK, job' \in [Engines -> Jobs], objs' \in [Mediums -> Copies],
         staged' \in Copies, faults' \in 0 .. MaxFaults,
         UNCHANGED <<place, moves, outside>>
  PROVE  TypeOK'
BY DEF TypeOK, outside

LEMMA InitTypes == Init => TypeOK
<1> SUFFICES ASSUME Init PROVE TypeOK
  OBVIOUS
<1>2. job \in [Engines -> Jobs]
  <2>1. job = [e \in Engines |-> Idle]
    BY DEF Init
  <2>2. QED
    BY <2>1, IdleType
<1>3. moves \in [MoveIds -> [phase : Phases \cup {"none"}, src : Mediums, dst : Mediums]]
  <2>1. moves = [n \in MoveIds |-> Unplanned]
    BY DEF Init
  <2>2. Unplanned \in [phase : Phases \cup {"none"}, src : Mediums, dst : Mediums]
    BY MediumAssumption DEF Unplanned
  <2>3. QED
    BY <2>1, <2>2
<1>4. place \in Placements /\ objs \in [Mediums -> Copies]
  BY DEF Init, Placements, Copies
<1>5. /\ state \in {"COMPLETE", "QUARANTINED_LOST"} /\ staged \in Copies
      /\ wanted \subseteq Mediums /\ archived \subseteq Mediums \ {Local} /\ hurt \subseteq Mediums
      /\ faults \in 0 .. MaxFaults /\ changes \in 0 .. MaxChanges
  BY MediumAssumption, BoundAssumption DEF Init, Copies
<1>6. QED
  BY <1>2, <1>3, <1>4, <1>5 DEF TypeOK, Placements

LEMMA CycleTypes ==
  ASSUME TypeOK, NEW e \in Engines, Cycle(e)
  PROVE  TypeOK'
<1>1. ASSUME NEW n \in MoveIds, Resume(e, n) PROVE TypeOK'
  <2>1. [Idle EXCEPT !.pc = "phase", !.n = n, !.phase = moves[n].phase] \in Jobs
    BY IdleType DEF TypeOK, Jobs, Pcs
  <2>2. job' \in [Engines -> Jobs]
    BY <1>1, <2>1 DEF Resume, TypeOK
  <2>3. QED
    BY <1>1, <2>2, LocalTypes DEF Resume, TypeOK
<1>2. ASSUME NEW n \in MoveIds, NEW src \in Mediums, NEW dst \in Mediums, Plan(e, n, src, dst)
      PROVE  TypeOK'
  <2>1. [Idle EXCEPT !.pc = "phase", !.n = n, !.phase = "PLANNED"] \in Jobs
    BY IdleType DEF Jobs, Pcs, Phases
  <2>2. job' \in [Engines -> Jobs]
    BY <1>2, <2>1 DEF Plan, TypeOK
  <2>3. [phase |-> "PLANNED", src |-> src, dst |-> dst]
          \in [phase : Phases \cup {"none"}, src : Mediums, dst : Mediums]
    BY DEF Phases
  <2>4. moves' \in [MoveIds -> [phase : Phases \cup {"none"}, src : Mediums, dst : Mediums]]
    BY <1>2, <2>3 DEF Plan, TypeOK
  <2>5. QED
    BY <1>2, <2>2, <2>4 DEF Plan, TypeOK, outside
<1>3. QED
  BY <1>1, <1>2 DEF Cycle

LEMMA CopyTypes ==
  ASSUME TypeOK, NEW e \in Engines,
         \/ StartCopy(e) \/ Ineligible(e) \/ CopyBegin(e) \/ CopyToMedium(e)
         \/ CopyToLocal(e) \/ Stage(e) \/ SendStaged(e) \/ Unstage(e)
         \/ CopyFails(e) \/ CopyRecord(e)
  PROVE  TypeOK'
<1> USE DEF Pcs
<1>0. /\ job \in [Engines -> Jobs] /\ place \in Placements /\ objs \in [Mediums -> Copies]
      /\ staged \in Copies /\ faults \in 0 .. MaxFaults
  BY DEF TypeOK, Placements
<1>1. CASE StartCopy(e)
  BY <1>0, <1>1, AdvanceTypes DEF StartCopy, Phases
<1>2. CASE Ineligible(e)
  BY <1>0, <1>2, GotoTypes, LocalTypes DEF Ineligible
<1>3. CASE CopyBegin(e)
  <2> DEFINE next == [job[e] EXCEPT !.pc = "transfer", !.tries = job[e].tries + 1]
  <2>1. job[e] \in Jobs
    BY <1>0
  <2>2. job[e].tries # MaxCopies => next \in Jobs
    <3>1. job[e].tries \in 0 .. MaxCopies
      BY <2>1 DEF Jobs
    <3>2. job[e].tries # MaxCopies => job[e].tries + 1 \in 0 .. MaxCopies
      BY <3>1, BoundAssumption
    <3>3. QED
      BY <2>1, <3>2 DEF Jobs
  <2>3. \/ Goto(e, "abandon")
        \/ ~CopyUseless(e) /\ job' = [job EXCEPT ![e] = next]
    BY <1>3, Zenon DEF CopyBegin
  <2> HIDE DEF next
  <2>4. ~CopyUseless(e) => job[e].tries # MaxCopies
    BY DEF CopyUseless
  <2>5. job' \in [Engines -> Jobs]
    BY <1>0, <2>2, <2>3, <2>4, GotoTypes
  <2>6. QED
    BY <1>0, <1>3, <2>5, LocalTypes DEF CopyBegin
<1>4. CASE CopyToMedium(e)
  <2>1. faults' \in 0 .. MaxFaults /\ objs' \in [Mediums -> Copies]
    BY <1>0, <1>4, FaultTypes DEF CopyToMedium, Delivers
  <2>2. job' \in [Engines -> Jobs]
    BY <1>0, <1>4, DisturbedGoes DEF CopyToMedium
  <2>3. QED
    BY <1>0, <1>4, <2>1, <2>2, LocalTypes DEF CopyToMedium
<1>5. CASE CopyToLocal(e)
  <2>1. faults' \in 0 .. MaxFaults /\ objs' \in [Mediums -> Copies]
    BY <1>0, <1>5, FaultTypes DEF CopyToLocal, Delivers
  <2>2. job' \in [Engines -> Jobs]
    <3>1. CASE objs[Local] = "none"
      <4>1. Disturbed(Local) \in [Engines -> Jobs]
        BY <1>0, DisturbedTypes
      <4>2. job' = [Disturbed(Local) EXCEPT ![e].pc = "copied"]
        BY <1>5, <3>1 DEF CopyToLocal
      <4>3. QED
        BY <4>1, <4>2 DEF Jobs
    <3>2. CASE objs[Local] # "none"
      BY <1>0, <1>5, <3>2, GotoTypes DEF CopyToLocal
    <3>3. QED
      BY <3>1, <3>2
  <2>3. QED
    BY <1>0, <1>5, <2>1, <2>2, LocalTypes DEF CopyToLocal
<1>6. CASE Stage(e)
  <2>1. faults' \in 0 .. MaxFaults
    BY <1>0, <1>6, FaultTypes DEF Stage, Delivers
  <2>2. staged' \in Copies
    BY <1>0, <1>6 DEF Stage
  <2>3. job' \in [Engines -> Jobs]
    BY <1>0, <1>6, GotoTypes, StopTypes DEF Stage
  <2>4. QED
    BY <1>0, <1>6, <2>1, <2>2, <2>3, LocalTypes DEF Stage
<1>7. CASE SendStaged(e)
  <2>1. faults' \in 0 .. MaxFaults /\ objs' \in [Mediums -> Copies]
    BY <1>0, <1>7, FaultTypes DEF SendStaged, Delivers
  <2>2. job' \in [Engines -> Jobs]
    BY <1>0, <1>7, DisturbedGoes DEF SendStaged
  <2>3. QED
    BY <1>0, <1>7, <2>1, <2>2, LocalTypes DEF SendStaged
<1>8. CASE Unstage(e)
  BY <1>0, <1>8, GotoTypes, LocalTypes DEF Unstage, Copies
<1>9. CASE CopyFails(e)
  <2>1. faults' \in 0 .. MaxFaults
    BY <1>0, <1>9, FaultTypes DEF CopyFails, NoFault
  <2>2. objs' \in [Mediums -> Copies]
    BY <1>0, <1>9, MediumAssumption DEF CopyFails, InFlight
  <2>3. job' \in [Engines -> Jobs]
    BY <1>0, <1>9, DisturbedTypes, IdleType DEF CopyFails
  <2>4. staged' \in Copies
    BY <1>0, <1>9 DEF CopyFails, Copies
  <2>5. QED
    BY <1>9, <2>1, <2>2, <2>3, <2>4, LocalTypes DEF CopyFails
<1>10. CASE CopyRecord(e)
  BY <1>0, <1>10, AdvanceTypes DEF CopyRecord, Phases
<1>11. QED
  BY <1>1, <1>2, <1>3, <1>4, <1>5, <1>6, <1>7, <1>8, <1>9, <1>10

LEMMA VerifyTypes ==
  ASSUME TypeOK, NEW e \in Engines,
         \/ StartVerify(e) \/ Identify(e) \/ VerifyRead(e) \/ VerifyPass(e) \/ IntendDelete(e)
         \/ DeleteLook(e) \/ ReverifyForDelete(e) \/ GuardSourceDelete(e)
         \/ RemoveSource(e) \/ RemoveFails(e) \/ RecordDone(e)
  PROVE  TypeOK'
<1> USE DEF Pcs
<1>0. /\ job \in [Engines -> Jobs] /\ place \in Placements /\ objs \in [Mediums -> Copies]
      /\ staged \in Copies /\ faults \in 0 .. MaxFaults
  BY DEF TypeOK, Placements
<1>1. CASE StartVerify(e)
  BY <1>0, <1>1, AdvanceTypes DEF StartVerify, Phases
<1>2. CASE Identify(e)
  <2>1. \A b \in BOOLEAN : [job[e] EXCEPT !.pc = "read", !.known = b, !.still = b] \in Jobs
    <3>1. "read" \in Pcs /\ job[e] \in Jobs
      BY <1>0
    <3> HIDE DEF Pcs
    <3>2. QED
      BY <3>1 DEF Jobs
  <2>2. job' \in [Engines -> Jobs]
    BY <1>0, <1>2, <2>1 DEF Identify
  <2>3. QED
    BY <1>0, <1>2, <2>2, LocalTypes DEF Identify
<1>3. CASE VerifyRead(e)
  <2>1. faults' \in 0 .. MaxFaults
    BY <1>0, <1>3, FaultTypes DEF VerifyRead
  <2>2. job' \in [Engines -> Jobs]
    BY <1>0, <1>3, GotoTypes DEF VerifyRead
  <2>3. QED
    BY <1>0, <1>3, <2>1, <2>2, LocalTypes DEF VerifyRead
<1>4. CASE VerifyPass(e)
  <2>1. [place EXCEPT ![Dst(e)] = [status |-> "ACTIVE", class |-> Want[Dst(e)]]] \in Placements
    <3>1. [status |-> "ACTIVE", class |-> Want[Dst(e)]] \in
            [status : {"none", "ACTIVE", "DELETE_PENDING", "GONE"},
             class : {"none", "content", "attested"}] \/ Dst(e) \notin Mediums
      BY MediumAssumption
    <3>2. QED
      BY <1>0, <3>1 DEF Placements
  <2>2. QED
    BY <1>4, <2>1, AdvanceTypes DEF VerifyPass, Phases
<1>5. CASE IntendDelete(e)
  BY <1>0, <1>5, WithStatusTypes, AdvanceTypes DEF IntendDelete, Phases
<1>6. CASE DeleteLook(e)
  <2>1. \A b \in BOOLEAN : [job[e] EXCEPT !.pc = "reverify", !.sound = b] \in Jobs
    <3>1. "reverify" \in Pcs /\ job[e] \in Jobs
      BY <1>0
    <3> HIDE DEF Pcs
    <3>2. QED
      BY <3>1 DEF Jobs
  <2>2. job' \in [Engines -> Jobs]
    BY <1>0, <1>6, <2>1 DEF DeleteLook
  <2>3. QED
    BY <1>0, <1>6, <2>2, LocalTypes DEF DeleteLook
<1>7. CASE ReverifyForDelete(e)
  <2>1. faults' \in 0 .. MaxFaults
    BY <1>0, <1>7, FaultTypes DEF ReverifyForDelete
  <2>2. /\ [job[e] EXCEPT !.pc = "guard", !.readable = TRUE, !.known = FALSE] \in Jobs
        /\ [job[e] EXCEPT !.pc = "guard", !.readable = TRUE, !.still = TRUE] \in Jobs
        /\ [job[e] EXCEPT !.pc = "recopy"] \in Jobs
        /\ [job[e] EXCEPT !.pc = "guard", !.readable = FALSE] \in Jobs
    <3>1. "guard" \in Pcs /\ "recopy" \in Pcs /\ job[e] \in Jobs
      BY <1>0
    <3> HIDE DEF Pcs
    <3>2. QED
      BY <3>1 DEF Jobs
  <2>3. \E j \in Jobs : job' = [job EXCEPT ![e] = j]
    BY <1>7, <2>2 DEF ReverifyForDelete
  <2>4. job' \in [Engines -> Jobs]
    BY <1>0, <2>3
  <2>5. QED
    BY <1>0, <1>7, <2>1, <2>4, LocalTypes DEF ReverifyForDelete
<1>8. CASE GuardSourceDelete(e)
  <2>1. faults' \in 0 .. MaxFaults
    BY <1>0, <1>8, FaultTypes DEF GuardSourceDelete
  <2>2. job' \in [Engines -> Jobs]
    BY <1>0, <1>8, GotoTypes, StopTypes DEF GuardSourceDelete
  <2>3. QED
    BY <1>0, <1>8, <2>1, <2>2, LocalTypes DEF GuardSourceDelete
<1>9. CASE RemoveSource(e)
  <2>1. job' \in [Engines -> Jobs]
    BY <1>0, <1>9, DisturbedGoes DEF RemoveSource
  <2>2. faults' \in 0 .. MaxFaults /\ objs' \in [Mediums -> Copies]
    BY <1>0, <1>9 DEF RemoveSource, NoFault, Copies
  <2>3. QED
    BY <1>0, <1>9, <2>1, <2>2, LocalTypes DEF RemoveSource
<1>10. CASE RemoveFails(e)
  <2>1. job' \in [Engines -> Jobs]
    BY <1>0, <1>10, DisturbedTypes, IdleType DEF RemoveFails
  <2>2. faults' \in 0 .. MaxFaults /\ objs' \in [Mediums -> Copies]
    BY <1>0, <1>10, FaultTypes DEF RemoveFails, Copies
  <2>3. QED
    BY <1>0, <1>10, <2>1, <2>2, LocalTypes DEF RemoveFails
<1>11. CASE RecordDone(e)
  BY <1>0, <1>11, WithStatusTypes, AdvanceTypes DEF RecordDone, Phases
<1>12. QED
  BY <1>1, <1>2, <1>3, <1>4, <1>5, <1>6, <1>7, <1>8, <1>9, <1>10, <1>11

LEMMA WayBackTypes ==
  ASSUME TypeOK, NEW e \in Engines,
         \/ Recopy(e) \/ Abandon(e) \/ Discard(e) \/ DiscardFails(e) \/ DiscardRecord(e)
         \/ DropStaging(e) \/ Finish(e) \/ Crash(e)
  PROVE  TypeOK'
<1> USE DEF Pcs
<1>0. /\ job \in [Engines -> Jobs] /\ place \in Placements /\ objs \in [Mediums -> Copies]
      /\ staged \in Copies /\ faults \in 0 .. MaxFaults
  BY DEF TypeOK, Placements
<1>1. CASE Recopy(e)
  <2> DEFINE P == [m \in Mediums |->
                     IF m = Src(e) THEN Restored(m)[m]
                     ELSE IF m = Dst(e) /\ place[m].status = "ACTIVE"
                          THEN [place[m] EXCEPT !.status = "DELETE_PENDING"]
                          ELSE place[m]]
  <2>1. \A m \in Mediums : Restored(m) \in Placements
    BY <1>0, RestoredTypes
  <2>2. P \in Placements
    BY <1>0, <2>1 DEF Placements
  <2>3. AdvanceMove(e, "COPYING", P, "discard")
    BY <1>1 DEF Recopy
  <2> HIDE DEF P
  <2>4. QED
    BY <2>2, <2>3, AdvanceTypes DEF Phases
<1>2. CASE Abandon(e)
  BY <1>0, <1>2, RestoredTypes, AdvanceTypes DEF Abandon, Phases
<1>3. CASE Discard(e)
  <2>1. job' \in [Engines -> Jobs]
    BY <1>0, <1>3, DisturbedGoes DEF Discard
  <2>2. faults' \in 0 .. MaxFaults /\ objs' \in [Mediums -> Copies]
    BY <1>0, <1>3 DEF Discard, NoFault, Copies
  <2>3. QED
    BY <1>0, <1>3, <2>1, <2>2, LocalTypes DEF Discard
<1>4. CASE DiscardFails(e)
  <2>1. job' \in [Engines -> Jobs]
    BY <1>0, <1>4, DisturbedTypes, IdleType DEF DiscardFails
  <2>2. faults' \in 0 .. MaxFaults /\ objs' \in [Mediums -> Copies]
    BY <1>0, <1>4, FaultTypes DEF DiscardFails, Copies
  <2>3. QED
    BY <1>0, <1>4, <2>1, <2>2, LocalTypes DEF DiscardFails
<1>5. CASE DiscardRecord(e)
  <2>1. AfterDiscard(e) \in Pcs
    BY DEF AfterDiscard
  <2>2. CASE place[Dst(e)].status \in {"none", "GONE"}
    BY <1>0, <1>5, <2>1, <2>2, GotoTypes, LocalTypes DEF DiscardRecord
  <2>3. CASE place[Dst(e)].status \notin {"none", "GONE"}
    <3>1. job[e].phase \in Phases \cup {"none"}
      BY <1>0 DEF Jobs
    <3>2. QED
      BY <1>0, <1>5, <2>1, <2>3, <3>1, WithStatusTypes, AdvanceTypes DEF DiscardRecord
  <2>4. QED
    BY <2>2, <2>3
<1>6. CASE DropStaging(e)
  BY <1>0, <1>6, StopTypes, LocalTypes DEF DropStaging, Copies
<1>7. CASE Finish(e)
  BY <1>0, <1>7, StopTypes, LocalTypes DEF Finish
<1>8. CASE Crash(e)
  BY <1>0, <1>8, StopTypes, FaultTypes, LocalTypes DEF Crash
<1>9. QED
  BY <1>1, <1>2, <1>3, <1>4, <1>5, <1>6, <1>7, <1>8

LEMMA WorldTypes ==
  ASSUME TypeOK, World
  PROVE  TypeOK'
<1>1. ASSUME NEW m \in Mediums, Damage(m) PROVE TypeOK'
  <2>1. job' \in [Engines -> Jobs]
    BY <1>1, DisturbedTypes DEF Damage, TypeOK
  <2>2. faults' \in 0 .. MaxFaults
    BY <1>1, FaultTypes DEF Damage, TypeOK
  <2>3. objs' \in [Mediums -> Copies] /\ hurt' \subseteq Mediums
    BY <1>1 DEF Damage, TypeOK, Copies
  <2>4. QED
    BY <1>1, <2>1, <2>2, <2>3 DEF Damage, TypeOK
<1>2. ASSUME Change PROVE changes' \in 0 .. MaxChanges
  BY <1>2, BoundAssumption DEF Change, TypeOK
<1>3. ASSUME NEW m \in Mediums, Reclassify(m) PROVE TypeOK'
  BY <1>2, <1>3 DEF Reclassify, TypeOK
<1>4. CASE TiersMove
  BY <1>2, <1>4 DEF TiersMove, TypeOK
<1>5. CASE Reconcile
  BY <1>2, <1>5 DEF Reconcile, TypeOK
<1>6. CASE Reinstate
  BY <1>2, <1>6 DEF Reinstate, TypeOK
<1>7. QED
  BY <1>1, <1>3, <1>4, <1>5, <1>6 DEF World

\* TypeOK is inductive as it stands.
LEMMA StepTypes == TypeOK /\ [Next]_vars => TypeOK'
<1> SUFFICES ASSUME TypeOK, [Next]_vars PROVE TypeOK'
  OBVIOUS
<1>1. CASE UNCHANGED vars
  BY <1>1 DEF vars, TypeOK
<1>2. ASSUME NEW e \in Engines, Step(e) PROVE TypeOK'
  BY <1>2, CopyTypes, VerifyTypes, WayBackTypes DEF Step
<1>3. ASSUME NEW e \in Engines, Cycle(e) PROVE TypeOK'
  BY <1>3, CycleTypes
<1>4. ASSUME NEW e \in Engines, Crash(e) PROVE TypeOK'
  BY <1>4, WayBackTypes
<1>5. CASE World
  BY <1>5, WorldTypes
<1>6. QED
  BY <1>1, <1>2, <1>3, <1>4, <1>5 DEF Next

\* The journal's rows, the copies and what the engines hold are always well formed,
\* with any number of engines.
THEOREM MoveTypesHold == Spec => []TypeOK
<1>1. QED
  BY InitTypes, StepTypes, PTL DEF Spec

-----------------------------------------------------------------------------
(* One live move.                                                          *)

\* The phase table has no way out of DONE or ABANDONED.
LEMMA TerminalIsFinal ==
  ASSUME NEW from, NEW to \in Phases \ Terminal, <<from, to>> \in PhaseTransitions
  PROVE  from \in Phases \ Terminal
BY DEF PhaseTransitions, Phases, Terminal

\* A write that advances a move makes no other move live.
LEMMA AdvanceKeepsLive ==
  ASSUME TypeOK, NEW e \in Engines, NEW to, NEW placements, NEW pc,
         AdvanceMove(e, to, placements, pc), NEW k \in MoveIds, Live(k)'
  PROVE  Live(k)
<1>1. CASE k # job[e].n
  BY <1>1 DEF AdvanceMove, Live, TypeOK
<1>2. CASE k = job[e].n
  <2>1. moves'[k].phase = to
    BY <1>2 DEF AdvanceMove, TypeOK
  <2>2. to \in Phases \ Terminal
    BY <2>1 DEF Live
  <2>3. moves[k].phase = to \/ <<moves[k].phase, to>> \in PhaseTransitions
    BY <1>2 DEF AdvanceMove, MayAdvance
  <2>4. QED
    BY <2>2, <2>3, TerminalIsFinal DEF Live
<1>3. QED
  BY <1>1, <1>2

\* An engine's steps write the moves through AdvanceMove only.
LEMMA StepAdvances ==
  ASSUME NEW e \in Engines, Step(e) \/ Crash(e), moves' # moves
  PROVE  \E to, placements, pc : AdvanceMove(e, to, placements, pc)
<1>1. CASE StartCopy(e)
  BY <1>1, Zenon DEF StartCopy
<1>2. CASE CopyRecord(e)
  BY <1>2, Zenon DEF CopyRecord
<1>3. CASE StartVerify(e)
  BY <1>3, Zenon DEF StartVerify
<1>4. CASE VerifyPass(e)
  BY <1>4, Zenon DEF VerifyPass
<1>5. CASE IntendDelete(e)
  BY <1>5, Zenon DEF IntendDelete
<1>6. CASE RecordDone(e)
  BY <1>6, Zenon DEF RecordDone
<1>7. CASE Recopy(e)
  BY <1>7, Zenon DEF Recopy
<1>8. CASE Abandon(e)
  BY <1>8, Zenon DEF Abandon
<1>9. CASE DiscardRecord(e)
  BY <1>9 DEF DiscardRecord
<1>10. QED
  BY <1>1, <1>2, <1>3, <1>4, <1>5, <1>6, <1>7, <1>8, <1>9
     DEF Step, Ineligible, CopyBegin, CopyToMedium, CopyToLocal, Stage, SendStaged, Unstage,
         CopyFails, Identify, VerifyRead, DeleteLook, ReverifyForDelete, GuardSourceDelete,
         RemoveSource, RemoveFails, Discard, DiscardFails, DropStaging, Finish, Crash

LEMMA OneLiveInductive == TypeOK /\ OneLiveMove /\ [Next]_vars => OneLiveMove'
<1> SUFFICES ASSUME TypeOK, OneLiveMove, [Next]_vars PROVE OneLiveMove'
  OBVIOUS
<1>1. CASE moves' = moves
  BY <1>1 DEF OneLiveMove, Live
<1>2. ASSUME NEW e \in Engines, Step(e) \/ Crash(e), moves' # moves PROVE OneLiveMove'
  <2>1. \A k \in MoveIds : Live(k)' => Live(k)
    BY <1>2, StepAdvances, AdvanceKeepsLive
  <2>2. QED
    BY <2>1 DEF OneLiveMove
<1>3. ASSUME NEW e \in Engines, NEW n \in MoveIds, NEW src \in Mediums, NEW dst \in Mediums,
             Plan(e, n, src, dst)
      PROVE  OneLiveMove'
  <2>1. \A k \in MoveIds : Live(k)' => k = n
    BY <1>3 DEF Plan, Live, TypeOK
  <2>2. QED
    BY <2>1 DEF OneLiveMove
<1>4. ASSUME NEW e \in Engines, NEW n \in MoveIds, Resume(e, n) PROVE moves' = moves
  BY <1>4 DEF Resume
<1>5. ASSUME World PROVE moves' = moves
  BY <1>5 DEF World, Damage, Reclassify, TiersMove, Reconcile, Reinstate
<1>6. CASE UNCHANGED vars
  BY <1>1, <1>6 DEF vars
<1>7. QED
  BY <1>1, <1>2, <1>3, <1>4, <1>5, <1>6 DEF Next, Cycle

LEMMA InitOneLive == Init => OneLiveMove
BY DEF Init, OneLiveMove, Live, Unplanned, Phases

\* PlanMove's refusal holds over every interleaving: any number of engines, planning
\* from whatever they read, never have two live moves of one artifact between them.
THEOREM OneLiveMoveHolds == Spec => []OneLiveMove
<1>1. Init => TypeOK /\ OneLiveMove
  BY InitTypes, InitOneLive
<1>2. TypeOK /\ OneLiveMove /\ [Next]_vars => (TypeOK /\ OneLiveMove)'
  BY StepTypes, OneLiveInductive
<1>3. QED
  BY <1>1, <1>2, PTL DEF Spec

-----------------------------------------------------------------------------
(* The standing invariant, for one engine.                                 *)

\* Without a write to the journal it is enough that the engine's own memory fits.
LEMMA QuietStep ==
  ASSUME NEW e, Engines = {e}, IInv, TypeOK', UNCHANGED <<place, moves>>,
         \/ job'[e].pc = "idle"
         \/ /\ job[e].pc # "idle"
            /\ job'[e].n = job[e].n /\ job'[e].phase = job[e].phase
            /\ PhaseFits(job'[e].pc, job[e].phase)
            /\ job'[e].pc = "send" => staged' = "good"
  PROVE  IInv'
<1>1. OneLiveMove' /\ Classed' /\ TwoEnds' /\ SourceServes' /\ BothServe'
      /\ DestinationServes' /\ SomeActive'
  BY DEF IInv, OneLiveMove, Live, Classed, TwoEnds, SourceServes, BothServe,
         DestinationServes, SomeActive
<1>2. Fits(job[e])
  BY DEF IInv, Engaged
<1>3. Fits(job[e])'
  BY <1>2 DEF Fits, Live
<1>4. QED
  BY <1>1, <1>3 DEF IInv, Engaged

\* What a journal write has to leave behind for the invariant to go on holding.
LEMMA WriteStep ==
  ASSUME NEW e, Engines = {e}, IInv, TypeOK', OneLiveMove',
         NEW to \in Phases, NEW P \in Placements, NEW pc,
         job[e].pc # "idle", AdvanceMove(e, to, P, pc),
         pc # "send", PhaseFits(pc, to),
         \A m \in Mediums : P[m].status # "none" => P[m].class \in {"content", "attested"},
         to \in Early \cup {"ABANDONED"} => /\ P[Src(e)].status = "ACTIVE"
                                           /\ P[Dst(e)].status # "ACTIVE",
         to = "VERIFIED" => P[Src(e)].status = "ACTIVE" /\ P[Dst(e)].status = "ACTIVE",
         to = "SOURCE_DELETE_PENDING" => /\ P[Src(e)].status = "DELETE_PENDING"
                                         /\ P[Dst(e)].status = "ACTIVE",
         to = "DONE" => P[Dst(e)].status = "ACTIVE"
  PROVE  IInv'
<1> DEFINE n == job[e].n
<1>0. e \in Engines /\ job[e] \in Jobs /\ Fits(job[e])
  BY DEF IInv, TypeOK, Engaged
<1>1. n \in MoveIds /\ (\A k \in MoveIds : Live(k) => k = n) /\ moves[n].phase = job[e].phase
      /\ moves[n].phase \in Phases
  BY <1>0 DEF Fits, PhaseFits
<1>2. /\ moves'[n] = [moves[n] EXCEPT !.phase = to]
      /\ \A k \in MoveIds : k # n => moves'[k] = moves[k]
  BY <1>1 DEF IInv, TypeOK, AdvanceMove
<1>3. moves'[n].phase = to /\ moves'[n].src = Src(e) /\ moves'[n].dst = Dst(e)
  BY <1>1, <1>2 DEF IInv, TypeOK, Src, Dst
<1>4. place' = P
  BY DEF AdvanceMove
<1>5. job'[e].pc = pc /\ job'[e].n = n /\ job'[e].phase = to
  <2>1. job' = [job EXCEPT ![e] = [job[e] EXCEPT !.phase = to, !.pc = pc]]
    BY DEF AdvanceMove
  <2>2. job \in [Engines -> Jobs]
    BY DEF IInv, TypeOK
  <2>3. job'[e] = [job[e] EXCEPT !.phase = to, !.pc = pc]
    BY <1>0, <2>1, <2>2
  <2>4. QED
    BY <1>0, <2>3 DEF Jobs
<1>6. \A k \in MoveIds : k # n => moves'[k].phase \notin Phases \ Terminal
  BY <1>1, <1>2 DEF Live
<1>7. Src(e) \in Mediums /\ Dst(e) \in Mediums /\ Src(e) # Dst(e)
  BY <1>1 DEF IInv, TypeOK, TwoEnds, Src, Dst, Phases
<1> HIDE DEF n
<1>8. Classed'
  BY <1>4 DEF Classed
<1>9. TwoEnds'
  BY <1>2, <1>3, <1>7 DEF TwoEnds, IInv
<1>10. SourceServes'
  BY <1>3, <1>4, <1>6 DEF SourceServes, Early, Phases, Terminal
<1>11. BothServe'
  BY <1>3, <1>4, <1>6 DEF BothServe, Phases, Terminal
<1>12. DestinationServes'
  BY <1>3, <1>4, <1>6 DEF DestinationServes, Phases, Terminal
<1>13. SomeActive'
  BY <1>4, <1>7 DEF SomeActive, Early, Phases
<1>14. Fits(job[e])'
  BY <1>1, <1>3, <1>4, <1>5, <1>6 DEF Fits, Live
<1>15. QED
  BY <1>8, <1>9, <1>10, <1>11, <1>12, <1>13, <1>14 DEF IInv, Engaged

\* Where a step that keeps the engine's move leaves it.
Kept(e, pc) == job'[e].pc = pc /\ job'[e].n = job[e].n /\ job'[e].phase = job[e].phase

LEMMA GotoKeeps ==
  ASSUME job \in [Engines -> Jobs], NEW e \in Engines, NEW pc, Goto(e, pc)
  PROVE  Kept(e, pc)
BY DEF Goto, Kept, Jobs

LEMMA DisturbedKeeps ==
  ASSUME job \in [Engines -> Jobs], NEW e \in Engines, NEW m, NEW pc,
         job' = [Disturbed(m) EXCEPT ![e].pc = pc]
  PROVE  Kept(e, pc)
<1>1. Disturbed(m) \in [Engines -> Jobs]
  BY DisturbedTypes
<1>2. Disturbed(m)[e].n = job[e].n /\ Disturbed(m)[e].phase = job[e].phase
  BY DEF Disturbed, Jobs
<1>3. QED
  BY <1>1, <1>2 DEF Kept, Jobs

LEMMA StopIdles ==
  ASSUME job \in [Engines -> Jobs], NEW e \in Engines, Stop(e)
  PROVE  job'[e].pc = "idle"
BY DEF Stop, Idle

LEMMA DisturbedIdles ==
  ASSUME job \in [Engines -> Jobs], NEW e \in Engines, NEW m, job' = [Disturbed(m) EXCEPT ![e] = Idle]
  PROVE  job'[e].pc = "idle"
BY DisturbedTypes DEF Idle

\* An engine that takes a move in hand.
LEMMA CycleInv ==
  ASSUME NEW e, Engines = {e}, IInv, TypeOK', OneLiveMove', Cycle(e)
  PROVE  IInv'
<1>0. e \in Engines /\ job[e].pc = "idle"
  BY DEF Cycle, Resume, Plan, At
<1>1. ASSUME NEW n \in MoveIds, Resume(e, n) PROVE IInv'
  <2>1. job'[e] = [Idle EXCEPT !.pc = "phase", !.n = n, !.phase = moves[n].phase]
    BY <1>0, <1>1 DEF Resume, IInv, TypeOK
  <2>2. job'[e].pc = "phase" /\ job'[e].n = n /\ job'[e].phase = moves[n].phase
    BY <2>1 DEF Idle
  <2>3. \A k \in MoveIds : Live(k) => k = n
    BY <1>1 DEF Resume, IInv, OneLiveMove
  <2>4. PhaseFits("phase", moves[n].phase) /\ moves[n].phase # "ABANDONED"
    BY <1>1 DEF Resume, Live, PhaseFits, Terminal
  <2>5. UNCHANGED <<place, moves>>
    BY <1>1 DEF Resume
  <2>6. Fits(job[e])'
    BY <2>2, <2>3, <2>4, <2>5 DEF Fits, Live
  <2>7. QED
    BY <2>5, <2>6 DEF IInv, Engaged, OneLiveMove, Live, Classed, TwoEnds, SourceServes, BothServe,
                      DestinationServes, SomeActive
<1>2. ASSUME NEW n \in MoveIds, NEW src \in Mediums, NEW dst \in Mediums, Plan(e, n, src, dst)
      PROVE  IInv'
  <2>1. job'[e] = [Idle EXCEPT !.pc = "phase", !.n = n, !.phase = "PLANNED"]
    BY <1>0, <1>2 DEF Plan, IInv, TypeOK
  <2>2. job'[e].pc = "phase" /\ job'[e].n = n /\ job'[e].phase = "PLANNED"
    BY <2>1 DEF Idle
  <2>3. /\ moves'[n] = [phase |-> "PLANNED", src |-> src, dst |-> dst]
        /\ \A k \in MoveIds : k # n => moves'[k] = moves[k]
        /\ place' = place
    BY <1>2 DEF Plan, IInv, TypeOK
  <2>4. \A k \in MoveIds : k # n => moves'[k].phase \notin Phases \ Terminal
    BY <1>2, <2>3 DEF Plan, Live
  <2>5. place[src].status = "ACTIVE" /\ place[dst].status # "ACTIVE" /\ src # dst
    BY <1>2 DEF Plan, Eligible
  <2>6. PhaseFits("phase", "PLANNED")
    BY DEF PhaseFits, Phases, Terminal
  <2>7. Fits(job[e])'
    BY <2>2, <2>3, <2>4, <2>6 DEF Fits, Live
  <2>8. Classed' /\ SomeActive' /\ TwoEnds'
    BY <2>3, <2>5 DEF IInv, Classed, SomeActive, TwoEnds
  <2>9. SourceServes' /\ BothServe' /\ DestinationServes'
    BY <2>3, <2>4, <2>5 DEF SourceServes, BothServe, DestinationServes, Early, Phases, Terminal
  <2>10. QED
    BY <2>7, <2>8, <2>9 DEF IInv, Engaged
<1>3. QED
  BY <1>1, <1>2 DEF Cycle

\* The steps that write nothing to the journal.
LEMMA QuietInv ==
  ASSUME NEW e, Engines = {e}, IInv, TypeOK',
         \/ Ineligible(e) \/ CopyBegin(e) \/ CopyToMedium(e) \/ CopyToLocal(e)
         \/ Stage(e) \/ SendStaged(e) \/ Unstage(e) \/ CopyFails(e)
         \/ Identify(e) \/ VerifyRead(e) \/ DeleteLook(e) \/ ReverifyForDelete(e)
         \/ GuardSourceDelete(e) \/ RemoveSource(e) \/ RemoveFails(e)
         \/ Discard(e) \/ DiscardFails(e) \/ DropStaging(e) \/ Finish(e) \/ Crash(e)
  PROVE  IInv'
<1>0. e \in Engines /\ job \in [Engines -> Jobs] /\ Fits(job[e])
  BY DEF IInv, TypeOK, Engaged
<1>1. CASE Ineligible(e)
  BY <1>0, <1>1, GotoKeeps, QuietStep DEF Ineligible, AtPhase, At, Fits, Kept, PhaseFits
<1>2. CASE CopyBegin(e)
  <2>1. Kept(e, "abandon") \/ Kept(e, "transfer")
    <3>1. CASE Goto(e, "abandon")
      BY <1>0, <3>1, GotoKeeps
    <3>2. CASE ~Goto(e, "abandon")
      <4> DEFINE next == [job[e] EXCEPT !.pc = "transfer", !.tries = job[e].tries + 1]
      <4>1. next.pc = "transfer" /\ next.n = job[e].n /\ next.phase = job[e].phase
        BY <1>0 DEF Jobs
      <4>2. job' = [job EXCEPT ![e] = next]
        BY <1>2, <3>2, Zenon DEF CopyBegin
      <4> HIDE DEF next
      <4>3. QED
        BY <1>0, <4>1, <4>2 DEF Kept
    <3>3. QED
      BY <3>1, <3>2
  <2>2. QED
    BY <1>0, <1>2, <2>1, QuietStep DEF CopyBegin, AtPhase, At, Fits, Kept, PhaseFits
<1>3. CASE CopyToMedium(e)
  <2>1. Kept(e, "copied")
    BY <1>0, <1>3, DisturbedKeeps DEF CopyToMedium
  <2>2. QED
    BY <1>0, <1>3, <2>1, QuietStep DEF CopyToMedium, At, Fits, Kept, PhaseFits
<1>4. CASE CopyToLocal(e)
  <2>1. Kept(e, "copied")
    BY <1>0, <1>4, DisturbedKeeps, GotoKeeps DEF CopyToLocal
  <2>2. QED
    BY <1>0, <1>4, <2>1, QuietStep DEF CopyToLocal, At, Fits, Kept, PhaseFits
<1>5. CASE Stage(e)
  <2>1. \/ job'[e].pc = "idle"
        \/ Kept(e, "abandon")
        \/ Kept(e, "send") /\ staged' = "good"
    BY <1>0, <1>5, GotoKeeps, StopIdles DEF Stage
  <2>2. QED
    BY <1>0, <1>5, <2>1, QuietStep DEF Stage, At, Fits, Kept, PhaseFits
<1>6. CASE SendStaged(e)
  <2>1. Kept(e, "unstage")
    BY <1>0, <1>6, DisturbedKeeps DEF SendStaged
  <2>2. QED
    BY <1>0, <1>6, <2>1, QuietStep DEF SendStaged, At, Fits, Kept, PhaseFits
<1>7. CASE Unstage(e)
  BY <1>0, <1>7, GotoKeeps, QuietStep DEF Unstage, At, Fits, Kept, PhaseFits
<1>8. CASE CopyFails(e)
  <2>1. job'[e].pc = "idle"
    BY <1>0, <1>8, DisturbedTypes DEF CopyFails, Idle
  <2>2. QED
    BY <1>0, <1>8, <2>1, QuietStep DEF CopyFails
<1>9. CASE Identify(e)
  <2>1. Kept(e, "read")
    <3>1. \E b \in BOOLEAN : job' = [job EXCEPT ![e] = [job[e] EXCEPT !.pc = "read", !.known = b, !.still = b]]
      BY <1>9 DEF Identify
    <3>2. QED
      BY <1>0, <3>1 DEF Kept, Jobs
  <2>2. QED
    BY <1>0, <1>9, <2>1, QuietStep DEF Identify, AtPhase, At, Fits, Kept, PhaseFits
<1>10. CASE VerifyRead(e)
  <2>1. Kept(e, "abandon") \/ Kept(e, "pass") \/ Kept(e, "recopy")
    BY <1>0, <1>10, GotoKeeps DEF VerifyRead
  <2>2. QED
    BY <1>0, <1>10, <2>1, QuietStep DEF VerifyRead, At, Fits, Kept, PhaseFits
<1>11. CASE DeleteLook(e)
  <2>1. Kept(e, "reverify")
    <3>1. \E b \in BOOLEAN : job' = [job EXCEPT ![e] = [job[e] EXCEPT !.pc = "reverify", !.sound = b]]
      BY <1>11 DEF DeleteLook
    <3>2. QED
      BY <1>0, <3>1 DEF Kept, Jobs
  <2>2. QED
    BY <1>0, <1>11, <2>1, QuietStep DEF DeleteLook, AtPhase, At, Fits, Kept, PhaseFits
<1>12. CASE ReverifyForDelete(e)
  <2>1. Kept(e, "guard") \/ Kept(e, "recopy")
    <3>1. \E j : /\ job' = [job EXCEPT ![e] = j]
                /\ j.n = job[e].n /\ j.phase = job[e].phase /\ j.pc \in {"guard", "recopy"}
      <4>1. LET j == [job[e] EXCEPT !.pc = "guard", !.readable = TRUE, !.known = FALSE]
            IN  j.n = job[e].n /\ j.phase = job[e].phase /\ j.pc = "guard"
        BY <1>0 DEF Jobs
      <4>2. LET j == [job[e] EXCEPT !.pc = "guard", !.readable = TRUE, !.still = TRUE]
            IN  j.n = job[e].n /\ j.phase = job[e].phase /\ j.pc = "guard"
        BY <1>0 DEF Jobs
      <4>3. LET j == [job[e] EXCEPT !.pc = "recopy"]
            IN  j.n = job[e].n /\ j.phase = job[e].phase /\ j.pc = "recopy"
        BY <1>0 DEF Jobs
      <4>4. LET j == [job[e] EXCEPT !.pc = "guard", !.readable = FALSE]
            IN  j.n = job[e].n /\ j.phase = job[e].phase /\ j.pc = "guard"
        BY <1>0 DEF Jobs
      <4>5. QED
        BY <1>12, <4>1, <4>2, <4>3, <4>4 DEF ReverifyForDelete
    <3>2. QED
      BY <1>0, <3>1 DEF Kept
  <2>2. QED
    BY <1>0, <1>12, <2>1, QuietStep DEF ReverifyForDelete, At, Fits, Kept, PhaseFits
<1>13. CASE GuardSourceDelete(e)
  <2>1. Kept(e, "done") \/ Kept(e, "remove") \/ job'[e].pc = "idle"
    BY <1>0, <1>13, GotoKeeps, StopIdles DEF GuardSourceDelete
  <2>2. QED
    BY <1>0, <1>13, <2>1, QuietStep DEF GuardSourceDelete, At, Fits, Kept, PhaseFits
<1>14. CASE RemoveSource(e)
  <2>1. Kept(e, "done")
    BY <1>0, <1>14, DisturbedKeeps DEF RemoveSource
  <2>2. QED
    BY <1>0, <1>14, <2>1, QuietStep DEF RemoveSource, At, Fits, Kept, PhaseFits
<1>15. CASE RemoveFails(e)
  BY <1>0, <1>15, DisturbedIdles, QuietStep DEF RemoveFails
<1>16. CASE Discard(e)
  <2>1. Kept(e, "discarded")
    BY <1>0, <1>16, DisturbedKeeps DEF Discard
  <2>2. QED
    BY <1>0, <1>16, <2>1, QuietStep DEF Discard, At, Fits, Kept, PhaseFits
<1>17. CASE DiscardFails(e)
  BY <1>0, <1>17, DisturbedIdles, QuietStep DEF DiscardFails
<1>18. CASE DropStaging(e) \/ Finish(e) \/ Crash(e)
  BY <1>0, <1>18, StopIdles, QuietStep DEF DropStaging, Finish, Crash
<1>19. QED
  BY <1>1, <1>2, <1>3, <1>4, <1>5, <1>6, <1>7, <1>8, <1>9, <1>10, <1>11, <1>12, <1>13, <1>14,
     <1>15, <1>16, <1>17, <1>18

\* The steps that write the journal.
LEMMA WriteInv ==
  ASSUME NEW e, Engines = {e}, IInv, TypeOK', OneLiveMove',
         \/ StartCopy(e) \/ CopyRecord(e) \/ StartVerify(e) \/ VerifyPass(e) \/ IntendDelete(e)
         \/ RecordDone(e) \/ Recopy(e) \/ Abandon(e)
  PROVE  IInv'
<1>0. /\ e \in Engines /\ job[e] \in Jobs /\ place \in Placements
      /\ \A m \in Mediums : place[m].status # "none" => place[m].class \in {"content", "attested"}
  BY DEF IInv, TypeOK, Placements, Classed
<1>1. job[e].pc # "idle"
  BY DEF StartCopy, CopyRecord, StartVerify, VerifyPass, IntendDelete, RecordDone, Recopy, Abandon,
         AtPhase, At
<1>2. job[e].n \in MoveIds /\ job[e].phase = moves[job[e].n].phase /\ PhaseFits(job[e].pc, job[e].phase)
  BY <1>0, <1>1 DEF IInv, Engaged, Fits
<1>3. Src(e) \in Mediums /\ Dst(e) \in Mediums /\ Src(e) # Dst(e)
  BY <1>2 DEF IInv, TypeOK, TwoEnds, Src, Dst, PhaseFits, Phases
<1>4. /\ job[e].phase \in Early => place[Src(e)].status = "ACTIVE" /\ place[Dst(e)].status # "ACTIVE"
      /\ job[e].phase = "VERIFIED" => place[Src(e)].status = "ACTIVE" /\ place[Dst(e)].status = "ACTIVE"
      /\ job[e].phase = "SOURCE_DELETE_PENDING" =>
           place[Src(e)].status = "DELETE_PENDING" /\ place[Dst(e)].status = "ACTIVE"
  BY <1>2 DEF IInv, SourceServes, BothServe, DestinationServes, Src, Dst
<1>5. CASE StartCopy(e)
  BY <1>0, <1>1, <1>4, <1>5, WriteStep DEF StartCopy, AtPhase, Early, PhaseFits, Phases, Terminal
<1>6. CASE CopyRecord(e)
  BY <1>0, <1>1, <1>2, <1>4, <1>6, WriteStep
     DEF CopyRecord, At, Early, PhaseFits, Phases, Terminal
<1>7. CASE StartVerify(e)
  BY <1>0, <1>1, <1>4, <1>7, WriteStep DEF StartVerify, AtPhase, Early, PhaseFits, Phases, Terminal
<1>8. CASE VerifyPass(e)
  <2> DEFINE P == [place EXCEPT ![Dst(e)] = [status |-> "ACTIVE", class |-> Want[Dst(e)]]]
  <2>1. job[e].phase = "VERIFYING"
    BY <1>2, <1>8 DEF VerifyPass, At, PhaseFits
  <2>2. /\ P \in Placements /\ P[Src(e)].status = "ACTIVE" /\ P[Dst(e)].status = "ACTIVE"
        /\ \A m \in Mediums : P[m].status # "none" => P[m].class \in {"content", "attested"}
    BY <1>0, <1>3, <1>4, <2>1, MediumAssumption DEF Placements, Early
  <2>3. AdvanceMove(e, "VERIFIED", P, "phase")
    BY <1>8 DEF VerifyPass
  <2> HIDE DEF P
  <2>4. PhaseFits("phase", "VERIFIED") /\ "VERIFIED" \in Phases /\ "VERIFIED" \notin Early
    BY DEF PhaseFits, Phases, Terminal, Early
  <2>5. QED
    BY <1>0, <1>1, <2>2, <2>3, <2>4, WriteStep
<1>9. CASE IntendDelete(e)
  <2> DEFINE P == WithStatus(Src(e), "DELETE_PENDING")
  <2>1. /\ P \in Placements /\ P[Src(e)].status = "DELETE_PENDING" /\ P[Dst(e)].status = "ACTIVE"
        /\ \A m \in Mediums : P[m].status # "none" => P[m].class \in {"content", "attested"}
    BY <1>0, <1>3, <1>4, <1>9 DEF IntendDelete, AtPhase, WithStatus, Placements
  <2>2. AdvanceMove(e, "SOURCE_DELETE_PENDING", P, "phase")
    BY <1>9 DEF IntendDelete
  <2> HIDE DEF P
  <2>3. /\ PhaseFits("phase", "SOURCE_DELETE_PENDING")
        /\ "SOURCE_DELETE_PENDING" \in Phases /\ "SOURCE_DELETE_PENDING" \notin Early
    BY DEF PhaseFits, Phases, Terminal, Early
  <2>4. QED
    BY <1>0, <1>1, <2>1, <2>2, <2>3, WriteStep
<1>10. CASE RecordDone(e)
  <2> DEFINE P == WithStatus(Src(e), "GONE")
  <2>1. job[e].phase = "SOURCE_DELETE_PENDING"
    BY <1>2, <1>10 DEF RecordDone, At, PhaseFits
  <2>2. /\ P \in Placements /\ P[Dst(e)].status = "ACTIVE"
        /\ \A m \in Mediums : P[m].status # "none" => P[m].class \in {"content", "attested"}
    BY <1>0, <1>3, <1>4, <2>1 DEF WithStatus, Placements
  <2>3. AdvanceMove(e, "DONE", P, "finished")
    BY <1>10 DEF RecordDone
  <2> HIDE DEF P
  <2>4. PhaseFits("finished", "DONE") /\ "DONE" \in Phases /\ "DONE" \notin Early
    BY DEF PhaseFits, Phases, Terminal, Early
  <2>5. QED
    BY <1>0, <1>1, <2>2, <2>3, <2>4, WriteStep
<1>11. CASE Recopy(e)
  <2> DEFINE P == [m \in Mediums |->
                     IF m = Src(e) THEN Restored(m)[m]
                     ELSE IF m = Dst(e) /\ place[m].status = "ACTIVE"
                          THEN [place[m] EXCEPT !.status = "DELETE_PENDING"]
                          ELSE place[m]]
  <2>1. job[e].phase \in {"VERIFYING", "SOURCE_DELETE_PENDING"}
    BY <1>2, <1>11 DEF Recopy, At, PhaseFits
  <2>2. place[Src(e)].status # "none"
    BY <1>4, <2>1 DEF Early
  <2>3. /\ Restored(Src(e)) \in Placements /\ Restored(Src(e))[Src(e)].status = "ACTIVE"
        /\ Restored(Src(e))[Src(e)].class = place[Src(e)].class
    BY <1>0, <1>3, <2>2 DEF Restored, WithStatus, Placements
  <2>4. P \in Placements
    BY <1>0, <2>3 DEF Placements
  <2>5. P[Src(e)].status = "ACTIVE" /\ P[Dst(e)].status # "ACTIVE"
    BY <1>0, <1>3, <2>3 DEF Placements
  <2>6. \A m \in Mediums : P[m].status # "none" => P[m].class \in {"content", "attested"}
    BY <1>0, <1>3, <2>2, <2>3 DEF Placements
  <2>7. AdvanceMove(e, "COPYING", P, "discard")
    BY <1>11 DEF Recopy
  <2> HIDE DEF P
  <2>8. PhaseFits("discard", "COPYING") /\ "COPYING" \in Phases
    BY DEF PhaseFits, Phases, Terminal
  <2>9. QED
    BY <1>0, <1>1, <2>4, <2>5, <2>6, <2>7, <2>8, WriteStep
<1>12. CASE Abandon(e)
  <2>1. job[e].phase \in Early
    BY <1>2, <1>12 DEF Abandon, At, PhaseFits, Early
  <2>2. Restored(Src(e)) = place
    BY <1>4, <2>1 DEF Restored
  <2>3. AdvanceMove(e, "ABANDONED", place, "discard")
    BY <1>12, <2>2 DEF Abandon
  <2>4. PhaseFits("discard", "ABANDONED") /\ "ABANDONED" \in Phases
    BY DEF PhaseFits, Phases, Terminal
  <2>5. QED
    BY <1>0, <1>1, <1>4, <2>1, <2>3, <2>4, WriteStep
<1>13. QED
  BY <1>5, <1>6, <1>7, <1>8, <1>9, <1>10, <1>11, <1>12

\* The second half of a discard, after a way back and after giving up.
LEMMA DiscardRecordInv ==
  ASSUME NEW e, Engines = {e}, IInv, TypeOK', OneLiveMove', DiscardRecord(e)
  PROVE  IInv'
<1>0. /\ e \in Engines /\ job \in [Engines -> Jobs] /\ place \in Placements
      /\ \A m \in Mediums : place[m].status # "none" => place[m].class \in {"content", "attested"}
  BY DEF IInv, TypeOK, Placements, Classed
<1>1. job[e].pc = "discarded"
  BY DEF DiscardRecord, At
<1>2. Fits(job[e]) /\ job[e].phase \in {"COPYING", "ABANDONED"} /\ job[e].n \in MoveIds
      /\ job[e].phase = moves[job[e].n].phase
  BY <1>0, <1>1 DEF IInv, Engaged, Fits, PhaseFits
<1>3. Src(e) \in Mediums /\ Dst(e) \in Mediums /\ Src(e) # Dst(e)
  BY <1>2 DEF IInv, TypeOK, TwoEnds, Src, Dst
<1>4. place[Src(e)].status = "ACTIVE"
  BY <1>1, <1>2 DEF Fits, IInv, SourceServes, Early, Src, Dst
<1>5. PhaseFits(AfterDiscard(e), job[e].phase) /\ AfterDiscard(e) \in {"phase", "unstaging"}
  BY <1>2 DEF AfterDiscard, PhaseFits, Phases, Terminal
<1>6. CASE place[Dst(e)].status \in {"none", "GONE"}
  <2>1. Goto(e, AfterDiscard(e)) /\ UNCHANGED <<place, moves>>
    BY <1>6 DEF DiscardRecord
  <2>2. Kept(e, AfterDiscard(e))
    BY <1>0, <2>1, GotoKeeps
  <2>3. QED
    BY <1>1, <1>5, <2>1, <2>2, QuietStep DEF Kept
<1>7. CASE place[Dst(e)].status \notin {"none", "GONE"}
  <2> DEFINE P == WithStatus(Dst(e), "GONE")
  <2>1. AdvanceMove(e, job[e].phase, P, AfterDiscard(e))
    BY <1>7 DEF DiscardRecord
  <2>2. /\ P \in Placements /\ P[Src(e)].status = "ACTIVE" /\ P[Dst(e)].status # "ACTIVE"
        /\ \A m \in Mediums : P[m].status # "none" => P[m].class \in {"content", "attested"}
    BY <1>0, <1>3, <1>4, <1>7 DEF WithStatus, Placements
  <2> HIDE DEF P
  <2>3. job[e].phase \in Phases
    BY <1>2 DEF Phases
  <2>4. QED
    BY <1>0, <1>1, <1>2, <1>5, <2>1, <2>2, <2>3, WriteStep DEF Early
<1>8. QED
  BY <1>6, <1>7

\* Damage touches no journal row and moves no engine on.
LEMMA DamageMoves ==
  ASSUME job \in [Engines -> Jobs], NEW m, Damage(m), NEW e \in Engines
  PROVE  /\ Kept(e, job[e].pc) /\ job'[e].known = job[e].known
         /\ job'[e].readable = job[e].readable
         /\ job'[e].still \in BOOLEAN
         /\ job'[e].still => job[e].still /\ (job[e].n # 0 => Dst(e) # m)
BY DEF Damage, Disturbed, Kept, Jobs, Dst

LEMMA WorldInv ==
  ASSUME NEW e, Engines = {e}, IInv, TypeOK', World
  PROVE  IInv'
<1>0. e \in Engines /\ job \in [Engines -> Jobs] /\ Fits(job[e])
  BY DEF IInv, TypeOK, Engaged
<1>1. ASSUME NEW m \in Mediums, Damage(m) PROVE IInv'
  <2>1. Kept(e, job[e].pc)
    BY <1>0, <1>1, DamageMoves
  <2>2. UNCHANGED <<place, moves, staged>>
    BY <1>1 DEF Damage
  <2>3. QED
    BY <1>0, <2>1, <2>2, QuietStep DEF Kept, Fits
<1>2. ASSUME UNCHANGED <<place, moves, staged, job>> PROVE IInv'
  BY <1>0, <1>2, QuietStep DEF Fits
<1>3. QED
  BY <1>1, <1>2 DEF World, Reclassify, TiersMove, Reconcile, Reinstate

LEMMA InitInv == Init => IInv
<1> SUFFICES ASSUME Init PROVE IInv
  OBVIOUS
<1>1. TypeOK /\ OneLiveMove
  BY InitTypes, InitOneLive
<1>2. \A n \in MoveIds : moves[n].phase = "none"
  BY DEF Init, Unplanned
<1>3. TwoEnds /\ SourceServes /\ BothServe /\ DestinationServes
  BY <1>2 DEF TwoEnds, SourceServes, BothServe, DestinationServes, Early
<1>4. Classed /\ SomeActive
  BY MediumAssumption DEF Init, Classed, SomeActive
<1>5. Engaged
  BY DEF Init, Engaged, Fits, Idle
<1>6. QED
  BY <1>1, <1>3, <1>4, <1>5 DEF IInv

LEMMA StepInv ==
  ASSUME NEW e, Engines = {e}
  PROVE  IInv /\ [Next]_vars => IInv'
<1> SUFFICES ASSUME IInv, [Next]_vars PROVE IInv'
  OBVIOUS
<1>1. TypeOK' /\ OneLiveMove'
  BY StepTypes, OneLiveInductive DEF IInv
<1>2. CASE UNCHANGED vars
  <2>1. Fits(job[e])
    BY DEF IInv, Engaged
  <2>2. UNCHANGED <<place, moves, staged, job>>
    BY <1>2 DEF vars
  <2>3. QED
    BY <1>1, <2>1, <2>2, QuietStep DEF Fits
<1>3. CASE Step(e)
  BY <1>1, <1>3, QuietInv, WriteInv, DiscardRecordInv DEF Step
<1>4. CASE Cycle(e)
  BY <1>1, <1>4, CycleInv
<1>5. CASE Crash(e)
  BY <1>1, <1>5, QuietInv
<1>6. CASE World
  BY <1>1, <1>6, WorldInv
<1>7. QED
  BY <1>2, <1>3, <1>4, <1>5, <1>6 DEF Next

LEMMA SomeActiveSuffices == IInv => AlwaysActive
BY DEF IInv, SomeActive, Classed, AlwaysActive

\* With one engine, a COMPLETE artifact has an ACTIVE placement of a proving class at
\* every instant of every move, over crashes, failed calls, bad copies and damage.
THEOREM StandingInvariant ==
  ASSUME NEW e, Engines = {e}
  PROVE  Spec => []AlwaysActive
<1>1. Init => IInv
  BY InitInv
<1>2. IInv /\ [Next]_vars => IInv'
  BY StepInv
<1>3. IInv => AlwaysActive
  BY SomeActiveSuffices
<1>4. QED
  BY <1>1, <1>2, <1>3, PTL DEF Spec

-----------------------------------------------------------------------------
(* What the engine removes, for one engine.                                *)

\* The steps that write or remove a copy.
LEMMA StepsOnCopies ==
  ASSUME NEW e, Engines = {e}, Next, objs' # objs
  PROVE  \/ CopyToMedium(e) \/ CopyToLocal(e) \/ SendStaged(e) \/ CopyFails(e)
         \/ RemoveSource(e) \/ RemoveFails(e) \/ Discard(e) \/ DiscardFails(e)
         \/ \E m \in Mediums : Damage(m)
<1>1. CASE Step(e)
  BY <1>1 DEF Step, StartCopy, Ineligible, CopyBegin, Stage, Unstage, CopyRecord, StartVerify,
     Identify, VerifyRead, VerifyPass, IntendDelete, DeleteLook, ReverifyForDelete,
     GuardSourceDelete, RecordDone, Recopy, Abandon, DiscardRecord, DropStaging, Finish,
     AdvanceMove
<1>2. CASE Cycle(e) \/ Crash(e)
  BY <1>2 DEF Cycle, Resume, Plan, Crash
<1>3. CASE World
  BY <1>3 DEF World, Reclassify, TiersMove, Reconcile, Reinstate
<1>4. QED
  BY <1>1, <1>2, <1>3 DEF Next

LEMMA RemovesUnlisted ==
  ASSUME NEW e, Engines = {e}, IInv, Next, OwnStep,
         NEW m \in Mediums, objs[m] # "none", objs'[m] = "none"
  PROVE  place[m].status # "ACTIVE"
<1>0. /\ e \in Engines /\ job \in [Engines -> Jobs] /\ objs \in [Mediums -> Copies]
      /\ Fits(job[e])
  BY DEF IInv, TypeOK, Engaged
<1>1. CASE CopyToMedium(e)
  BY <1>0, <1>1 DEF CopyToMedium, Delivers
<1>2. CASE CopyToLocal(e)
  BY <1>0, <1>2 DEF CopyToLocal, Delivers
<1>3. CASE SendStaged(e)
  BY <1>0, <1>3 DEF SendStaged, Delivers, At, Fits
<1>4. CASE CopyFails(e)
  BY <1>0, <1>4 DEF CopyFails
<1>5. CASE RemoveSource(e) \/ RemoveFails(e)
  <2>1. m = Src(e)
    BY <1>0, <1>5 DEF RemoveSource, RemoveFails
  <2>2. job[e].n \in MoveIds /\ moves[job[e].n].phase = "SOURCE_DELETE_PENDING"
    BY <1>0, <1>5 DEF RemoveSource, RemoveFails, At, Fits, PhaseFits
  <2>3. QED
    BY <2>1, <2>2 DEF IInv, DestinationServes, Src
<1>6. CASE Discard(e) \/ DiscardFails(e)
  <2>1. m = Dst(e)
    BY <1>0, <1>6 DEF Discard, DiscardFails
  <2>2. /\ job[e].pc = "discard" /\ job[e].n \in MoveIds
        /\ job[e].phase = moves[job[e].n].phase /\ job[e].phase \in {"COPYING", "ABANDONED"}
    BY <1>0, <1>6 DEF Discard, DiscardFails, At, Fits, PhaseFits
  <2>3. QED
    BY <1>0, <2>1, <2>2 DEF IInv, SourceServes, Early, Fits, Dst
<1>7. ASSUME NEW k \in Mediums, Damage(k) PROVE FALSE
  BY <1>0, <1>7, DamageMoves DEF OwnStep, Kept
<1>8. QED
  BY <1>1, <1>2, <1>3, <1>4, <1>5, <1>6, <1>7, StepsOnCopies

\* With one engine, whatever the engine removes is no longer listed: not the source
\* before its delete is recorded as intended, not a destination that was verified
\* before it is taken off the list.
THEOREM NothingListedIsRemoved ==
  ASSUME NEW e, Engines = {e}
  PROVE  Spec => NeverRemovesListed
<1>1. Init => IInv
  BY InitInv
<1>2. IInv /\ [Next]_vars => IInv'
  BY StepInv
<1>3. IInv /\ [Next]_vars =>
        [\A m \in Mediums : /\ OwnStep
                            /\ objs[m] # "none" /\ objs'[m] = "none"
                            => place[m].status # "ACTIVE"]_vars
  <2>1. CASE UNCHANGED vars
    BY <2>1
  <2>2. CASE Next
    BY <2>2, RemovesUnlisted
  <2>3. QED
    BY <2>1, <2>2
<1>4. QED
  BY <1>1, <1>2, <1>3, PTL DEF Spec, NeverRemovesListed

-----------------------------------------------------------------------------
(* What the source is deleted against, for one engine.                     *)

\* Where the read-back made at VERIFYING is still to be used.
Carrying(j) == \/ j.pc = "pass"
               \/ /\ j.pc \in {"phase", "reverify"}
                  /\ j.phase \in {"VERIFIED", "SOURCE_DELETE_PENDING"}

\* An undisturbed destination is good: from the read on while its identity is kept,
\* and from the second look on when that found it readable.
Vouched(j) ==
  /\ Carrying(j) /\ j.known /\ j.still => objs[moves[j.n].dst] = "good"
  /\ j.pc = "guard" /\ j.readable /\ j.still => objs[moves[j.n].dst] = "good"
  /\ j.pc = "remove" /\ j.still => objs[moves[j.n].dst] = "good"

ReadGood == \A e \in Engines : Vouched(job[e])

\* The steps that leave a job with nothing to vouch for.
Silent(j) == /\ j.pc \notin {"pass", "guard", "remove", "reverify", "recopy"}
             /\ j.pc = "phase" => j.phase \notin {"VERIFIED", "SOURCE_DELETE_PENDING"}

LEMMA SilentVouches ==
  ASSUME NEW j, Silent(j)
  PROVE  Vouched(j)
BY DEF Silent, Vouched, Carrying

\* Where a step that advances the move leaves the engine.
LEMMA AdvanceKeeps ==
  ASSUME job \in [Engines -> Jobs], NEW e \in Engines, NEW to, NEW P, NEW pc, AdvanceMove(e, to, P, pc)
  PROVE  /\ job'[e].pc = pc /\ job'[e].n = job[e].n /\ job'[e].phase = to
         /\ job'[e].known = job[e].known /\ job'[e].still = job[e].still
         /\ objs' = objs
<1>1. job' = [job EXCEPT ![e] = [job[e] EXCEPT !.phase = to, !.pc = pc]]
  BY DEF AdvanceMove
<1>2. job'[e] = [job[e] EXCEPT !.phase = to, !.pc = pc]
  BY <1>1
<1>3. QED
  BY <1>2 DEF AdvanceMove, Jobs

\* The destination of a planned move never changes.
LEMMA AdvanceKeepsEnds ==
  ASSUME TypeOK, NEW e \in Engines, NEW to, NEW P, NEW pc, AdvanceMove(e, to, P, pc),
         NEW k \in MoveIds
  PROVE  moves'[k].dst = moves[k].dst
BY DEF AdvanceMove, TypeOK

LEMMA SilentAfter ==
  ASSUME NEW e, Engines = {e}, Silent(job'[e])
  PROVE  ReadGood'
BY DEF ReadGood, Silent, Vouched, Carrying

LEMMA KeptSilent ==
  ASSUME NEW e, NEW pc, Kept(e, pc), pc \notin {"pass", "guard", "remove", "reverify", "recopy", "phase"}
  PROVE  Silent(job'[e])
BY DEF Kept, Silent

\* Until the copy is read there is nothing to vouch for.
LEMMA CopyingSilent ==
  ASSUME NEW e \in Engines, IInv,
         \/ StartCopy(e) \/ Ineligible(e) \/ CopyBegin(e) \/ CopyToMedium(e) \/ CopyToLocal(e)
         \/ Stage(e) \/ SendStaged(e) \/ Unstage(e) \/ CopyFails(e) \/ CopyRecord(e)
         \/ StartVerify(e) \/ Identify(e)
  PROVE  Silent(job'[e])
<1>0. job \in [Engines -> Jobs] /\ Fits(job[e])
  BY DEF IInv, TypeOK, Engaged
<1>1. CASE StartCopy(e)
  BY <1>0, <1>1, AdvanceKeeps DEF StartCopy, Silent
<1>2. CASE Ineligible(e)
  BY <1>0, <1>2, GotoKeeps, KeptSilent DEF Ineligible
<1>3. CASE CopyBegin(e)
  <2>1. CASE Goto(e, "abandon")
    BY <1>0, <2>1, GotoKeeps, KeptSilent
  <2>2. ASSUME job' = [job EXCEPT ![e] = [@ EXCEPT !.pc = "transfer", !.tries = job[e].tries + 1]]
        PROVE  Silent(job'[e])
    <3>1. job'[e].pc = "transfer"
      BY <1>0, <2>2 DEF Jobs
    <3>2. QED
      BY <3>1 DEF Silent
  <2>3. QED
    BY <1>3, <2>1, <2>2 DEF CopyBegin
<1>4. CASE CopyToMedium(e)
  BY <1>0, <1>4, DisturbedKeeps, KeptSilent DEF CopyToMedium
<1>5. CASE CopyToLocal(e)
  BY <1>0, <1>5, DisturbedKeeps, GotoKeeps, KeptSilent DEF CopyToLocal
<1>6. CASE Stage(e)
  BY <1>0, <1>6, GotoKeeps, StopIdles DEF Stage, Silent, Kept
<1>7. CASE SendStaged(e)
  BY <1>0, <1>7, DisturbedKeeps, KeptSilent DEF SendStaged
<1>8. CASE Unstage(e)
  BY <1>0, <1>8, GotoKeeps, KeptSilent DEF Unstage
<1>9. CASE CopyFails(e)
  BY <1>0, <1>9, DisturbedTypes DEF CopyFails, Silent, Idle
<1>10. CASE CopyRecord(e)
  BY <1>0, <1>10, AdvanceKeeps DEF CopyRecord, Silent
<1>11. CASE StartVerify(e)
  BY <1>0, <1>11, AdvanceKeeps DEF StartVerify, Silent
<1>12. CASE Identify(e)
  <2>1. job'[e].pc = "read"
    BY <1>0, <1>12 DEF Identify, Jobs
  <2>2. QED
    BY <2>1 DEF Silent
<1>13. QED
  BY <1>1, <1>2, <1>3, <1>4, <1>5, <1>6, <1>7, <1>8, <1>9, <1>10, <1>11, <1>12

\* Once the source is gone, or the move goes back or ends, there is nothing either.
LEMMA LeavingSilent ==
  ASSUME NEW e \in Engines, IInv,
         \/ RemoveSource(e) \/ RemoveFails(e) \/ RecordDone(e)
         \/ Recopy(e) \/ Abandon(e) \/ Discard(e) \/ DiscardFails(e) \/ DiscardRecord(e)
         \/ DropStaging(e) \/ Finish(e) \/ Crash(e)
  PROVE  Silent(job'[e])
<1>0. job \in [Engines -> Jobs] /\ Fits(job[e])
  BY DEF IInv, TypeOK, Engaged
<1>1. CASE RemoveSource(e)
  BY <1>0, <1>1, DisturbedKeeps, KeptSilent DEF RemoveSource
<1>2. CASE RemoveFails(e)
  BY <1>0, <1>2, DisturbedIdles DEF RemoveFails, Silent
<1>3. CASE RecordDone(e)
  BY <1>0, <1>3, AdvanceKeeps DEF RecordDone, Silent
<1>4. CASE Recopy(e)
  BY <1>0, <1>4, AdvanceKeeps DEF Recopy, Silent
<1>5. CASE Abandon(e)
  BY <1>0, <1>5, AdvanceKeeps DEF Abandon, Silent
<1>6. CASE Discard(e)
  BY <1>0, <1>6, DisturbedKeeps, KeptSilent DEF Discard
<1>7. CASE DiscardFails(e)
  BY <1>0, <1>7, DisturbedIdles DEF DiscardFails, Silent
<1>8. CASE DiscardRecord(e)
  <2>1. job[e].phase \in {"COPYING", "ABANDONED"}
    BY <1>0, <1>8 DEF DiscardRecord, At, Fits, PhaseFits
  <2>2. job'[e].pc = AfterDiscard(e) /\ job'[e].phase = job[e].phase
    BY <1>0, <1>8, GotoKeeps, AdvanceKeeps DEF DiscardRecord, Kept
  <2>3. QED
    BY <2>1, <2>2 DEF AfterDiscard, Silent
<1>9. CASE DropStaging(e) \/ Finish(e) \/ Crash(e)
  BY <1>0, <1>9, StopIdles DEF DropStaging, Finish, Crash, Silent
<1>10. QED
  BY <1>1, <1>2, <1>3, <1>4, <1>5, <1>6, <1>7, <1>8, <1>9

\* From the read of the copy to the delete of the source.
LEMMA DeletingVouches ==
  ASSUME NEW e \in Engines, IInv, Vouched(job[e]),
         \/ VerifyRead(e) \/ VerifyPass(e) \/ IntendDelete(e)
         \/ DeleteLook(e) \/ ReverifyForDelete(e) \/ GuardSourceDelete(e)
  PROVE  Vouched(job[e])'
<1>0. /\ job \in [Engines -> Jobs] /\ Fits(job[e])
      /\ job[e].pc # "idle" => job[e].n \in MoveIds
  BY DEF IInv, TypeOK, Engaged, Fits
<1>1. CASE VerifyRead(e)
  <2>1. CASE objs[Dst(e)] = "good" /\ Goto(e, "pass")
    <3>1. job'[e].pc = "pass" /\ job'[e].n = job[e].n /\ UNCHANGED <<objs, moves>>
      BY <1>0, <1>1, <2>1, GotoKeeps DEF VerifyRead, Kept
    <3>2. QED
      BY <2>1, <3>1 DEF Vouched, Dst
  <2>2. CASE Goto(e, "abandon") \/ Goto(e, "recopy")
    <3>1. job'[e].pc \in {"abandon", "recopy"}
      BY <1>0, <2>2, GotoKeeps DEF Kept
    <3>2. QED
      BY <3>1 DEF Vouched, Carrying
  <2>3. QED
    BY <1>1, <2>1, <2>2 DEF VerifyRead
<1>2. CASE VerifyPass(e)
  <2>1. /\ job'[e].pc = "phase" /\ job'[e].n = job[e].n /\ UNCHANGED objs
        /\ job'[e].known = job[e].known /\ job'[e].still = job[e].still
    BY <1>0, <1>2, AdvanceKeeps DEF VerifyPass
  <2>2. job[e].pc = "pass" /\ moves'[job[e].n].dst = moves[job[e].n].dst
    BY <1>0, <1>2, AdvanceKeepsEnds DEF VerifyPass, At, IInv
  <2>3. QED
    BY <2>1, <2>2 DEF Vouched, Carrying
<1>3. CASE IntendDelete(e)
  <2>1. /\ job'[e].pc = "phase" /\ job'[e].n = job[e].n /\ UNCHANGED objs
        /\ job'[e].known = job[e].known /\ job'[e].still = job[e].still
    BY <1>0, <1>3, AdvanceKeeps DEF IntendDelete
  <2>2. /\ job[e].pc = "phase" /\ job[e].phase = "VERIFIED"
        /\ moves'[job[e].n].dst = moves[job[e].n].dst
    BY <1>0, <1>3, AdvanceKeepsEnds DEF IntendDelete, AtPhase, At, IInv
  <2>3. QED
    BY <2>1, <2>2 DEF Vouched, Carrying
<1>4. CASE DeleteLook(e)
  <2>1. /\ job'[e].pc = "reverify" /\ job'[e].n = job[e].n /\ UNCHANGED <<objs, moves>>
        /\ job'[e].known = job[e].known /\ job'[e].still = job[e].still
    BY <1>0, <1>4 DEF DeleteLook, Jobs
  <2>2. job[e].pc = "phase" /\ job[e].phase = "SOURCE_DELETE_PENDING"
    BY <1>4 DEF DeleteLook, AtPhase, At
  <2>3. QED
    BY <2>1, <2>2 DEF Vouched, Carrying
<1>5. CASE ReverifyForDelete(e)
  <2>0. /\ job[e].pc = "reverify" /\ job[e].phase = "SOURCE_DELETE_PENDING"
        /\ UNCHANGED <<objs, moves>>
    BY <1>0, <1>5 DEF ReverifyForDelete, At, Fits, PhaseFits
  <2>1. ASSUME ProofHolds(e),
               job' = [job EXCEPT ![e] = [@ EXCEPT !.pc = "guard", !.readable = TRUE, !.known = FALSE]]
        PROVE  Vouched(job[e])'
    <3>1. /\ job'[e].pc = "guard" /\ job'[e].n = job[e].n
          /\ objs[moves[job[e].n].dst] = "good"
      BY <1>0, <2>0, <2>1 DEF ProofHolds, Vouched, Carrying, Jobs
    <3>2. QED
      BY <2>0, <3>1 DEF Vouched, Carrying
  <2>2. ASSUME objs[Dst(e)] = "good",
               job' = [job EXCEPT ![e] = [@ EXCEPT !.pc = "guard", !.readable = TRUE, !.still = TRUE]]
        PROVE  Vouched(job[e])'
    <3>1. job'[e].pc = "guard" /\ job'[e].n = job[e].n
      BY <1>0, <2>2 DEF Jobs
    <3>2. QED
      BY <2>0, <2>2, <3>1 DEF Vouched, Carrying, Dst
  <2>3. ASSUME job' = [job EXCEPT ![e] = [@ EXCEPT !.pc = "recopy"]]
        PROVE  Vouched(job[e])'
    <3>1. job'[e].pc = "recopy"
      BY <1>0, <2>3 DEF Jobs
    <3>2. QED
      BY <3>1 DEF Vouched, Carrying
  <2>4. ASSUME job' = [job EXCEPT ![e] = [@ EXCEPT !.pc = "guard", !.readable = FALSE]]
        PROVE  Vouched(job[e])'
    <3>1. job'[e].pc = "guard" /\ ~job'[e].readable
      BY <1>0, <2>4 DEF Jobs
    <3>2. QED
      BY <3>1 DEF Vouched, Carrying
  <2>5. QED
    BY <1>5, <2>1, <2>2, <2>3, <2>4 DEF ReverifyForDelete
<1>6. CASE GuardSourceDelete(e)
  <2>1. job[e].pc = "guard" /\ UNCHANGED <<objs, moves>>
    BY <1>6 DEF GuardSourceDelete, At
  <2>2. CASE job[e].readable /\ Goto(e, "remove")
    <3>1. /\ job'[e].pc = "remove" /\ job'[e].n = job[e].n /\ job'[e].still = job[e].still
      BY <1>0, <2>2 DEF Goto, Jobs
    <3>2. QED
      BY <2>1, <2>2, <3>1 DEF Vouched, Carrying
  <2>3. CASE Goto(e, "done") \/ Stop(e)
    <3>1. job'[e].pc \in {"done", "idle"}
      BY <1>0, <2>3, GotoKeeps, StopIdles DEF Kept
    <3>2. QED
      BY <3>1 DEF Vouched, Carrying
  <2>4. QED
    BY <1>6, <2>2, <2>3 DEF GuardSourceDelete
<1>7. QED
  BY <1>1, <1>2, <1>3, <1>4, <1>5, <1>6

\* An engine that takes a move in hand is at its phase, and remembers nothing else.
LEMMA CycleTakesUp ==
  ASSUME job \in [Engines -> Jobs], NEW e \in Engines, Cycle(e)
  PROVE  job'[e].pc = "phase" /\ ~job'[e].known
<1>1. ASSUME NEW n \in MoveIds, NEW p,
             job' = [job EXCEPT ![e] = [Idle EXCEPT !.pc = "phase", !.n = n, !.phase = p]]
      PROVE  job'[e].pc = "phase" /\ ~job'[e].known
  <2>1. job'[e] = [Idle EXCEPT !.pc = "phase", !.n = n, !.phase = p]
    BY <1>1
  <2>2. QED
    BY <2>1 DEF Idle
<1>2. ASSUME NEW n \in MoveIds, Resume(e, n)
      PROVE  job' = [job EXCEPT ![e] = [Idle EXCEPT !.pc = "phase", !.n = n, !.phase = moves[n].phase]]
  BY <1>2 DEF Resume
<1>3. ASSUME NEW n \in MoveIds, NEW src \in Mediums, NEW dst \in Mediums, Plan(e, n, src, dst)
      PROVE  job' = [job EXCEPT ![e] = [Idle EXCEPT !.pc = "phase", !.n = n, !.phase = "PLANNED"]]
  BY <1>3 DEF Plan
<1>4. QED
  BY <1>1, <1>2, <1>3 DEF Cycle

LEMMA ReadGoodInductive ==
  ASSUME NEW e, Engines = {e}, IInv, ReadGood, [Next]_vars
  PROVE  ReadGood'
<1>0. /\ e \in Engines /\ job \in [Engines -> Jobs] /\ Fits(job[e]) /\ Vouched(job[e])
      /\ job[e].pc # "idle" => job[e].n \in MoveIds
  BY DEF IInv, TypeOK, Engaged, ReadGood, Fits
<1>1. CASE UNCHANGED vars
  BY <1>1 DEF vars, ReadGood, Vouched, Carrying
<1>2. CASE Step(e)
  BY <1>0, <1>2, CopyingSilent, LeavingSilent, DeletingVouches, SilentAfter DEF Step, ReadGood
<1>3. CASE Cycle(e)
  <2>1. job'[e].pc = "phase" /\ ~job'[e].known
    BY <1>0, <1>3, CycleTakesUp
  <2>2. QED
    BY <2>1 DEF ReadGood, Vouched, Carrying
<1>4. CASE Crash(e)
  BY <1>0, <1>4, LeavingSilent, SilentAfter
<1>5. ASSUME NEW m \in Mediums, Damage(m) PROVE ReadGood'
  <2>1. /\ job'[e].pc = job[e].pc /\ job'[e].n = job[e].n /\ job'[e].phase = job[e].phase
        /\ job'[e].known = job[e].known /\ job'[e].readable = job[e].readable
        /\ job'[e].still => job[e].still /\ (job[e].n # 0 => Dst(e) # m)
    BY <1>0, <1>5, DamageMoves DEF Kept
  <2>2. \A k \in Mediums \ {m} : objs'[k] = objs[k]
    BY <1>5 DEF Damage, IInv, TypeOK
  <2>3. UNCHANGED moves
    BY <1>5 DEF Damage
  <2>4. CASE job[e].pc = "idle"
    BY <2>1, <2>4 DEF ReadGood, Vouched, Carrying
  <2>5. CASE job[e].pc # "idle" /\ job'[e].still
    <3>1. job[e].n \in MoveIds /\ job[e].n # 0
      BY <1>0, <2>5 DEF MoveIds
    <3>2. moves[job[e].n].dst \in Mediums \ {m}
      BY <2>1, <2>5, <3>1 DEF Dst, IInv, TypeOK
    <3>3. objs'[moves[job[e].n].dst] = objs[moves[job[e].n].dst]
      BY <2>2, <3>2
    <3>4. QED
      BY <1>0, <2>1, <2>3, <2>5, <3>3 DEF ReadGood, Vouched, Carrying
  <2>6. CASE ~job'[e].still
    BY <2>6 DEF ReadGood, Vouched
  <2>7. QED
    BY <2>4, <2>5, <2>6
<1>6. CASE World
  BY <1>0, <1>5, <1>6 DEF World, Reclassify, TiersMove, Reconcile, Reinstate, ReadGood, Vouched,
     Carrying
<1>7. QED
  BY <1>0, <1>1, <1>2, <1>3, <1>4, <1>6 DEF Next

\* With one engine, the destination a source is removed against is the artifact itself,
\* unless somebody changed it since the engine last identified or read it.
THEOREM DeletesAgainstGoodHolds ==
  ASSUME NEW d, Engines = {d}
  PROVE  Spec => DeletesAgainstGood
<1>1. Init => IInv /\ ReadGood
  BY InitInv DEF Init, Idle, ReadGood, Vouched, Carrying
<1>2. IInv /\ ReadGood /\ [Next]_vars => IInv' /\ ReadGood'
  BY StepInv, ReadGoodInductive
<1>3. IInv /\ ReadGood /\ [Next]_vars =>
        [\A e \in Engines : RemoveSource(e) /\ job[e].still => objs[Dst(e)] = "good"]_vars
  BY DEF ReadGood, Vouched, RemoveSource, At, Dst
<1>4. Spec => [][\A e \in Engines : RemoveSource(e) /\ job[e].still => objs[Dst(e)] = "good"]_vars
  BY <1>1, <1>2, <1>3, PTL DEF Spec
<1>5. QED
  BY <1>4, Zenon DEF DeletesAgainstGood

-----------------------------------------------------------------------------
(* What the moves keep of the artifact, for one engine and no damage.      *)

\* What the journal lists is good; a copy about to be listed was read and is good; and
\* a destination that was listed before is never found wrong.
ListedIsGood == \A m \in Mediums : place[m].status = "ACTIVE" => objs[m] = "good"
Sure(j) == /\ j.pc = "pass" => objs[moves[j.n].dst] = "good"
           /\ j.pc = "recopy" => j.phase = "VERIFYING"
SafeInv == ListedIsGood /\ \A e \in Engines : Sure(job[e])
LEMMA InitSafe == Init => SafeInv
BY MediumAssumption DEF Init, SafeInv, ListedIsGood, Sure, Idle

\* Elsewhere an engine need not be sure of anything.
LEMMA Unsure ==
  ASSUME NEW e, Engines = {e}, ListedIsGood', job'[e].pc \notin {"pass", "recopy"}
  PROVE  SafeInv'
BY DEF SafeInv, Sure

\* A step of an engine writes no copy the journal lists, and leaves the journal alone
\* where it writes one.
LEMMA WritesUnlisted ==
  ASSUME NEW e, Engines = {e}, "damage" \notin FaultKinds, IInv, Next, objs' # objs
  PROVE  /\ UNCHANGED place /\ job'[e].pc \notin {"pass", "recopy"}
         /\ \E m \in Mediums, c \in Copies : /\ place[m].status # "ACTIVE"
                                             /\ objs' = [objs EXCEPT ![m] = c]
<1>0. /\ e \in Engines /\ job \in [Engines -> Jobs] /\ objs \in [Mediums -> Copies]
      /\ staged \in Copies /\ Fits(job[e])
  BY DEF IInv, TypeOK, Engaged
<1>1. ASSUME job[e].pc \in {"transfer", "send", "discard"}
      PROVE  Dst(e) \in Mediums /\ place[Dst(e)].status # "ACTIVE"
  <2>1. /\ job[e].n \in MoveIds /\ job[e].phase = moves[job[e].n].phase
        /\ job[e].phase \in {"COPYING", "ABANDONED"}
    BY <1>0, <1>1 DEF Fits, PhaseFits
  <2>2. QED
    BY <1>0, <1>1, <2>1 DEF IInv, TypeOK, SourceServes, Early, Fits, Dst
<1>2. ASSUME job[e].pc = "remove"
      PROVE  Src(e) \in Mediums /\ place[Src(e)].status # "ACTIVE"
  <2>1. job[e].n \in MoveIds /\ moves[job[e].n].phase = "SOURCE_DELETE_PENDING"
    BY <1>0, <1>2 DEF Fits, PhaseFits
  <2>2. QED
    BY <2>1 DEF IInv, TypeOK, DestinationServes, Src
<1>3. "none" \in Copies
  BY DEF Copies
<1>4. CASE CopyToMedium(e)
  <2>1. Kept(e, "copied")
    BY <1>0, <1>4, DisturbedKeeps DEF CopyToMedium
  <2>2. QED
    BY <1>1, <1>4, <2>1 DEF CopyToMedium, At, Kept
<1>5. CASE CopyToLocal(e)
  <2>1. job' = [Disturbed(Local) EXCEPT ![e].pc = "copied"]
    BY <1>5 DEF CopyToLocal
  <2>2. Kept(e, "copied")
    BY <1>0, <2>1, DisturbedKeeps
  <2>3. \E c \in Copies : objs' = [objs EXCEPT ![Dst(e)] = c]
    BY <1>5 DEF CopyToLocal
  <2>4. QED
    BY <1>1, <1>5, <2>2, <2>3 DEF CopyToLocal, At, Kept
<1>6. CASE SendStaged(e)
  <2>1. Kept(e, "unstage")
    BY <1>0, <1>6, DisturbedKeeps DEF SendStaged
  <2>2. QED
    BY <1>1, <1>6, <2>1 DEF SendStaged, At, Kept
<1>7. CASE CopyFails(e)
  <2>1. job' = [Disturbed(Dst(e)) EXCEPT ![e] = Idle]
    BY <1>7 DEF CopyFails
  <2>2. job'[e].pc = "idle"
    BY <1>0, <2>1, DisturbedIdles
  <2>3. InFlight(e) # "none" /\ objs' = [objs EXCEPT ![Dst(e)] = InFlight(e)]
    BY <1>7 DEF CopyFails
  <2>4. job[e].pc \in {"transfer", "send"} /\ InFlight(e) \in Copies
    BY <1>0, <2>3, MediumAssumption DEF InFlight, At
  <2>5. QED
    BY <1>1, <1>7, <2>2, <2>3, <2>4 DEF CopyFails
<1>8. CASE RemoveSource(e)
  <2>1. Kept(e, "done")
    BY <1>0, <1>8, DisturbedKeeps DEF RemoveSource
  <2>2. QED
    BY <1>2, <1>3, <1>8, <2>1 DEF RemoveSource, At, Kept
<1>9. CASE RemoveFails(e)
  <2>1. job'[e].pc = "idle"
    BY <1>0, <1>9, DisturbedIdles DEF RemoveFails
  <2>2. QED
    BY <1>2, <1>3, <1>9, <2>1 DEF RemoveFails, At
<1>10. CASE Discard(e)
  <2>1. Kept(e, "discarded")
    BY <1>0, <1>10, DisturbedKeeps DEF Discard
  <2>2. QED
    BY <1>1, <1>3, <1>10, <2>1 DEF Discard, At, Kept
<1>11. CASE DiscardFails(e)
  <2>1. job'[e].pc = "idle"
    BY <1>0, <1>11, DisturbedIdles DEF DiscardFails
  <2>2. QED
    BY <1>1, <1>3, <1>11, <2>1 DEF DiscardFails, At
<1>12. ~\E m \in Mediums : Damage(m)
  BY DEF Damage, Fault
<1>13. QED
  BY <1>4, <1>5, <1>6, <1>7, <1>8, <1>9, <1>10, <1>11, <1>12, StepsOnCopies

\* A step that writes no copy lists no other, but for the one that was verified.
LEMMA ListsVerified ==
  ASSUME NEW e, Engines = {e}, IInv, SafeInv, Next, objs' = objs
  PROVE  ListedIsGood'
<1>0. /\ e \in Engines /\ job \in [Engines -> Jobs] /\ place \in Placements /\ Fits(job[e])
      /\ Sure(job[e]) /\ ListedIsGood
  BY DEF IInv, TypeOK, Engaged, Placements, SafeInv
<1>1. CASE place' = place
  BY <1>0, <1>1 DEF ListedIsGood
<1>2. CASE VerifyPass(e)
  <2>1. \A m \in Mediums : place'[m].status = "ACTIVE" => place[m].status = "ACTIVE" \/ m = Dst(e)
    BY <1>0, <1>2 DEF VerifyPass, AdvanceMove, Placements
  <2>2. QED
    BY <1>0, <1>2, <2>1 DEF VerifyPass, At, Sure, Dst, ListedIsGood
<1>3. ASSUME NEW m \in Mediums, NEW s \in {"DELETE_PENDING", "GONE"}, place' = WithStatus(m, s)
      PROVE  ListedIsGood'
  BY <1>0, <1>3 DEF WithStatus, ListedIsGood, Placements
<1>4. ASSUME job[e].pc \in {"recopy", "abandon"}
      PROVE  Restored(Src(e)) = place
  <2>1. job[e].n \in MoveIds /\ moves[job[e].n].phase \in Early
    BY <1>0, <1>4 DEF Fits, PhaseFits, Sure, Early
  <2>2. QED
    BY <2>1 DEF IInv, SourceServes, Restored, Src
<1>5. CASE Recopy(e)
  <2>1. \A m \in Mediums : place'[m].status = "ACTIVE" => place[m].status = "ACTIVE"
    <3>1. Restored(Src(e)) = place
      BY <1>4, <1>5 DEF Recopy, At
    <3>2. \A m \in Mediums : place'[m] = place[m] \/ place'[m] = [place[m] EXCEPT !.status = "DELETE_PENDING"]
      <4>1. \A m \in Mediums : m = Src(e) => Restored(m) = place
        BY <3>1
      <4>2. place' = [m \in Mediums |->
                        IF m = Src(e) THEN Restored(m)[m]
                        ELSE IF m = Dst(e) /\ place[m].status = "ACTIVE"
                             THEN [place[m] EXCEPT !.status = "DELETE_PENDING"]
                             ELSE place[m]]
        BY <1>5 DEF Recopy, AdvanceMove
      <4>3. QED
        BY <4>1, <4>2
    <3>3. QED
      BY <1>0, <3>2 DEF Placements
  <2>2. QED
    BY <1>0, <2>1 DEF ListedIsGood
<1>6. CASE Abandon(e)
  BY <1>1, <1>4, <1>6 DEF Abandon, AdvanceMove, At
<1>7. ASSUME Step(e), ~VerifyPass(e), ~Recopy(e), ~Abandon(e), place' # place
      PROVE  IntendDelete(e) \/ RecordDone(e) \/ DiscardRecord(e)
  BY <1>7 DEF Step, StartCopy, Ineligible, CopyBegin, CopyToMedium, CopyToLocal, Stage,
     SendStaged, Unstage, CopyFails, CopyRecord, StartVerify, Identify, VerifyRead, DeleteLook,
     ReverifyForDelete, GuardSourceDelete, RemoveSource, RemoveFails, Discard, DiscardFails,
     DropStaging, Finish, AdvanceMove
<1>8. ASSUME job[e].pc # "idle"
      PROVE  Src(e) \in Mediums /\ Dst(e) \in Mediums
  BY <1>0, <1>8 DEF Fits, IInv, TypeOK, Src, Dst
<1>9. CASE IntendDelete(e) \/ RecordDone(e) \/ DiscardRecord(e)
  BY <1>1, <1>3, <1>8, <1>9
     DEF IntendDelete, RecordDone, DiscardRecord, AdvanceMove, AtPhase, At
<1>10. ASSUME Cycle(e) \/ Crash(e) \/ World PROVE place' = place
  BY <1>10 DEF Cycle, Resume, Plan, Crash, World, Damage, Reclassify, TiersMove, Reconcile, Reinstate
<1>11. QED
  BY <1>1, <1>2, <1>5, <1>6, <1>7, <1>9, <1>10 DEF Next

\* A step that writes no copy leaves the engine sure of the one it read.
LEMMA StaysSure ==
  ASSUME NEW e, Engines = {e}, IInv, SafeInv, [Next]_vars, objs' = objs
  PROVE  Sure(job[e])'
<1>0. /\ e \in Engines /\ job \in [Engines -> Jobs] /\ Fits(job[e]) /\ Sure(job[e]) /\ ListedIsGood
  BY DEF IInv, TypeOK, Engaged, SafeInv
<1>1. ASSUME Silent(job'[e]) PROVE Sure(job[e])'
  BY <1>1 DEF Silent, Sure
<1>2. ASSUME UNCHANGED moves, Kept(e, job[e].pc) PROVE Sure(job[e])'
  BY <1>0, <1>2 DEF Kept, Sure
<1>3. CASE VerifyRead(e)
  <2>1. UNCHANGED moves /\ job[e].phase = "VERIFYING"
    BY <1>0, <1>3 DEF VerifyRead, At, Fits, PhaseFits
  <2>2. ASSUME Goto(e, "abandon") PROVE Sure(job[e])'
    BY <1>0, <1>1, <2>2, GotoKeeps, KeptSilent
  <2>3. ASSUME Goto(e, "recopy") PROVE Sure(job[e])'
    <3>1. Kept(e, "recopy")
      BY <1>0, <2>3, GotoKeeps
    <3>2. QED
      BY <2>1, <3>1 DEF Kept, Sure
  <2>4. ASSUME Goto(e, "pass"), objs[Dst(e)] = "good" PROVE Sure(job[e])'
    <3>1. Kept(e, "pass")
      BY <1>0, <2>4, GotoKeeps
    <3>2. QED
      BY <2>1, <2>4, <3>1 DEF Kept, Sure, Dst
  <2>5. QED
    BY <1>3, <2>2, <2>3, <2>4 DEF VerifyRead
<1>4. CASE ReverifyForDelete(e)
  <2>1. /\ UNCHANGED moves
        /\ job[e].n \in MoveIds /\ moves[job[e].n].phase = "SOURCE_DELETE_PENDING"
    BY <1>0, <1>4 DEF ReverifyForDelete, At, Fits, PhaseFits
  <2>2. objs[Dst(e)] = "good"
    BY <1>0, <2>1 DEF IInv, TypeOK, DestinationServes, Dst, ListedIsGood
  <2>3. \/ job' = [job EXCEPT ![e] = [@ EXCEPT !.pc = "guard", !.readable = TRUE, !.known = FALSE]]
        \/ job' = [job EXCEPT ![e] = [@ EXCEPT !.pc = "guard", !.readable = TRUE, !.still = TRUE]]
        \/ job' = [job EXCEPT ![e] = [@ EXCEPT !.pc = "guard", !.readable = FALSE]]
    BY <1>4, <2>2 DEF ReverifyForDelete
  <2>4. job'[e].pc = "guard"
    BY <1>0, <2>3 DEF Jobs
  <2>5. QED
    BY <2>4 DEF Sure
<1>5. CASE VerifyPass(e) \/ IntendDelete(e)
  <2>1. job'[e].pc = "phase"
    BY <1>0, <1>5, AdvanceKeeps DEF VerifyPass, IntendDelete
  <2>2. QED
    BY <2>1 DEF Sure
<1>6. CASE DeleteLook(e)
  <2>1. job'[e].pc = "reverify"
    BY <1>0, <1>6 DEF DeleteLook, Jobs
  <2>2. QED
    BY <2>1 DEF Sure
<1>7. CASE GuardSourceDelete(e)
  <2>1. job'[e].pc \in {"done", "remove", "idle"}
    BY <1>0, <1>7, GotoKeeps, StopIdles DEF GuardSourceDelete, Kept
  <2>2. QED
    BY <2>1 DEF Sure
<1>8. CASE Cycle(e)
  <2>1. job'[e].pc = "phase"
    BY <1>0, <1>8, CycleTakesUp
  <2>2. QED
    BY <2>1 DEF Sure
<1>9. CASE Step(e)
  BY <1>0, <1>1, <1>3, <1>4, <1>5, <1>6, <1>7, <1>9, CopyingSilent, LeavingSilent DEF Step
<1>10. CASE Crash(e)
  BY <1>0, <1>1, <1>10, LeavingSilent
<1>11. CASE World
  <2>1. ASSUME NEW m \in Mediums, Damage(m) PROVE Sure(job[e])'
    BY <1>0, <1>2, <2>1, DamageMoves DEF Damage
  <2>2. ASSUME UNCHANGED <<moves, job>> PROVE Sure(job[e])'
    BY <1>0, <2>2 DEF Sure
  <2>3. QED
    BY <1>11, <2>1, <2>2 DEF World, Reclassify, TiersMove, Reconcile, Reinstate
<1>12. CASE UNCHANGED vars
  BY <1>0, <1>12 DEF vars, Sure
<1>13. QED
  BY <1>8, <1>9, <1>10, <1>11, <1>12 DEF Next

LEMMA SafeInductive ==
  ASSUME NEW e, Engines = {e}, "damage" \notin FaultKinds, IInv, SafeInv, [Next]_vars
  PROVE  SafeInv'
<1>1. CASE objs' = objs
  <2>1. ListedIsGood'
    BY <1>1, ListsVerified DEF vars, ListedIsGood, SafeInv
  <2>2. Sure(job[e])'
    BY <1>1, StaysSure
  <2>3. QED
    BY <2>1, <2>2 DEF SafeInv
<1>2. CASE objs' # objs
  <2>1. Next
    BY <1>2 DEF vars
  <2>2. PICK m \in Mediums, c \in Copies : /\ place[m].status # "ACTIVE"
                                           /\ objs' = [objs EXCEPT ![m] = c]
    BY <1>2, <2>1, WritesUnlisted
  <2>3. place' = place /\ job'[e].pc \notin {"pass", "recopy"}
    BY <1>2, <2>1, WritesUnlisted
  <2>4. ListedIsGood'
    BY <2>2, <2>3 DEF SafeInv, ListedIsGood, IInv, TypeOK
  <2>5. QED
    BY <2>3, <2>4, Unsure
<1>3. QED
  BY <1>1, <1>2

\* One copy changing, while there is another good one, is a step of the abstract
\* specification.
LEMMA OneCopyChanges ==
  ASSUME objs \in [Mediums -> Copies], NEW m \in Mediums, NEW c \in Copies,
         objs' = [objs EXCEPT ![m] = c], NEW k \in Mediums \ {m}, objs[k] = "good"
  PROVE  Keeping!Next
<1> DEFINE held == {x \in Mediums : objs[x] = "good"}
<1>1. \A x \in Mediums : objs'[x] = IF x = m THEN c ELSE objs[x]
  OBVIOUS
<1>2. CASE c = "good"
  <2>1. held # {} /\ held' = held \cup {m}
    BY <1>1, <1>2
  <2>2. QED
    BY <2>1 DEF Keeping!Next, Keeping!Make
<1>3. CASE c # "good"
  <2>1. held \ {m} # {} /\ held' = held \ {m}
    BY <1>1, <1>3
  <2>2. QED
    BY <2>1 DEF Keeping!Next, Keeping!GiveUp
<1>4. QED
  BY <1>2, <1>3

LEMMA StepKeeps ==
  ASSUME NEW e, Engines = {e}, "damage" \notin FaultKinds, IInv, SafeInv, [Next]_vars
  PROVE  [Keeping!Next]_{m \in Mediums : objs[m] = "good"}
<1>1. CASE objs' = objs
  BY <1>1
<1>2. CASE objs' # objs
  <2>1. PICK m \in Mediums, c \in Copies : /\ place[m].status # "ACTIVE"
                                           /\ objs' = [objs EXCEPT ![m] = c]
    BY <1>2, WritesUnlisted DEF vars
  <2>2. PICK k \in Mediums \ {m} : objs[k] = "good"
    BY <2>1 DEF IInv, SomeActive, SafeInv, ListedIsGood
  <2>3. QED
    BY <2>1, <2>2, OneCopyChanges DEF IInv, TypeOK
<1>3. QED
  BY <1>1, <1>2

\* With one engine and nobody else at the copies, no order of planning, copying,
\* verifying, giving up and starting again removes the last good copy of the artifact:
\* the engine implements Safekeeping, over crashes, failed calls and bad copies.
THEOREM MovesKeepSafe ==
  ASSUME NEW e, Engines = {e}, "damage" \notin FaultKinds
  PROVE  Spec => KeepsSafe
<1>1. Init => IInv /\ SafeInv
  BY InitInv, InitSafe
<1>2. IInv /\ SafeInv /\ [Next]_vars => IInv' /\ SafeInv'
  BY StepInv, SafeInductive
<1>3. Init => Keeping!Init
  <2>1. Init => Local \in Mediums /\ {m \in Mediums : objs[m] = "good"} = {Local}
    BY MediumAssumption DEF Init
  <2>2. QED
    BY <2>1 DEF Keeping!Init
<1>4. IInv /\ SafeInv /\ [Next]_vars => [Keeping!Next]_{m \in Mediums : objs[m] = "good"}
  BY StepKeeps
<1>5. QED
  BY <1>1, <1>2, <1>3, <1>4, PTL DEF Spec, KeepsSafe, Keeping!Spec
=============================================================================
