----------------------- MODULE RepositoryMaintenance -----------------------
(***************************************************************************)
(* Maintenance of one repository by the instances that may own it, as      *)
(* internal/repomaintenance has it: run.go and schedule.go over the fence  *)
(* of fence.go and the record store of maintenanceowner.go.                *)
(*                                                                         *)
(* A pass is a goroutine of an instance.  It deletes a snapshot under the  *)
(* shared side of the instance's fence, or runs a maintenance window:      *)
(* lease, claim, decision, fence, maintenance, record.  An administrator   *)
(* moves the ownership from one instance to another.  Instances have a     *)
(* fence each and share the directory of the record.                       *)
(*                                                                         *)
(* Time is a clock of few ticks; 0 is the zero time.  Left out: the        *)
(* measurements around a full window, the history and the counters of the  *)
(* record, which repeat what its times say.                                *)
(***************************************************************************)
EXTENDS MaintenanceFence, OwnershipStore

CONSTANTS
  Deleters,   \* the passes that delete snapshots
  Admins,     \* administrators with a transfer to make
  Quick,      \* the interval between quick maintenances, in ticks
  Full,       \* the interval between full maintenances
  Retry,      \* the wait after a window that failed
  MaxTime,    \* bound on the clock
  MaxWindows, \* bound on the windows a behaviour begins
  MaxMoves,   \* bound on the transfers of a behaviour
  MaxCrashes  \* bound on the instances that die

ASSUME MaintenanceAssumption ==
  /\ Writers = Clients \cup Admins /\ Clients \cap Admins = {}
  /\ Owners = Gates /\ Deleters \subseteq Clients
  /\ Quick \in Nat \ {0} /\ Full \in Nat \ {0} /\ Retry \in Nat \ {0}
  /\ MaxTime \in Nat \ {0} /\ MaxWindows \in Nat /\ MaxMoves \in Nat /\ MaxCrashes \in Nat

VARIABLES
  job,      \* what each pass does, and what it holds
  move,     \* what each administrator does
  clock,    \* the time
  windows,  \* windows begun so far
  moves,    \* transfers begun so far
  handed,   \* transfers that were published so far
  crashes   \* instances that died so far

bounds == <<clock, windows, moves, crashes>>
vars == <<fenceVars, storeVars, job, move, bounds, handed>>

Modes == {"quick", "full"}
Idle == [pc |-> "idle", mode |-> "none", due |-> FALSE, now |-> 0, rec |-> NoFile, rev |-> 0,
         handed |-> 0]
Still == [pc |-> "idle", from |-> NoFile, to |-> NoFile]

Init ==
  /\ FenceInit /\ StoreInit
  /\ job = [p \in Clients |-> Idle]
  /\ move = [a \in Admins |-> Still]
  /\ clock = 1
  /\ windows = 0 /\ moves = 0 /\ handed = 0 /\ crashes = 0

At(p, pc) == job[p].pc = pc
Goto(p, pc) == job' = [job EXCEPT ![p].pc = pc]
Stop(p) == job' = [job EXCEPT ![p] = Idle]

-----------------------------------------------------------------------------
(* Deciding, and what a window writes.                                     *)

IsDue(last, every, now) == last = 0 \/ now >= last + every

\* Due: the mode that is due, or none.
Due(rec, now) ==
  IF rec.nextEligible # 0 /\ now < rec.nextEligible THEN "none"
  ELSE IF IsDue(rec.lastFull, Full, now) THEN "full"
  ELSE IF IsDue(rec.lastQuick, Quick, now) THEN "quick" ELSE "none"

\* record: fold the outcome of a window into the record it was decided from.
Folded(rec, mode, now, succeeded) ==
  IF ~succeeded THEN [rec EXCEPT !.nextEligible = now + Retry]
  ELSE [rec EXCEPT !.lastQuick = now,
                   !.lastFull = IF mode = "full" THEN now ELSE @,
                   !.nextEligible = now + Quick]

Unclaimed(o) == [owner |-> o, lastQuick |-> 0, lastFull |-> 0, nextEligible |-> 0]

-----------------------------------------------------------------------------
(* A pass that deletes a snapshot.                                         *)

\* guarded.DeleteSnapshot: the shared side around the deletion.
StartDelete(p) ==
  /\ At(p, "idle") /\ p \in Deleters
  /\ Acquire(p, FALSE)
  /\ Goto(p, "delete")
  /\ UNCHANGED <<storeVars, move, bounds, handed>>

FinishDelete(p) ==
  /\ At(p, "delete")
  /\ Release(p)
  /\ Stop(p)
  /\ UNCHANGED <<storeVars, move, bounds, handed>>

-----------------------------------------------------------------------------
(* A pass that runs a maintenance window.                                  *)

\* Run, with its mode, or RunDue: ask for the lease.
StartWindow(p) ==
  /\ At(p, "idle") /\ windows < MaxWindows
  /\ Ask(p)
  /\ \E due \in BOOLEAN, mode \in Modes :
       /\ due => mode = "full"
       /\ job' = [job EXCEPT ![p] = [Idle EXCEPT !.pc = "lease", !.mode = mode, !.due = due,
                                                 !.now = clock]]
  /\ windows' = windows + 1
  /\ UNCHANGED <<storeVars, move, clock, moves, crashes, handed>>

WaitForLease(p) ==
  /\ At(p, "lease")
  /\ \/ Wait(p) /\ UNCHANGED job
     \/ StopWaiting(p) /\ Stop(p)
  /\ UNCHANGED <<storeVars, move, bounds, handed>>

\* Claim begins: read the record.
StartClaim(p) ==
  /\ At(p, "lease")
  /\ TakeToken(p)
  /\ BeginLoad(p)
  /\ job' = [job EXCEPT ![p].pc = "claim", ![p].handed = handed]
  /\ UNCHANGED <<move, bounds, handed>>

\* The claim is this instance's.  Decide, and take the side of the fence the mode
\* needs; the record is held in memory until the window is recorded.
Proceed(p) ==
  LET mode == IF job[p].due THEN Due(call[p].rec, job[p].now) ELSE job[p].mode IN
  /\ \/ mode = "none" /\ Goto(p, "end") /\ UNCHANGED fenceVars
     \/ /\ mode # "none"
        /\ Acquire(p, mode = "full")
        /\ job' = [job EXCEPT ![p].pc = "window", ![p].mode = mode,
                              ![p].rec = call[p].rec, ![p].rev = call[p].rev]
  /\ TakeAnswer(p)
Refused(p) == Goto(p, "end") /\ TakeAnswer(p) /\ UNCHANGED fenceVars

\* Claim, after the read: a record of another instance is refused (mine), and a
\* repository that was never claimed is.
ClaimAnswer(p) ==
  /\ At(p, "claim")
  /\ \/ Answered(p, "ok") /\ call[p].rec.owner = GateOf[p] /\ Proceed(p)
     \/ Answered(p, "ok") /\ call[p].rec.owner # GateOf[p] /\ Refused(p)
     \/ Answered(p, "absent") /\ BeginCreate(p, Unclaimed(GateOf[p]))
        /\ Goto(p, "create") /\ UNCHANGED fenceVars
     \/ Answered(p, "failed") /\ Refused(p)
  /\ UNCHANGED <<move, bounds, handed>>

\* Who lost the race to claim it reads the winner's claim.
CreateAnswer(p) ==
  /\ At(p, "create")
  /\ \/ Answered(p, "ok") /\ Proceed(p)
     \/ Answered(p, "exists") /\ BeginLoad(p) /\ Goto(p, "reclaim") /\ UNCHANGED fenceVars
     \/ Answered(p, "failed") /\ Refused(p)
  /\ UNCHANGED <<move, bounds, handed>>
ReclaimAnswer(p) ==
  /\ At(p, "reclaim")
  /\ \/ Answered(p, "ok") /\ call[p].rec.owner = GateOf[p] /\ Proceed(p)
     \/ Answered(p, "ok") /\ call[p].rec.owner # GateOf[p] /\ Refused(p)
     \/ call[p].at \in {"absent", "failed"} /\ Refused(p)
  /\ UNCHANGED <<move, bounds, handed>>

\* The maintenance itself is the stay inside; when it is over its outcome is
\* recorded, whatever it was.
Maintained(p) ==
  /\ At(p, "window") /\ spot[p] = "inside"
  /\ \E succeeded \in BOOLEAN :
       BeginSwap(p, Folded(job[p].rec, job[p].mode, job[p].now, succeeded), job[p].rev)
  /\ Goto(p, "record")
  /\ UNCHANGED <<fenceVars, move, bounds, handed>>

\* Recorded or not, the window is over: the fence, then the lease.
RecordAnswer(p) ==
  /\ At(p, "record") /\ call[p].at \in Answers
  /\ TakeAnswer(p) /\ Release(p)
  /\ Goto(p, "end")
  /\ UNCHANGED <<move, bounds, handed>>
EndWindow(p) ==
  /\ At(p, "end")
  /\ \/ ReturnToken(p) /\ UNCHANGED job
     \/ CountOut(p) /\ Stop(p)
  /\ UNCHANGED <<storeVars, move, bounds, handed>>

\* What a pass does at the fence while it waits there.  Who was cancelled goes
\* back with an error.
AtFence(p) ==
  /\ \/ Enter(p) /\ UNCHANGED job
     \/ Leave(p) /\ (IF At(p, "window") THEN Goto(p, "end") ELSE Stop(p))
  /\ UNCHANGED <<storeVars, move, bounds, handed>>
Cancel(p) == GiveUp(p) /\ UNCHANGED <<storeVars, job, move, bounds, handed>>

-----------------------------------------------------------------------------
(* An administrator, the store, and the world.                             *)

\* Transfer: read the record, compare its owner, swap it.
StartTransfer(a) ==
  /\ move[a].pc = "idle" /\ moves < MaxMoves
  /\ BeginLoad(a)
  /\ \E from \in Owners : \E to \in Owners \ {from} :
       move' = [move EXCEPT ![a] = [pc |-> "look", from |-> from, to |-> to]]
  /\ moves' = moves + 1
  /\ UNCHANGED <<fenceVars, job, clock, windows, crashes, handed>>

\* Mutated: the new owner starts with a record of its own.
TransferLookForgets(a) ==
  /\ move[a].pc = "look" /\ call[a].at \in Answers
  /\ IF Answered(a, "ok") /\ call[a].rec.owner = move[a].from
     THEN /\ BeginSwap(a, Unclaimed(move[a].to), call[a].rev)
          /\ move' = [move EXCEPT ![a].pc = "move"]
     ELSE TakeAnswer(a) /\ move' = [move EXCEPT ![a] = Still]
  /\ UNCHANGED <<fenceVars, job, bounds, handed>>

TransferLook(a) ==
  /\ move[a].pc = "look" /\ call[a].at \in Answers
  /\ IF Answered(a, "ok") /\ call[a].rec.owner = move[a].from
     THEN /\ BeginSwap(a, [call[a].rec EXCEPT !.owner = move[a].to, !.nextEligible = 0],
                       call[a].rev)
          /\ move' = [move EXCEPT ![a].pc = "move"]
     ELSE TakeAnswer(a) /\ move' = [move EXCEPT ![a] = Still]
  /\ UNCHANGED <<fenceVars, job, bounds, handed>>

TransferAnswer(a) ==
  /\ move[a].pc = "move" /\ call[a].at \in Answers
  /\ TakeAnswer(a)
  /\ move' = [move EXCEPT ![a] = Still]
  /\ UNCHANGED <<fenceVars, job, bounds, handed>>

\* A published transfer is counted, for the properties.
InStore(w) ==
  /\ StoreStep(w)
  /\ handed' = IF w \in Admins /\ call[w].at = "link" /\ call'[w].at = "forget"
               THEN handed + 1 ELSE handed
  /\ UNCHANGED <<fenceVars, job, move, bounds>>

Tick ==
  /\ clock < MaxTime
  /\ clock' = clock + 1
  /\ UNCHANGED <<fenceVars, storeVars, job, move, windows, moves, crashes, handed>>

\* An instance dies and is started again: the record is what it finds.
Crash(g) ==
  /\ crashes < MaxCrashes
  /\ crashes' = crashes + 1
  /\ FenceLost(g)
  /\ job' = [p \in Clients |-> IF GateOf[p] = g THEN Idle ELSE job[p]]
  /\ call' = [w \in Writers |-> IF w \in Clients /\ GateOf[w] = g THEN Unasked ELSE call[w]]
  /\ UNCHANGED <<files, errors, move, clock, windows, moves, handed>>

-----------------------------------------------------------------------------

\* What a pass does once it has begun.
PassStep(p) ==
  \/ FinishDelete(p)
  \/ WaitForLease(p) \/ StartClaim(p)
  \/ ClaimAnswer(p) \/ CreateAnswer(p) \/ ReclaimAnswer(p)
  \/ Maintained(p) \/ RecordAnswer(p) \/ EndWindow(p)
  \/ AtFence(p) \/ InStore(p)

AdminStep(a) == TransferLook(a) \/ TransferAnswer(a) \/ InStore(a)

Next ==
  \/ \E p \in Clients : PassStep(p) \/ StartDelete(p) \/ StartWindow(p) \/ Cancel(p)
  \/ \E a \in Admins : AdminStep(a) \/ StartTransfer(a)
  \/ \E g \in Gates : Crash(g)
  \/ Tick

Spec == Init /\ [][Next]_vars

\* A pass that began goes on: every call it makes ends, if only in an error, and
\* a deletion or a maintenance ends too.
FairSpec == Spec /\ \A p \in Clients : WF_vars(PassStep(p))

-----------------------------------------------------------------------------
(* What maintenance promises.                                              *)

\* Every variable has the values the actions mean it to have.
TypeOK ==
  /\ FenceTypeOK /\ StoreTypeOK
  /\ job \in [Clients ->
       [pc : {"idle", "delete", "lease", "claim", "create", "reclaim", "window", "record", "end"},
        mode : Modes \cup {"none"}, due : BOOLEAN, now : 0 .. MaxTime,
        rec : Records \cup {NoFile}, rev : 0 .. MaxRevision, handed : 0 .. MaxMoves]]
  /\ move \in [Admins -> [pc : {"idle", "look", "move"},
                          from : Owners \cup {NoFile}, to : Owners \cup {NoFile}]]
  /\ clock \in 1 .. MaxTime
  /\ windows \in 0 .. MaxWindows /\ moves \in 0 .. MaxMoves
  /\ handed \in 0 .. moves /\ crashes \in 0 .. MaxCrashes

\* The record that is loaded is one record: every publication that a reader sees
\* continues the record before it, although a window holds what it read for as
\* long as its maintenance takes and no lock is held meanwhile (run.go, window
\* and Transfer; maintenanceowner.go, CompareAndSwap).
Record == INSTANCE OwnedRecord WITH
  record <- Stored, Nobody <- NoFile, Times <- 1 .. MaxTime
KeepsOneRecord == Record!Spec

\* A scheduled window that is inside the repository carries out what is still
\* due, unless the repository was handed over since: two passes that both found
\* a full maintenance due do not run it twice (run.go, RunDue).
StillDue ==
  \A p \in Clients :
    At(p, "window") /\ spot[p] = "inside" /\ job[p].due
    => handed > job[p].handed \/ Due(Stored, job[p].now) = job[p].mode

=============================================================================
