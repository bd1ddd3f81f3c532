-------------------------- MODULE MaintenanceFence --------------------------
(***************************************************************************)
(* The fence around one repository, as internal/repomaintenance/fence.go   *)
(* has it.  A gate is the exclusion of one repository in one process: many *)
(* deletions may be inside together, a full maintenance is alone.  Who     *)
(* cannot be let in waits in one queue, so that a full maintenance is not  *)
(* overtaken for ever.  Beside the gate there is the lease, a single token *)
(* that makes a maintenance window (decide, maintain, record) one at a     *)
(* time.                                                                   *)
(*                                                                         *)
(* The gate's fields are guarded by one mutex: what is done under it is    *)
(* one action.  A client that waits may be cancelled at any moment, also   *)
(* while it is being let in.                                               *)
(*                                                                         *)
(* A gate with nobody in it and nobody waiting has the value of a new one, *)
(* so forgetting it changes nothing.  A lease is an object with an         *)
(* identity, because a forgotten lease that somebody still waits for would *)
(* be a second one: it is named after the client that made it.             *)
(*                                                                         *)
(* A definition marked "Mutated:" is not part of the model.  It is the     *)
(* definition after it with one slip in it, which a property has to catch. *)
(***************************************************************************)
EXTENDS Integers, Sequences, FiniteSets

CONSTANTS
  Gates,    \* one per process: its gate and its lease for the repository
  Clients,  \* the goroutines that ask to be let in
  GateOf,   \* the process each client runs in
  NoLease   \* the process has no lease object for the repository

ASSUME ClientAssumption ==
  /\ IsFiniteSet(Clients)
  /\ GateOf \in [Clients -> Gates]
  /\ NoLease \notin Clients

VARIABLES
  gates,    \* who is inside each gate, as the gate counts them, and its queue
  granted,  \* the clients whose waiter was granted its section
  spot,     \* where each client is with respect to its gate
  side,     \* the side each client asked for last
  runs,     \* the lease object of each process
  lease,    \* the lease objects: is the token taken, how many want or hold it
  using,    \* the lease object each client works with
  turn      \* where each client is with respect to the lease

gateVars == <<gates, granted, spot, side>>
leaseVars == <<runs, lease, using, turn>>
fenceVars == <<gates, granted, spot, side, runs, lease, using, turn>>

Open == [shared |-> 0, exclusive |-> FALSE, waiters |-> <<>>]
Waiter(c, exclusive) == [client |-> c, exclusive |-> exclusive]
NewLease == [token |-> FALSE, waiting |-> 0]

FenceInit ==
  /\ gates = [g \in Gates |-> Open]
  /\ granted = {}
  /\ spot = [c \in Clients |-> "outside"]
  /\ side = [c \in Clients |-> "shared"]
  /\ runs = [g \in Gates |-> NoLease]
  /\ lease = [c \in Clients |-> NewLease]
  /\ using = [c \in Clients |-> NoLease]
  /\ turn = [c \in Clients |-> "outside"]

-----------------------------------------------------------------------------
(* The gate.                                                               *)

\* Mutated: whoever fits is let in, wherever he stands in the queue.
AdmittedOutOfTurn(gt) ==
  IF gt.exclusive THEN {}
  ELSE LET Shared == {i \in DOMAIN gt.waiters : ~gt.waiters[i].exclusive}
       IN IF Shared # {} THEN Shared
          ELSE IF gt.waiters = <<>> \/ gt.shared > 0 THEN {} ELSE {1}

\* Mutated: an exclusive request at the head does not look for shared holders.
AdmittedOverShared(gt) ==
  IF gt.exclusive \/ gt.waiters = <<>> THEN {}
  ELSE IF gt.waiters[1].exclusive THEN {1}
  ELSE {i \in DOMAIN gt.waiters : \A j \in 1 .. i : ~gt.waiters[j].exclusive}

\* The places in the queue of a gate that dispatch grants: as much of its head
\* as the gate allows.
Admitted(gt) ==
  {i \in DOMAIN gt.waiters :
     /\ ~gt.exclusive
     /\ \/ \A j \in 1 .. i : ~gt.waiters[j].exclusive
        \/ i = 1 /\ gt.shared = 0}

\* The gate after dispatch, and the clients it let in.
Settled(gt) ==
  LET in == Admitted(gt) IN
  [shared |-> gt.shared + Cardinality({i \in in : ~gt.waiters[i].exclusive}),
   exclusive |-> gt.exclusive \/ \E i \in in : gt.waiters[i].exclusive,
   waiters |-> SubSeq(gt.waiters, Cardinality(in) + 1, Len(gt.waiters))]
LetIn(gt) == {gt.waiters[i].client : i \in Admitted(gt)}

\* acquire: join the queue and dispatch; go straight in when that was enough.
Acquire(c, exclusive) ==
  LET g == GateOf[c]
      gt == [gates[g] EXCEPT !.waiters = Append(@, Waiter(c, exclusive))]
  IN /\ spot[c] = "outside"
     /\ gates' = [gates EXCEPT ![g] = Settled(gt)]
     /\ granted' = granted \cup LetIn(gt)
     /\ side' = [side EXCEPT ![c] = IF exclusive THEN "exclusive" ELSE "shared"]
     /\ spot' = [spot EXCEPT ![c] = IF c \in LetIn(gt) THEN "inside" ELSE "queued"]
     /\ UNCHANGED leaseVars

\* A waiting client sees that it was granted.
Enter(c) ==
  /\ spot[c] = "queued" /\ c \in granted
  /\ spot' = [spot EXCEPT ![c] = "inside"]
  /\ UNCHANGED <<gates, granted, side, leaseVars>>

\* A waiting client sees that it was cancelled; it may have been granted too.
GiveUp(c) ==
  /\ spot[c] = "queued"
  /\ spot' = [spot EXCEPT ![c] = "leaving"]
  /\ UNCHANGED <<gates, granted, side, leaseVars>>

\* The release of a section: give it back and dispatch.
HandBack(c) ==
  LET g == GateOf[c]
      gt == IF side[c] = "exclusive"
            THEN [gates[g] EXCEPT !.exclusive = FALSE]
            ELSE [gates[g] EXCEPT !.shared = IF @ > 0 THEN @ - 1 ELSE @]
  IN /\ gates' = [gates EXCEPT ![g] = Settled(gt)]
     /\ granted' = (granted \ {c}) \cup LetIn(gt)
     /\ spot' = [spot EXCEPT ![c] = "outside"]
     /\ UNCHANGED <<side, leaseVars>>

Release(c) == spot[c] = "inside" /\ HandBack(c)

\* The queue q without its i-th waiter.
Without(q, i) == [j \in 1 .. Len(q) - 1 |-> IF j < i THEN q[j] ELSE q[j + 1]]

\* Mutated: who leaves the queue does not dispatch.
LeaveSilently(c) ==
  LET g == GateOf[c] IN
  /\ spot[c] = "leaving"
  /\ \/ c \in granted /\ HandBack(c)
     \/ /\ c \notin granted
        /\ \E i \in DOMAIN gates[g].waiters :
             /\ gates[g].waiters[i].client = c
             /\ gates' = [gates EXCEPT ![g].waiters = Without(@, i)]
        /\ spot' = [spot EXCEPT ![c] = "outside"]
        /\ UNCHANGED <<granted, side, leaseVars>>

\* The cancelled client takes the mutex: a section granted meanwhile is given
\* back, otherwise it leaves the queue, which may let in who stood behind it.
Leave(c) ==
  LET g == GateOf[c] IN
  /\ spot[c] = "leaving"
  /\ \/ c \in granted /\ HandBack(c)
     \/ /\ c \notin granted
        /\ \E i \in DOMAIN gates[g].waiters :
             LET gt == [gates[g] EXCEPT !.waiters = Without(@, i)] IN
             /\ gates[g].waiters[i].client = c
             /\ gates' = [gates EXCEPT ![g] = Settled(gt)]
             /\ granted' = granted \cup LetIn(gt)
        /\ spot' = [spot EXCEPT ![c] = "outside"]
        /\ UNCHANGED <<side, leaseVars>>

-----------------------------------------------------------------------------
(* The lease.                                                              *)

\* SerialiseMaintenance: find or make the lease and be counted at it.
Ask(c) ==
  LET g == GateOf[c]
      l == IF runs[g] = NoLease THEN c ELSE runs[g]
      old == IF runs[g] = NoLease THEN NewLease ELSE lease[l]
  IN /\ turn[c] = "outside"
     /\ runs' = [runs EXCEPT ![g] = l]
     /\ lease' = [lease EXCEPT ![l] = [old EXCEPT !.waiting = @ + 1]]
     /\ using' = [using EXCEPT ![c] = l]
     /\ turn' = [turn EXCEPT ![c] = "asking"]
     /\ UNCHANGED gateVars

\* Mutated: a client that waited takes the token without looking.
TakeTokenTwice(c) ==
  /\ turn[c] \in {"asking", "waiting"} /\ (turn[c] = "asking" => ~lease[using[c]].token)
  /\ lease' = [lease EXCEPT ![using[c]].token = TRUE]
  /\ turn' = [turn EXCEPT ![c] = "holding"]
  /\ UNCHANGED <<runs, using, gateVars>>

\* The token is free.
TakeToken(c) ==
  /\ turn[c] \in {"asking", "waiting"} /\ ~lease[using[c]].token
  /\ lease' = [lease EXCEPT ![using[c]].token = TRUE]
  /\ turn' = [turn EXCEPT ![c] = "holding"]
  /\ UNCHANGED <<runs, using, gateVars>>

\* It is not: from here on a cancellation is listened to.
Wait(c) ==
  /\ turn[c] = "asking" /\ lease[using[c]].token
  /\ turn' = [turn EXCEPT ![c] = "waiting"]
  /\ UNCHANGED <<runs, lease, using, gateVars>>

\* Be counted out, and forget a lease nobody holds or wants.
Forget(c) ==
  LET l == using[c]
      left == [lease[l] EXCEPT !.waiting = @ - 1]
  IN /\ lease' = [lease EXCEPT ![l] = left]
     /\ runs' = IF left.waiting = 0 /\ ~left.token
                THEN [runs EXCEPT ![GateOf[c]] = NoLease] ELSE runs
     /\ using' = [using EXCEPT ![c] = NoLease]
     /\ turn' = [turn EXCEPT ![c] = "outside"]
     /\ UNCHANGED gateVars

\* A cancelled client stops waiting for the token.
StopWaiting(c) == turn[c] = "waiting" /\ Forget(c)

\* Mutated: the token is given back and the client counted out, and then again.
ReturnTokenCounted(c) ==
  /\ turn[c] = "holding"
  /\ lease' = [lease EXCEPT ![using[c]] = [token |-> FALSE, waiting |-> @.waiting - 1]]
  /\ turn' = [turn EXCEPT ![c] = "returning"]
  /\ UNCHANGED <<runs, using, gateVars>>

\* The release: first the token, then, under the mutex, the count.
ReturnToken(c) ==
  /\ turn[c] = "holding"
  /\ lease' = [lease EXCEPT ![using[c]].token = FALSE]
  /\ turn' = [turn EXCEPT ![c] = "returning"]
  /\ UNCHANGED <<runs, using, gateVars>>
CountOut(c) == turn[c] = "returning" /\ Forget(c)

\* The process of a gate dies: what it kept in memory is gone.
FenceLost(g) ==
  LET gone == {c \in Clients : GateOf[c] = g} IN
  /\ gates' = [gates EXCEPT ![g] = Open]
  /\ granted' = granted \ gone
  /\ spot' = [c \in Clients |-> IF c \in gone THEN "outside" ELSE spot[c]]
  /\ runs' = [runs EXCEPT ![g] = NoLease]
  /\ lease' = [c \in Clients |-> IF c \in gone THEN NewLease ELSE lease[c]]
  /\ using' = [c \in Clients |-> IF c \in gone THEN NoLease ELSE using[c]]
  /\ turn' = [c \in Clients |-> IF c \in gone THEN "outside" ELSE turn[c]]
  /\ UNCHANGED side

-----------------------------------------------------------------------------
(* The fence with clients that do anything.                                *)

GateStep(c) ==
  \/ \E exclusive \in BOOLEAN : Acquire(c, exclusive)
  \/ Enter(c) \/ GiveUp(c) \/ Leave(c) \/ Release(c)
LeaseStep(c) ==
  \/ Ask(c) \/ TakeToken(c) \/ Wait(c) \/ StopWaiting(c)
  \/ ReturnToken(c) \/ CountOut(c)

FenceNext ==
  \/ \E c \in Clients : GateStep(c) \/ LeaseStep(c)
  \/ \E g \in Gates : FenceLost(g)

FenceSpec == FenceInit /\ [][FenceNext]_fenceVars

-----------------------------------------------------------------------------
(* What the fence promises.                                                *)

Waiters == [client : Clients, exclusive : BOOLEAN]

\* Every variable has the values the actions mean it to have.
FenceTypeOK ==
  /\ gates \in [Gates -> [shared : Nat, exclusive : BOOLEAN, waiters : Seq(Waiters)]]
  /\ granted \subseteq Clients
  /\ spot \in [Clients -> {"outside", "queued", "inside", "leaving"}]
  /\ side \in [Clients -> {"shared", "exclusive"}]
  /\ runs \in [Gates -> Clients \cup {NoLease}]
  /\ lease \in [Clients -> [token : BOOLEAN, waiting : Nat]]
  /\ using \in [Clients -> Clients \cup {NoLease}]
  /\ turn \in [Clients -> {"outside", "asking", "waiting", "holding", "returning"}]

\* A full maintenance and a deletion are never inside one repository together,
\* and neither are two full maintenances: whoever was let in on the exclusive
\* side is alone, whatever was cancelled, and whenever (fence.go, dispatch).
Exclusion ==
  \A c, d \in Clients :
    /\ spot[c] = "inside" /\ spot[d] = "inside"
    /\ c # d /\ GateOf[c] = GateOf[d]
    => side[c] = "shared" /\ side[d] = "shared"

\* Nobody waits for a section that nobody has: if there is a queue, some client
\* was granted what its head waits for and has not given it back.  A grant lost
\* to a cancellation would block every later window (fence.go, acquire).
NoLostGrant ==
  \A g \in Gates : gates[g].waiters # <<>> =>
    \E c \in granted :
      /\ GateOf[c] = g /\ spot[c] # "outside"
      /\ Head(gates[g].waiters).exclusive \/ side[c] = "exclusive"

\* Whoever queues is let in, or gives up: deletions that follow each other do
\* not keep a full maintenance out for ever (fence.go, "Why acquisition is
\* FIFO").
Served == \A c \in Clients : spot[c] = "queued" ~> spot[c] # "queued"

=============================================================================
