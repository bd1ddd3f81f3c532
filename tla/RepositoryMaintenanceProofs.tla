-------------------- MODULE RepositoryMaintenanceProofs --------------------
(***************************************************************************)
(* Theorems about RepositoryMaintenance, for any number of processes,      *)
(* passes and administrators and any bounds: about its fence, its lease,   *)
(* the record it keeps, and what a window holds of that record.            *)
(*                                                                         *)
(* The fence is proved by itself, with clients that do anything, and       *)
(* maintenance is then shown to be such clients. The invariant of the      *)
(* fence is its bookkeeping: a gate counts those who hold its sections,    *)
(* its queue has everyone once who asked and holds none, and nobody stands *)
(* at its head whom it would let in. Everything that is done under the     *)
(* mutex changes the books for one client and dispatches, so it is one     *)
(* lemma (UnderTheMutex), which rests on what dispatch does: it grants a   *)
(* head of the queue (AdmittedIsHead), of one side (AdmittedKinds), keeps  *)
(* the books right (DispatchFits) and leaves nobody behind (NobodyElse).   *)
(*                                                                         *)
(* The record is the newest of the files, and revisions only go up: what   *)
(* anybody holds of the newest revision is what it reads, and a file       *)
(* linked below the newest is not read (RecordInv). The lease counts those *)
(* who use it (LeaseInv). With both, a pass that holds the record of its   *)
(* instance holds the newest, as long as no transfer takes it away         *)
(* (DueInv).                                                               *)
(***************************************************************************)
EXTENDS RepositoryMaintenance, FiniteSetTheorems, TLAPS

-----------------------------------------------------------------------------
(* dispatch.                                                               *)

\* The books of one gate.
GateType == [shared : Nat, exclusive : BOOLEAN, waiters : Seq(Waiters)]

\* A set of numbers has a least one.
LEMMA Least ==
  ASSUME NEW S, S \subseteq Nat, S # {}
  PROVE  \E n \in S : \A m \in S : n <= m
<1> DEFINE R == StrictSubsetOrdering(Nat)
           T == {1 .. n : n \in S}
<1>1. T \subseteq FiniteSubsetsOf(Nat) /\ T # {}
  <2>1. ASSUME NEW n \in S PROVE 1 .. n \in SUBSET Nat /\ IsFiniteSet(1 .. n)
    <3>1. n \in Int /\ 1 \in Int OBVIOUS
    <3> QED BY <3>1, FS_Interval
  <2> QED BY <2>1 DEF FiniteSubsetsOf
<1>2. PICK x \in T : \A y \in T : <<y, x>> \notin R
  <2>1. IsWellFoundedOn(R, FiniteSubsetsOf(Nat))
    BY FS_StrictSubsetOrderingWellFounded
  <2> HIDE DEF R, T
  <2> QED BY <1>1, <2>1, WFMin
<1>3. PICK n \in S : x = 1 .. n
  OBVIOUS
<1>4. ASSUME NEW m \in S, m < n
      PROVE  FALSE
  <2>1. 1 .. m \in T /\ 1 .. m \subseteq 1 .. n /\ n \in 1 .. n /\ n \notin 1 .. m
    BY <1>4
  <2>2. <<1 .. m, 1 .. n>> \in R
    BY <2>1 DEF StrictSubsetOrdering
  <2> QED BY <1>2, <1>3, <2>1, <2>2
<1> QED BY <1>3, <1>4

\* dispatch grants a head of the queue.
LEMMA AdmittedIsHead ==
  ASSUME NEW gt \in GateType
  PROVE  /\ Admitted(gt) = 1 .. Cardinality(Admitted(gt))
         /\ Cardinality(Admitted(gt)) \in 0 .. Len(gt.waiters)
<1> DEFINE n == Len(gt.waiters)
           Out == {i \in 1 .. n + 1 : i \notin Admitted(gt)}
<1>1. n \in Nat /\ DOMAIN gt.waiters = 1 .. n
  BY DEF GateType
<1>2. Admitted(gt) \subseteq 1 .. n
  BY <1>1 DEF Admitted
<1>3. PICK k \in Out : \A m \in Out : k <= m
  <2>1. n + 1 \in Out /\ Out \subseteq Nat BY <1>1, <1>2
  <2> QED BY <2>1, Least
<1>4. ASSUME NEW i \in Admitted(gt), NEW j \in 1 .. i
      PROVE  j \in Admitted(gt)
  BY <1>1, <1>4 DEF Admitted
<1>5. Admitted(gt) = 1 .. k - 1
  <2>1. ASSUME NEW i \in Admitted(gt) PROVE i \in 1 .. k - 1
    BY <1>1, <1>2, <1>3, <1>4, <2>1
  <2>2. ASSUME NEW i \in 1 .. k - 1 PROVE i \in Admitted(gt)
    BY <1>1, <1>3, <2>2
  <2> QED BY <2>1, <2>2
<1>6. Cardinality(1 .. k - 1) = k - 1
  BY <1>1, <1>3, FS_Interval
<1> QED BY <1>1, <1>3, <1>5, <1>6


\* The holders of one side of a gate.
Holders(g, held, sides, s) == {c \in held : GateOf[c] = g /\ sides[c] = s}

\* A gate counts those who hold its sections, its sections exclude each other,
\* and its queue has everyone once who asked and holds none.
GateFits(g, gt, held, sides) ==
  /\ gt.shared = Cardinality(Holders(g, held, sides, "shared"))
  /\ gt.exclusive <=> Holders(g, held, sides, "exclusive") # {}
  /\ \A c, d \in held :
       GateOf[c] = g /\ GateOf[d] = g /\ c # d => sides[c] = "shared" /\ sides[d] = "shared"
  /\ \A i \in DOMAIN gt.waiters :
       /\ GateOf[gt.waiters[i].client] = g /\ gt.waiters[i].client \notin held
       /\ gt.waiters[i].exclusive <=> sides[gt.waiters[i].client] = "exclusive"
  /\ \A i, j \in DOMAIN gt.waiters : i # j => gt.waiters[i].client # gt.waiters[j].client

Sides == [Clients -> {"shared", "exclusive"}]

\* What dispatch lets in is all shared, or one alone.
LEMMA AdmittedKinds ==
  ASSUME NEW gt \in GateType
  PROVE  \/ Admitted(gt) = {}
         \/ /\ Admitted(gt) = {1} /\ gt.waiters[1].exclusive
            /\ gt.shared = 0 /\ ~gt.exclusive /\ 1 \in DOMAIN gt.waiters
         \/ /\ \A i \in Admitted(gt) : ~gt.waiters[i].exclusive
            /\ ~gt.exclusive /\ Admitted(gt) # {}
<1>1. DOMAIN gt.waiters = 1 .. Len(gt.waiters) /\ Len(gt.waiters) \in Nat
  BY DEF GateType
<1>2. CASE Admitted(gt) # {} /\ gt.waiters[1].exclusive
  BY <1>1, <1>2 DEF Admitted
<1>3. CASE Admitted(gt) # {} /\ ~gt.waiters[1].exclusive
  BY <1>1, <1>3 DEF Admitted
<1> QED BY <1>2, <1>3

\* It lets in as many clients as places, none of whom was in.
LEMMA LetInCount ==
  ASSUME NEW g \in Gates, NEW gt \in GateType, NEW held \in SUBSET Clients,
         NEW sides \in Sides, GateFits(g, gt, held, sides)
  PROVE  /\ LetIn(gt) \subseteq Clients /\ LetIn(gt) \cap held = {}
         /\ Cardinality(LetIn(gt)) = Cardinality(Admitted(gt))
<1> DEFINE k == Cardinality(Admitted(gt))
           f == [i \in 1 .. k |-> gt.waiters[i].client]
<1>1. Admitted(gt) = 1 .. k /\ k \in Nat /\ 1 .. k \subseteq DOMAIN gt.waiters
  BY AdmittedIsHead DEF GateType
<1>2. \A i \in DOMAIN gt.waiters : gt.waiters[i].client \in Clients
  <2>1. gt.waiters \in Seq(Waiters)
    BY DEF GateType
  <2>2. \A i \in DOMAIN gt.waiters : gt.waiters[i] \in Waiters
    BY <2>1
  <2> QED BY <2>2 DEF Waiters
<1>3. LetIn(gt) \subseteq Clients /\ LetIn(gt) \cap held = {}
  BY <1>1, <1>2 DEF LetIn, GateFits
<1>4. f \in Bijection(1 .. k, LetIn(gt))
  <2>1. f \in [1 .. k -> LetIn(gt)]
    BY <1>1 DEF LetIn
  <2>2. \A i, j \in 1 .. k : f[i] = f[j] => i = j
    BY <1>1 DEF GateFits
  <2>3. \A c \in LetIn(gt) : \E i \in 1 .. k : f[i] = c
    BY <1>1 DEF LetIn
  <2> QED BY <2>1, <2>2, <2>3 DEF Bijection, Injection, Surjection, IsInjective
<1>5. Cardinality(LetIn(gt)) = k
  BY <1>1, <1>4, FS_CountingElements DEF ExistsBijection
<1> QED BY <1>3, <1>5


\* The gate after dispatch, in each of the three cases.
LEMMA SettledForm ==
  ASSUME NEW gt \in GateType
  PROVE  LET k == Cardinality(Admitted(gt))
             s == Settled(gt) IN
         /\ s \in GateType
         /\ Len(s.waiters) = Len(gt.waiters) - k
         /\ \A i \in DOMAIN s.waiters :
              i + k \in DOMAIN gt.waiters /\ s.waiters[i] = gt.waiters[i + k]
         /\ s.exclusive <=> gt.exclusive \/ \E i \in Admitted(gt) : gt.waiters[i].exclusive
         /\ (\A i \in Admitted(gt) : ~gt.waiters[i].exclusive) => s.shared = gt.shared + k
         /\ (\A i \in Admitted(gt) : gt.waiters[i].exclusive) => s.shared = gt.shared
<1> DEFINE k == Cardinality(Admitted(gt))
           s == Settled(gt)
           new == {i \in Admitted(gt) : ~gt.waiters[i].exclusive}
<1>1. Admitted(gt) = 1 .. k /\ k \in 0 .. Len(gt.waiters)
  BY AdmittedIsHead
<1>2. gt.waiters \in Seq(Waiters) /\ Len(gt.waiters) \in Nat /\ gt.shared \in Nat
      /\ gt.exclusive \in BOOLEAN
  BY DEF GateType
<1>3. /\ s.waiters = SubSeq(gt.waiters, k + 1, Len(gt.waiters))
      /\ s.shared = gt.shared + Cardinality(new)
      /\ s.exclusive = (gt.exclusive \/ \E i \in Admitted(gt) : gt.waiters[i].exclusive)
  BY DEF Settled
<1>4. Cardinality(new) \in Nat
  <2>1. IsFiniteSet(1 .. k) BY <1>1, FS_Interval
  <2>2. new \in SUBSET (1 .. k) BY <1>1
  <2> HIDE DEF new
  <2> QED BY <2>1, <2>2, FS_Subset, FS_CardinalityType
<1>5. \A i \in DOMAIN gt.waiters : gt.waiters[i] \in Waiters
  BY <1>2
<1>6. /\ s.waiters \in Seq(Waiters) /\ Len(s.waiters) = Len(gt.waiters) - k
      /\ \A i \in DOMAIN s.waiters :
           i + k \in DOMAIN gt.waiters /\ s.waiters[i] = gt.waiters[i + k]
  BY <1>1, <1>2, <1>3, <1>5
<1>7. s \in GateType
  <2>1. s.exclusive \in BOOLEAN BY <1>2, <1>3
  <2> QED BY <1>2, <1>3, <1>4, <1>6, <2>1 DEF GateType, Settled
<1>8. ASSUME \A i \in Admitted(gt) : ~gt.waiters[i].exclusive
      PROVE  s.shared = gt.shared + k
  <2>1. new = Admitted(gt) BY <1>8
  <2> QED BY <1>3, <2>1
<1>9. ASSUME \A i \in Admitted(gt) : gt.waiters[i].exclusive
      PROVE  s.shared = gt.shared
  <2>1. new = {} BY <1>9
  <2>2. Cardinality(new) = 0
    <3> HIDE DEF new
    <3> QED BY <2>1, FS_EmptySet
  <2> QED BY <1>2, <1>3, <2>2
<1> QED BY <1>3, <1>6, <1>7, <1>8, <1>9


\* After dispatch there is nobody left whom the gate would let in.
LEMMA NobodyElse ==
  ASSUME NEW gt \in GateType
  PROVE  Admitted(Settled(gt)) = {}
<1> DEFINE k == Cardinality(Admitted(gt))
           s == Settled(gt)
<1>1. Admitted(gt) = 1 .. k /\ k \in 0 .. Len(gt.waiters)
  BY AdmittedIsHead
<1>2. /\ s \in GateType
      /\ \A i \in DOMAIN s.waiters :
           i + k \in DOMAIN gt.waiters /\ s.waiters[i] = gt.waiters[i + k]
      /\ s.exclusive <=> gt.exclusive \/ \E i \in Admitted(gt) : gt.waiters[i].exclusive
      /\ (\A i \in Admitted(gt) : ~gt.waiters[i].exclusive) => s.shared = gt.shared + k
  BY SettledForm
<1>3. /\ DOMAIN gt.waiters = 1 .. Len(gt.waiters) /\ Len(gt.waiters) \in Nat
      /\ DOMAIN s.waiters = 1 .. Len(s.waiters) /\ Len(s.waiters) \in Nat
      /\ gt.shared \in Nat
  BY <1>2 DEF GateType
<1> SUFFICES ASSUME NEW i \in Admitted(s)
             PROVE  FALSE
  OBVIOUS
<1>4. ~s.exclusive /\ 1 \in DOMAIN s.waiters
  BY <1>3 DEF Admitted
<1>5. ~gt.exclusive /\ \A j \in Admitted(gt) : ~gt.waiters[j].exclusive
  BY <1>2, <1>4
<1>6. ~s.waiters[1].exclusive \/ s.shared = 0
  BY <1>3, <1>4 DEF Admitted
<1>7. 1 + k \in DOMAIN gt.waiters /\ 1 + k \notin Admitted(gt) /\ s.waiters[1] = gt.waiters[1 + k]
  BY <1>1, <1>2, <1>4
<1>8. CASE ~s.waiters[1].exclusive
  <2>1. \A j \in 1 .. 1 + k : ~gt.waiters[j].exclusive
    BY <1>1, <1>5, <1>7, <1>8
  <2> QED BY <1>5, <1>7, <2>1 DEF Admitted
<1>9. CASE s.shared = 0
  <2>1. k = 0 /\ gt.shared = 0
    BY <1>1, <1>2, <1>3, <1>5, <1>9
  <2> QED BY <1>5, <1>7, <2>1 DEF Admitted
<1> QED BY <1>6, <1>8, <1>9

\* dispatch keeps the books of a gate.
LEMMA DispatchFits ==
  ASSUME NEW g \in Gates, NEW gt \in GateType, NEW held \in SUBSET Clients,
         NEW sides \in Sides, GateFits(g, gt, held, sides)
  PROVE  GateFits(g, Settled(gt), held \cup LetIn(gt), sides)
<1> DEFINE k == Cardinality(Admitted(gt))
           s == Settled(gt)
           now == held \cup LetIn(gt)
           H(set, sd) == Holders(g, set, sides, sd)
<1>1. Admitted(gt) = 1 .. k /\ k \in 0 .. Len(gt.waiters)
  BY AdmittedIsHead
<1>2. /\ s \in GateType
      /\ \A i \in DOMAIN s.waiters :
           i + k \in DOMAIN gt.waiters /\ s.waiters[i] = gt.waiters[i + k]
      /\ s.exclusive <=> gt.exclusive \/ \E i \in Admitted(gt) : gt.waiters[i].exclusive
      /\ (\A i \in Admitted(gt) : ~gt.waiters[i].exclusive) => s.shared = gt.shared + k
      /\ (\A i \in Admitted(gt) : gt.waiters[i].exclusive) => s.shared = gt.shared
  BY SettledForm
<1>3. /\ DOMAIN gt.waiters = 1 .. Len(gt.waiters) /\ Len(gt.waiters) \in Nat
      /\ DOMAIN s.waiters = 1 .. Len(s.waiters) /\ Len(s.waiters) \in Nat
      /\ gt.shared \in Nat
  BY <1>2 DEF GateType
<1>4. LetIn(gt) \subseteq Clients /\ LetIn(gt) \cap held = {} /\ Cardinality(LetIn(gt)) = k
  BY LetInCount
<1>5. \A i \in Admitted(gt) : i \in DOMAIN gt.waiters
  BY <1>1, <1>3
<1>6. \A c \in LetIn(gt) : \E i \in Admitted(gt) : c = gt.waiters[i].client
  BY DEF LetIn
<1>7. \A c \in LetIn(gt) : GateOf[c] = g
  BY <1>5, <1>6 DEF GateFits
<1>8. /\ \A i \in DOMAIN s.waiters :
           /\ GateOf[s.waiters[i].client] = g /\ s.waiters[i].client \notin now
           /\ s.waiters[i].exclusive <=> sides[s.waiters[i].client] = "exclusive"
      /\ \A i, j \in DOMAIN s.waiters : i # j => s.waiters[i].client # s.waiters[j].client
  <2>1. ASSUME NEW i \in DOMAIN s.waiters
        PROVE  s.waiters[i].client \notin LetIn(gt)
    <3>1. i + k \in DOMAIN gt.waiters /\ i + k \notin Admitted(gt)
      BY <1>1, <1>2, <1>3
    <3> QED BY <1>2, <1>5, <1>6, <3>1 DEF GateFits
  <2>2. ASSUME NEW i \in DOMAIN s.waiters, NEW j \in DOMAIN s.waiters, i # j
        PROVE  s.waiters[i].client # s.waiters[j].client
    <3>1. /\ i + k \in DOMAIN gt.waiters /\ s.waiters[i] = gt.waiters[i + k]
          /\ j + k \in DOMAIN gt.waiters /\ s.waiters[j] = gt.waiters[j + k]
      BY <1>2
    <3>2. i + k # j + k
      BY <1>1, <1>3, <2>2
    <3> QED BY <3>1, <3>2 DEF GateFits
  <2>3. ASSUME NEW i \in DOMAIN s.waiters
        PROVE  /\ GateOf[s.waiters[i].client] = g /\ s.waiters[i].client \notin held
               /\ s.waiters[i].exclusive <=> sides[s.waiters[i].client] = "exclusive"
    <3>1. i + k \in DOMAIN gt.waiters /\ s.waiters[i] = gt.waiters[i + k]
      BY <1>2
    <3> QED BY <3>1 DEF GateFits
  <2> QED BY <2>1, <2>2, <2>3
<1>9. /\ s.shared = Cardinality(H(now, "shared"))
      /\ s.exclusive <=> H(now, "exclusive") # {}
      /\ \A c, d \in now :
           GateOf[c] = g /\ GateOf[d] = g /\ c # d
           => sides[c] = "shared" /\ sides[d] = "shared"
  <2>1. CASE Admitted(gt) = {}
    <3>1. LetIn(gt) = {} BY <1>6, <2>1
    <3>2. k = 0 BY <2>1, FS_EmptySet
    <3> QED BY <1>2, <1>3, <2>1, <3>1, <3>2 DEF GateFits
  <2>2. CASE /\ Admitted(gt) = {1} /\ gt.waiters[1].exclusive
             /\ gt.shared = 0 /\ ~gt.exclusive /\ 1 \in DOMAIN gt.waiters
    <3> DEFINE c == gt.waiters[1].client
    <3>1. LetIn(gt) = {c} BY <2>2 DEF LetIn
    <3>2. sides[c] = "exclusive" /\ GateOf[c] = g BY <2>2 DEF GateFits
    <3>3. s.shared = 0 /\ s.exclusive BY <1>2, <2>2
    <3>4. IsFiniteSet(H(held, "shared"))
      BY ClientAssumption, FS_Subset DEF Holders
    <3>5. H(held, "shared") = {} /\ H(held, "exclusive") = {}
      BY <2>2, <3>4, FS_EmptySet DEF GateFits
    <3>6. \A d \in held : GateOf[d] # g
      BY <3>5 DEF Holders, Sides
    <3>7. H(now, "shared") = {} /\ H(now, "exclusive") = {c}
      BY <1>4, <3>1, <3>2, <3>6 DEF Holders
    <3> QED BY <3>1, <3>3, <3>6, <3>7, FS_EmptySet
  <2>3. CASE /\ \A i \in Admitted(gt) : ~gt.waiters[i].exclusive
             /\ ~gt.exclusive /\ Admitted(gt) # {}
    <3>1. \A c \in LetIn(gt) : sides[c] = "shared"
      BY <1>4, <1>5, <1>6, <2>3 DEF GateFits, Sides
    <3>2. H(now, "shared") = H(held, "shared") \cup LetIn(gt) /\ H(now, "exclusive") = H(held, "exclusive")
      BY <1>4, <1>7, <3>1 DEF Holders
    <3>3. IsFiniteSet(H(held, "shared")) /\ IsFiniteSet(LetIn(gt))
      <4>1. H(held, "shared") \in SUBSET Clients /\ LetIn(gt) \in SUBSET Clients
        BY <1>4 DEF Holders
      <4> QED BY <4>1, ClientAssumption, FS_Subset
    <3>4. H(held, "shared") \cap LetIn(gt) = {}
      BY <1>4 DEF Holders
    <3>5. Cardinality(H(now, "shared")) = gt.shared + k
      <4>1. Cardinality(H(held, "shared") \cup LetIn(gt)) =
              Cardinality(H(held, "shared")) + Cardinality(LetIn(gt)) - Cardinality({})
        BY <3>3, <3>4, FS_Union
      <4>2. Cardinality({}) = 0 BY FS_EmptySet
      <4>3. Cardinality(H(held, "shared")) = gt.shared BY DEF GateFits
      <4>4. Cardinality(LetIn(gt)) = k /\ k \in Nat BY <1>1, <1>3, <1>4
      <4>5. Cardinality(H(now, "shared")) = Cardinality(H(held, "shared") \cup LetIn(gt))
        BY <3>2
      <4>6. ASSUME NEW a, NEW b, NEW e, a = gt.shared, b = k, e = 0
            PROVE  a + b - e = gt.shared + k
        BY <1>3, <4>4, <4>6
      <4> HIDE DEF H, k
      <4> QED BY <4>1, <4>2, <4>3, <4>4, <4>5, <4>6, Zenon
    <3>6. H(held, "exclusive") = {} BY <2>3 DEF GateFits
    <3>7. \A c \in now : GateOf[c] = g => sides[c] = "shared"
      BY <3>1, <3>6 DEF Holders, Sides
    <3> QED BY <1>2, <2>3, <3>2, <3>5, <3>6, <3>7
  <2> QED BY <2>1, <2>2, <2>3, AdmittedKinds
<1> QED BY <1>8, <1>9 DEF GateFits


-----------------------------------------------------------------------------
(* The invariant, and what a step under the mutex does to it.              *)

Spots == [Clients -> {"outside", "queued", "inside", "leaving"}]

GateTypes ==
  /\ gates \in [Gates -> GateType]
  /\ granted \subseteq Clients
  /\ side \in Sides
  /\ spot \in Spots

\* The books of every gate are right, nobody is left waiting whom the gate would
\* let in, and who is inside, or in a queue, knows that it asked.
FenceInv ==
  /\ GateTypes
  /\ \A g \in Gates : GateFits(g, gates[g], granted, side) /\ Admitted(gates[g]) = {}
  /\ \A c \in Clients :
       (spot[c] = "inside" => c \in granted) /\ (c \in granted => spot[c] # "outside")
  /\ \A g \in Gates : \A i \in DOMAIN gates[g].waiters :
       spot[gates[g].waiters[i].client] # "outside"

\* Who waits is a client.
LEMMA WaiterIsClient ==
  ASSUME NEW gt \in GateType, NEW i \in DOMAIN gt.waiters
  PROVE  gt.waiters[i].client \in Clients /\ gt.waiters[i].exclusive \in BOOLEAN
<1>1. gt.waiters \in Seq(Waiters) BY DEF GateType
<1>2. gt.waiters[i] \in Waiters BY <1>1
<1> QED BY <1>2 DEF Waiters

\* The books of a gate are about its own clients alone.
LEMMA OwnClients ==
  ASSUME NEW g \in Gates, NEW gt \in GateType,
         NEW held \in SUBSET Clients, NEW now \in SUBSET Clients,
         NEW sides \in Sides, NEW after \in Sides,
         \A c \in Clients : GateOf[c] = g =>
           (c \in held <=> c \in now) /\ sides[c] = after[c],
         GateFits(g, gt, held, sides)
  PROVE  GateFits(g, gt, now, after)
<1>1. \A sd : Holders(g, now, after, sd) = Holders(g, held, sides, sd)
  BY DEF Holders
<1>2. ASSUME NEW i \in DOMAIN gt.waiters
      PROVE  /\ GateOf[gt.waiters[i].client] = g /\ gt.waiters[i].client \notin now
             /\ gt.waiters[i].exclusive <=> after[gt.waiters[i].client] = "exclusive"
  BY WaiterIsClient DEF GateFits
<1>3. \A c, d \in now :
        GateOf[c] = g /\ GateOf[d] = g /\ c # d => after[c] = "shared" /\ after[d] = "shared"
  BY DEF GateFits
<1> QED BY <1>1, <1>2, <1>3 DEF GateFits

\* A client of gate g changes its books and dispatches.
LEMMA UnderTheMutex ==
  ASSUME FenceInv, NEW c \in Clients, NEW gt \in GateType, NEW held \in SUBSET Clients,
         side' \in Sides, spot' \in Spots,
         \A d \in Clients \ {c} :
           side'[d] = side[d] /\ spot'[d] = spot[d] /\ (d \in held <=> d \in granted),
         GateFits(GateOf[c], gt, held, side'),
         \A i \in DOMAIN gt.waiters : spot'[gt.waiters[i].client] # "outside",
         gates' = [gates EXCEPT ![GateOf[c]] = Settled(gt)],
         granted' = held \cup LetIn(gt),
         spot'[c] = "inside" => c \in granted',
         c \in held => spot'[c] # "outside"
  PROVE  FenceInv'
<1> DEFINE g == GateOf[c]
<1>1. g \in Gates
  BY ClientAssumption
<1>2. /\ Settled(gt) \in GateType
      /\ \A i \in DOMAIN Settled(gt).waiters :
           /\ i + Cardinality(Admitted(gt)) \in DOMAIN gt.waiters
           /\ Settled(gt).waiters[i] = gt.waiters[i + Cardinality(Admitted(gt))]
  BY SettledForm
<1>3. LetIn(gt) \subseteq Clients
  BY <1>1, LetInCount
<1>4. \A d \in LetIn(gt) : GateOf[d] = g /\ spot'[d] # "outside"
  <2>1. Admitted(gt) \subseteq DOMAIN gt.waiters BY DEF Admitted
  <2> QED BY <2>1 DEF LetIn, GateFits
<1>5. GateTypes'
  BY <1>1, <1>2, <1>3 DEF FenceInv, GateTypes
<1>6. /\ GateFits(g, gates'[g], granted', side') /\ Admitted(gates'[g]) = {}
      /\ \A i \in DOMAIN gates'[g].waiters : spot'[gates'[g].waiters[i].client] # "outside"
  <2>1. gates'[g] = Settled(gt) BY <1>1 DEF FenceInv, GateTypes
  <2> QED BY <1>1, <1>2, <2>1, DispatchFits, NobodyElse
<1>7. ASSUME NEW f \in Gates, f # g
      PROVE  /\ GateFits(f, gates'[f], granted', side') /\ Admitted(gates'[f]) = {}
             /\ \A i \in DOMAIN gates'[f].waiters : spot'[gates'[f].waiters[i].client] # "outside"
  <2>1. gates'[f] = gates[f] /\ gates[f] \in GateType
    BY <1>1, <1>7 DEF FenceInv, GateTypes
  <2>2. \A d \in Clients : GateOf[d] = f =>
          (d \in granted <=> d \in granted') /\ side[d] = side'[d] /\ spot[d] = spot'[d]
    BY <1>4, <1>7
  <2>3. GateFits(f, gates[f], granted', side')
    BY <1>5, <2>1, <2>2, OwnClients DEF FenceInv, GateTypes
  <2>4. ASSUME NEW i \in DOMAIN gates[f].waiters
        PROVE  spot'[gates[f].waiters[i].client] # "outside"
    BY <2>1, <2>2, WaiterIsClient DEF FenceInv, GateFits
  <2> QED BY <2>1, <2>3, <2>4 DEF FenceInv
<1>8. ASSUME NEW d \in Clients
      PROVE  (spot'[d] = "inside" => d \in granted') /\ (d \in granted' => spot'[d] # "outside")
  BY <1>4 DEF FenceInv
<1> QED BY <1>5, <1>6, <1>7, <1>8 DEF FenceInv


-----------------------------------------------------------------------------
(* The steps.                                                              *)

\* acquire.
LEMMA AcquireKeeps ==
  ASSUME FenceInv, NEW c \in Clients, NEW exclusive \in BOOLEAN, Acquire(c, exclusive)
  PROVE  FenceInv'
<1> DEFINE g == GateOf[c]
           q == gates[g].waiters
           gt == [gates[g] EXCEPT !.waiters = Append(@, Waiter(c, exclusive))]
<1>1. g \in Gates /\ gates[g] \in GateType /\ q \in Seq(Waiters)
  BY ClientAssumption DEF FenceInv, GateTypes, GateType
<1>2. Waiter(c, exclusive) \in Waiters
  BY DEF Waiter, Waiters
<1>3. /\ gt \in GateType /\ gt.shared = gates[g].shared /\ gt.exclusive = gates[g].exclusive
      /\ gt.waiters = Append(q, Waiter(c, exclusive))
  <2>1. Append(q, Waiter(c, exclusive)) \in Seq(Waiters)
    BY <1>1, <1>2
  <2>2. gt = [gates[g] EXCEPT !.waiters = Append(q, Waiter(c, exclusive))]
    OBVIOUS
  <2> HIDE DEF gt, q
  <2> QED BY <1>1, <2>1, <2>2 DEF GateType
<1>4. /\ spot[c] = "outside" /\ c \notin granted
      /\ \A i \in DOMAIN q : q[i].client # c
  BY <1>1 DEF FenceInv, Acquire
<1>5. /\ side' = [side EXCEPT ![c] = IF exclusive THEN "exclusive" ELSE "shared"]
      /\ side' \in Sides /\ side'[c] = (IF exclusive THEN "exclusive" ELSE "shared")
      /\ \A d \in Clients \ {c} : side'[d] = side[d]
  BY DEF Acquire, FenceInv, GateTypes, Sides
<1>6. /\ spot' \in Spots /\ spot'[c] = (IF c \in LetIn(gt) THEN "inside" ELSE "queued")
      /\ \A d \in Clients \ {c} : spot'[d] = spot[d]
  BY DEF Acquire, FenceInv, GateTypes, Spots
<1>7. \A i \in DOMAIN gt.waiters :
        \/ i \in DOMAIN q /\ gt.waiters[i] = q[i]
        \/ i = Len(q) + 1 /\ gt.waiters[i] = Waiter(c, exclusive)
  BY <1>1, <1>3
<1>8. \A s : Holders(g, granted, side', s) = Holders(g, granted, side, s)
  BY <1>4, <1>5 DEF Holders, FenceInv, GateTypes
<1>9. GateFits(g, gt, granted, side')
  <2>1. GateFits(g, gates[g], granted, side)
    BY <1>1 DEF FenceInv
  <2>2. ASSUME NEW i \in DOMAIN gt.waiters
        PROVE  /\ GateOf[gt.waiters[i].client] = g /\ gt.waiters[i].client \notin granted
               /\ gt.waiters[i].exclusive <=> side'[gt.waiters[i].client] = "exclusive"
    <3>1. CASE i \in DOMAIN q /\ gt.waiters[i] = q[i]
      <4>1. q[i].client \in Clients \ {c}
        BY <1>1, <1>4, <3>1, WaiterIsClient
      <4>2. /\ GateOf[q[i].client] = g /\ q[i].client \notin granted
            /\ q[i].exclusive <=> side[q[i].client] = "exclusive"
        BY <2>1, <3>1 DEF GateFits
      <4> QED BY <1>5, <3>1, <4>1, <4>2
    <3>2. CASE gt.waiters[i] = Waiter(c, exclusive)
      BY <1>4, <1>5, <3>2 DEF Waiter
    <3> QED BY <1>7, <3>1, <3>2
  <2>3. ASSUME NEW i \in DOMAIN gt.waiters, NEW j \in DOMAIN gt.waiters, i # j
        PROVE  gt.waiters[i].client # gt.waiters[j].client
    <3>1. Waiter(c, exclusive).client = c BY DEF Waiter
    <3> QED BY <1>4, <1>7, <2>1, <2>3, <3>1 DEF GateFits
  <2>4. \A d, e \in granted : GateOf[d] = g /\ GateOf[e] = g /\ d # e =>
          side'[d] = "shared" /\ side'[e] = "shared"
    BY <1>4, <1>5, <2>1 DEF GateFits, FenceInv, GateTypes
  <2> QED BY <1>3, <1>8, <2>1, <2>2, <2>3, <2>4 DEF GateFits
<1>10. \A i \in DOMAIN gt.waiters : spot'[gt.waiters[i].client] # "outside"
  <2>1. ASSUME NEW i \in DOMAIN q PROVE spot'[q[i].client] # "outside"
    <3>1. q[i].client \in Clients \ {c} /\ spot[q[i].client] # "outside"
      BY <1>1, <1>4, WaiterIsClient DEF FenceInv
    <3> QED BY <1>6, <3>1
  <2> QED BY <1>6, <1>7, <2>1 DEF Waiter
<1>11. gates' = [gates EXCEPT ![g] = Settled(gt)] /\ granted' = granted \cup LetIn(gt)
  BY DEF Acquire
<1>12. granted \in SUBSET Clients
  BY DEF FenceInv, GateTypes
<1> HIDE DEF gt
<1> QED BY <1>3, <1>4, <1>5, <1>6, <1>9, <1>10, <1>11, <1>12, UnderTheMutex

\* The release of a section.
LEMMA HandBackKeeps ==
  ASSUME FenceInv, NEW c \in Clients, c \in granted, HandBack(c)
  PROVE  FenceInv'
<1> DEFINE g == GateOf[c]
           gt == IF side[c] = "exclusive"
                 THEN [gates[g] EXCEPT !.exclusive = FALSE]
                 ELSE [gates[g] EXCEPT !.shared = IF @ > 0 THEN @ - 1 ELSE @]
           held == granted \ {c}
           H(set, s) == Holders(g, set, side, s)
<1>1. g \in Gates /\ gates[g] \in GateType /\ GateFits(g, gates[g], granted, side)
  BY ClientAssumption DEF FenceInv, GateTypes
<1>2. gt \in GateType /\ gt.waiters = gates[g].waiters
  <2>1. CASE side[c] = "exclusive"
    BY <1>1, <2>1 DEF GateType
  <2>2. CASE side[c] # "exclusive"
    <3> DEFINE n == IF gates[g].shared > 0 THEN gates[g].shared - 1 ELSE gates[g].shared
    <3>1. n \in Nat BY <1>1 DEF GateType
    <3>2. gt = [gates[g] EXCEPT !.shared = n] BY <2>2
    <3> HIDE DEF n, gt
    <3> QED BY <1>1, <3>1, <3>2 DEF GateType
  <2> QED BY <2>1, <2>2
<1>3. held \in SUBSET Clients /\ side' = side /\ side \in Sides
  BY DEF FenceInv, GateTypes, HandBack
<1>4. /\ spot' \in Spots /\ spot'[c] = "outside"
      /\ \A d \in Clients \ {c} : spot'[d] = spot[d]
  BY DEF HandBack, FenceInv, GateTypes, Spots
<1>5. \A d \in granted : GateOf[d] = g /\ d # c => side[d] = "shared" /\ side[c] = "shared"
  BY <1>1 DEF GateFits
<1>6. /\ gt.shared = Cardinality(H(held, "shared"))
      /\ gt.exclusive <=> H(held, "exclusive") # {}
  <2>1. CASE side[c] = "exclusive"
    <3>1. \A d \in held : GateOf[d] # g BY <1>5, <2>1
    <3>2. H(held, "exclusive") = {} /\ H(granted, "shared") = H(held, "shared")
      BY <2>1, <3>1 DEF Holders
    <3> QED BY <1>1, <2>1, <3>2 DEF GateFits, GateType
  <2>2. CASE side[c] = "shared"
    <3>1. H(held, "exclusive") = H(granted, "exclusive")
      BY <2>2 DEF Holders
    <3>2. H(held, "shared") = H(granted, "shared") \ {c} /\ c \in H(granted, "shared")
      BY <2>2 DEF Holders
    <3>3. IsFiniteSet(H(granted, "shared"))
      <4>1. H(granted, "shared") \in SUBSET Clients BY DEF Holders, FenceInv, GateTypes
      <4> QED BY <4>1, ClientAssumption, FS_Subset
    <3>4. /\ Cardinality(H(held, "shared")) = Cardinality(H(granted, "shared")) - 1
          /\ Cardinality(H(granted, "shared")) # 0
      BY <3>2, <3>3, FS_RemoveElement, FS_EmptySet
    <3>5. gates[g].shared = Cardinality(H(granted, "shared")) /\ gates[g].shared \in Nat
      BY <1>1 DEF GateFits, GateType
    <3>6. gt.shared = gates[g].shared - 1
      BY <1>1, <2>2, <3>4, <3>5 DEF GateType
    <3>7. gt.exclusive = gates[g].exclusive
      BY <1>1, <2>2 DEF GateType
    <3> QED BY <1>1, <3>1, <3>4, <3>5, <3>6, <3>7 DEF GateFits
  <2> QED BY <1>3, <2>1, <2>2 DEF Sides
<1>7. GateFits(g, gt, held, side')
  <2>1. \A d, f \in held : GateOf[d] = g /\ GateOf[f] = g /\ d # f
          => side'[d] = "shared" /\ side'[f] = "shared"
    BY <1>1, <1>3 DEF GateFits
  <2>2. /\ \A i \in DOMAIN gt.waiters :
             /\ GateOf[gt.waiters[i].client] = g /\ gt.waiters[i].client \notin held
             /\ gt.waiters[i].exclusive <=> side'[gt.waiters[i].client] = "exclusive"
        /\ \A i, j \in DOMAIN gt.waiters : i # j => gt.waiters[i].client # gt.waiters[j].client
    BY <1>1, <1>2, <1>3 DEF GateFits
  <2>3. /\ gt.shared = Cardinality(Holders(g, held, side', "shared"))
        /\ gt.exclusive <=> Holders(g, held, side', "exclusive") # {}
    BY <1>3, <1>6
  <2> HIDE DEF gt, held
  <2> QED BY <2>1, <2>2, <2>3 DEF GateFits
<1>8. \A i \in DOMAIN gt.waiters : spot'[gt.waiters[i].client] # "outside"
  <2>1. ASSUME NEW i \in DOMAIN gates[g].waiters
        PROVE  spot'[gates[g].waiters[i].client] # "outside"
    <3>1. gates[g].waiters[i].client \in Clients \ {c}
      BY <1>1, WaiterIsClient DEF GateFits
    <3> QED BY <1>1, <1>4, <3>1 DEF FenceInv
  <2> QED BY <1>2, <2>1
<1>9. gates' = [gates EXCEPT ![g] = Settled(gt)] /\ granted' = held \cup LetIn(gt)
  BY DEF HandBack
<1> HIDE DEF gt
<1> QED BY <1>2, <1>3, <1>4, <1>7, <1>8, <1>9, UnderTheMutex


\* The queue without one of its waiters has the others.
LEMMA WithoutOne ==
  ASSUME NEW q \in Seq(Waiters), NEW i \in DOMAIN q
  PROVE  /\ Without(q, i) \in Seq(Waiters)
         /\ \A j \in DOMAIN Without(q, i) :
              \E k \in DOMAIN q \ {i} : Without(q, i)[j] = q[k] /\ k = (IF j < i THEN j ELSE j + 1)
<1>1. /\ Len(q) \in Nat /\ DOMAIN q = 1 .. Len(q) /\ i \in 1 .. Len(q)
      /\ \A k \in 1 .. Len(q) : q[k] \in Waiters
  OBVIOUS
<1>2. DOMAIN Without(q, i) = 1 .. Len(q) - 1
  BY DEF Without
<1>3. ASSUME NEW j \in 1 .. Len(q) - 1
      PROVE  /\ (IF j < i THEN j ELSE j + 1) \in 1 .. Len(q) \ {i}
             /\ Without(q, i)[j] = q[IF j < i THEN j ELSE j + 1]
  BY <1>1 DEF Without
<1>4. Without(q, i) \in [1 .. Len(q) - 1 -> Waiters]
  BY <1>1, <1>3 DEF Without
<1>5. Without(q, i) \in Seq(Waiters)
  BY <1>1, <1>4
<1> QED BY <1>1, <1>2, <1>3, <1>5

\* A cancelled client.
LEMMA LeaveKeeps ==
  ASSUME FenceInv, NEW c \in Clients, Leave(c)
  PROVE  FenceInv'
<1> DEFINE g == GateOf[c]
           q == gates[g].waiters
<1>1. CASE c \in granted
  BY <1>1, HandBackKeeps DEF Leave
<1>2. CASE c \notin granted
  <2> DEFINE gt(i) == [gates[g] EXCEPT !.waiters = Without(@, i)]
  <2>1. PICK i \in DOMAIN q :
          /\ q[i].client = c
          /\ gates' = [gates EXCEPT ![g] = Settled(gt(i))]
          /\ granted' = granted \cup LetIn(gt(i))
    BY <1>2 DEF Leave
  <2>2. g \in Gates /\ gates[g] \in GateType /\ GateFits(g, gates[g], granted, side)
        /\ q \in Seq(Waiters)
    BY ClientAssumption DEF FenceInv, GateTypes, GateType
  <2>3. /\ Without(q, i) \in Seq(Waiters)
        /\ \A j \in DOMAIN Without(q, i) :
             \E k \in DOMAIN q \ {i} : Without(q, i)[j] = q[k] /\ k = (IF j < i THEN j ELSE j + 1)
    BY <2>2, WithoutOne
  <2>4. /\ gt(i) \in GateType /\ gt(i).waiters = Without(q, i)
        /\ gt(i).shared = gates[g].shared /\ gt(i).exclusive = gates[g].exclusive
    <3> HIDE DEF q
    <3>1. gt(i) = [gates[g] EXCEPT !.waiters = Without(q, i)] BY DEF q
    <3> HIDE DEF gt
    <3> QED BY <2>2, <2>3, <3>1 DEF GateType
  <2>5. /\ side' = side /\ side \in Sides /\ granted \in SUBSET Clients
        /\ spot' \in Spots /\ spot'[c] = "outside"
        /\ \A d \in Clients \ {c} : spot'[d] = spot[d]
    BY <1>2 DEF Leave, FenceInv, GateTypes, Spots
  <2>6. \A k \in DOMAIN q \ {i} : q[k].client \in Clients \ {c}
    BY <2>1, <2>2, WaiterIsClient DEF GateFits
  <2>7. GateFits(g, gt(i), granted, side')
    <3>1. ASSUME NEW j \in DOMAIN Without(q, i)
          PROVE  /\ GateOf[Without(q, i)[j].client] = g /\ Without(q, i)[j].client \notin granted
                 /\ Without(q, i)[j].exclusive <=> side[Without(q, i)[j].client] = "exclusive"
      <4>1. PICK k \in DOMAIN q \ {i} : Without(q, i)[j] = q[k] BY <2>3
      <4> QED BY <2>2, <4>1 DEF GateFits
    <3>2. ASSUME NEW j \in DOMAIN Without(q, i), NEW m \in DOMAIN Without(q, i), j # m
          PROVE  Without(q, i)[j].client # Without(q, i)[m].client
      <4>1. PICK k \in DOMAIN q \ {i} :
              Without(q, i)[j] = q[k] /\ k = (IF j < i THEN j ELSE j + 1)
        BY <2>3
      <4>2. PICK n \in DOMAIN q \ {i} :
              Without(q, i)[m] = q[n] /\ n = (IF m < i THEN m ELSE m + 1)
        BY <2>3
      <4>3. k # n
        <5>1. DOMAIN q = 1 .. Len(q) /\ Len(q) \in Nat BY <2>2
        <5>2. DOMAIN Without(q, i) = 1 .. Len(q) - 1 BY DEF Without
        <5> QED BY <3>2, <4>1, <4>2, <5>1, <5>2
      <4> QED BY <2>2, <4>1, <4>2, <4>3 DEF GateFits
    <3>3. /\ gt(i).shared = Cardinality(Holders(g, granted, side, "shared"))
          /\ gt(i).exclusive <=> Holders(g, granted, side, "exclusive") # {}
          /\ \A d, f \in granted : GateOf[d] = g /\ GateOf[f] = g /\ d # f
               => side[d] = "shared" /\ side[f] = "shared"
      BY <2>2, <2>4 DEF GateFits
    <3> HIDE DEF gt, q
    <3> QED BY <2>4, <2>5, <3>1, <3>2, <3>3 DEF GateFits
  <2>8. ASSUME NEW j \in DOMAIN gt(i).waiters
        PROVE  spot'[gt(i).waiters[j].client] # "outside"
    <3>1. PICK k \in DOMAIN q \ {i} : gt(i).waiters[j] = q[k] BY <2>3, <2>4
    <3>2. spot[q[k].client] # "outside" BY <2>2 DEF FenceInv
    <3> QED BY <2>5, <2>6, <3>1, <3>2
  <2> HIDE DEF gt, q
  <2> QED BY <1>2, <2>1, <2>4, <2>5, <2>7, <2>8, UnderTheMutex
<1> QED BY <1>1, <1>2

\* A step that moves one client and touches no book.
LEMMA SpotMoves ==
  ASSUME FenceInv, NEW c \in Clients, NEW to \in {"inside", "leaving"},
         spot' = [spot EXCEPT ![c] = to], to = "inside" => c \in granted,
         UNCHANGED <<gates, granted, side>>
  PROVE  FenceInv'
<1>1. spot' \in Spots /\ \A d \in Clients : spot'[d] = IF d = c THEN to ELSE spot[d]
  BY DEF FenceInv, GateTypes, Spots
<1>2. ASSUME NEW g \in Gates, NEW i \in DOMAIN gates[g].waiters
      PROVE  spot'[gates[g].waiters[i].client] # "outside"
  BY <1>1, WaiterIsClient DEF FenceInv, GateTypes
<1> QED BY <1>1, <1>2 DEF FenceInv, GateTypes

\* The process dies.
LEMMA FenceLostKeeps ==
  ASSUME FenceInv, NEW g \in Gates, FenceLost(g)
  PROVE  FenceInv'
<1>1. /\ granted' = {c \in granted : GateOf[c] # g} /\ side' = side
      /\ gates' = [gates EXCEPT ![g] = Open]
  BY DEF FenceLost, FenceInv, GateTypes
<1>2. /\ spot' \in Spots
      /\ \A c \in Clients : spot'[c] = IF GateOf[c] = g THEN "outside" ELSE spot[c]
  BY DEF FenceLost, FenceInv, GateTypes, Spots
<1>3. Open \in GateType /\ DOMAIN Open.waiters = {} /\ Admitted(Open) = {}
  BY DEF Open, GateType, Admitted
<1>4. GateTypes'
  BY <1>1, <1>2, <1>3 DEF FenceInv, GateTypes
<1>5. GateFits(g, Open, granted', side')
  <2>1. \A s : Holders(g, granted', side', s) = {}
    BY <1>1 DEF Holders
  <2>2. Open.shared = 0 /\ ~Open.exclusive BY DEF Open
  <2> QED BY <1>1, <1>3, <2>1, <2>2, FS_EmptySet DEF GateFits
<1>6. ASSUME NEW f \in Gates, f # g
      PROVE  /\ GateFits(f, gates'[f], granted', side') /\ Admitted(gates'[f]) = {}
             /\ \A i \in DOMAIN gates'[f].waiters : spot'[gates'[f].waiters[i].client] # "outside"
  <2>1. gates'[f] = gates[f] /\ gates[f] \in GateType
    BY <1>1, <1>6 DEF FenceInv, GateTypes
  <2>2. GateFits(f, gates[f], granted', side')
    <3>1. \A c \in Clients : GateOf[c] = f =>
            (c \in granted <=> c \in granted') /\ side[c] = side'[c]
      BY <1>1, <1>6
    <3> QED BY <1>4, <2>1, <3>1, OwnClients DEF FenceInv, GateTypes
  <2>3. ASSUME NEW i \in DOMAIN gates[f].waiters
        PROVE  spot'[gates[f].waiters[i].client] # "outside"
    BY <1>2, <1>6, <2>1, WaiterIsClient DEF FenceInv, GateFits
  <2> QED BY <2>1, <2>2, <2>3 DEF FenceInv
<1>7. /\ gates'[g] = Open
      /\ \A i \in DOMAIN gates'[g].waiters : spot'[gates'[g].waiters[i].client] # "outside"
  BY <1>1, <1>3 DEF FenceInv, GateTypes
<1>8. ASSUME NEW c \in Clients
      PROVE  (spot'[c] = "inside" => c \in granted') /\ (c \in granted' => spot'[c] # "outside")
  BY <1>1, <1>2 DEF FenceInv
<1> QED BY <1>3, <1>4, <1>5, <1>6, <1>7, <1>8 DEF FenceInv


-----------------------------------------------------------------------------
(* The fence, with clients that do anything.                               *)

\* A new fence.
LEMMA FenceInitial == FenceInit => FenceInv
<1> SUFFICES ASSUME FenceInit PROVE FenceInv
  OBVIOUS
<1>1. Open \in GateType /\ DOMAIN Open.waiters = {} /\ Admitted(Open) = {}
  BY DEF Open, GateType, Admitted
<1>2. GateTypes
  BY <1>1 DEF FenceInit, GateTypes, Sides, Spots
<1>3. ASSUME NEW g \in Gates
      PROVE  GateFits(g, Open, granted, side)
  <2>1. \A s : Holders(g, granted, side, s) = {}
    BY DEF Holders, FenceInit
  <2>2. Open.shared = 0 /\ ~Open.exclusive BY DEF Open
  <2> QED BY <1>1, <2>1, <2>2, FS_EmptySet DEF GateFits, FenceInit
<1> QED BY <1>1, <1>2, <1>3 DEF FenceInit, FenceInv

\* A step of any client.
LEMMA FenceStep == FenceInv /\ [FenceNext]_fenceVars => FenceInv'
<1> SUFFICES ASSUME FenceInv, [FenceNext]_fenceVars PROVE FenceInv'
  OBVIOUS
<1>1. ASSUME NEW c \in Clients, GateStep(c) PROVE FenceInv'
  <2>1. CASE \E exclusive \in BOOLEAN : Acquire(c, exclusive)
    BY <2>1, AcquireKeeps
  <2>2. CASE Enter(c)
    BY <2>2, SpotMoves DEF Enter
  <2>3. CASE GiveUp(c)
    BY <2>3, SpotMoves DEF GiveUp
  <2>4. CASE Leave(c)
    BY <2>4, LeaveKeeps
  <2>5. CASE Release(c)
    BY <2>5, HandBackKeeps DEF Release, FenceInv
  <2> QED BY <1>1, <2>1, <2>2, <2>3, <2>4, <2>5 DEF GateStep
<1>2. ASSUME NEW c \in Clients, LeaseStep(c) PROVE FenceInv'
  <2>1. UNCHANGED gateVars
    BY <1>2 DEF LeaseStep, Ask, TakeToken, Wait, StopWaiting, ReturnToken, CountOut, Forget
  <2> QED BY <2>1 DEF gateVars, FenceInv, GateTypes
<1>3. CASE UNCHANGED fenceVars
  BY <1>3 DEF fenceVars, FenceInv, GateTypes
<1> QED BY <1>1, <1>2, <1>3, FenceLostKeeps DEF FenceNext

\* The books are right as long as clients use the fence.
LEMMA FenceInvariant == FenceSpec => []FenceInv
<1> QED BY FenceInitial, FenceStep, PTL DEF FenceSpec

\* Who is inside was granted its section, and the sections exclude each other.
LEMMA InvExcludes == FenceInv => Exclusion
BY ClientAssumption DEF FenceInv, GateFits, Exclusion

\* The gate does not let in the head of its queue: it is taken, and by whom it is
\* taken is in its books.
LEMMA InvGrants == FenceInv => NoLostGrant
<1> SUFFICES ASSUME FenceInv, NEW g \in Gates, gates[g].waiters # <<>>
             PROVE  \E c \in granted :
                      /\ GateOf[c] = g /\ spot[c] # "outside"
                      /\ Head(gates[g].waiters).exclusive \/ side[c] = "exclusive"
  BY DEF NoLostGrant
<1> DEFINE gt == gates[g]
<1>1. gt \in GateType /\ GateFits(g, gt, granted, side) /\ Admitted(gt) = {}
  BY DEF FenceInv, GateTypes
<1>2. 1 \in DOMAIN gt.waiters /\ Head(gt.waiters) = gt.waiters[1]
  BY <1>1 DEF GateType
<1>3. \A s : Holders(g, granted, side, s) \subseteq granted
  BY DEF Holders
<1>4. gt.exclusive \/ (gt.waiters[1].exclusive /\ gt.shared # 0)
  BY <1>1, <1>2 DEF Admitted
<1>5. CASE gt.exclusive
  <2>1. PICK c \in Holders(g, granted, side, "exclusive") : TRUE
    BY <1>1, <1>5 DEF GateFits
  <2> QED BY <2>1 DEF Holders, FenceInv, GateTypes
<1>6. CASE gt.waiters[1].exclusive /\ gt.shared # 0
  <2>1. Holders(g, granted, side, "shared") # {}
    BY <1>1, <1>6, FS_EmptySet DEF GateFits
  <2>2. PICK c \in Holders(g, granted, side, "shared") : TRUE
    BY <2>1
  <2> QED BY <1>2, <1>6, <2>2 DEF Holders, FenceInv, GateTypes
<1> QED BY <1>4, <1>5, <1>6

-----------------------------------------------------------------------------
(* Maintenance is such clients.                                            *)

\* A pass does at the fence what a client does, or nothing.
LEMMA PassIsClient ==
  ASSUME NEW p \in Clients, PassStep(p) \/ StartDelete(p) \/ StartWindow(p) \/ Cancel(p)
  PROVE  GateStep(p) \/ LeaseStep(p) \/ UNCHANGED fenceVars
<1>1. CASE StartDelete(p) \/ FinishDelete(p) \/ RecordAnswer(p) \/ AtFence(p) \/ Cancel(p)
  BY <1>1 DEF StartDelete, FinishDelete, RecordAnswer, AtFence, Cancel, GateStep
<1>2. CASE StartWindow(p) \/ WaitForLease(p) \/ StartClaim(p) \/ EndWindow(p)
  BY <1>2 DEF StartWindow, WaitForLease, StartClaim, EndWindow, LeaseStep
<1>3. ASSUME Proceed(p) PROVE GateStep(p) \/ UNCHANGED fenceVars
  BY <1>3 DEF Proceed, GateStep
<1>4. CASE ClaimAnswer(p) \/ CreateAnswer(p) \/ ReclaimAnswer(p)
  BY <1>3, <1>4 DEF ClaimAnswer, CreateAnswer, ReclaimAnswer, Refused
<1>5. CASE Maintained(p) \/ InStore(p)
  BY <1>5 DEF Maintained, InStore
<1> QED BY <1>1, <1>2, <1>4, <1>5 DEF PassStep

\* So do all of them together, and what else happens.
LEMMA StepIsClients == [Next]_vars => [FenceNext]_fenceVars
<1> SUFFICES ASSUME [Next]_vars PROVE [FenceNext]_fenceVars
  OBVIOUS
<1>1. ASSUME NEW a \in Admins, AdminStep(a) \/ StartTransfer(a) PROVE UNCHANGED fenceVars
  BY <1>1 DEF AdminStep, TransferLook, TransferAnswer, InStore, StartTransfer
<1>2. CASE Tick \/ UNCHANGED vars
  BY <1>2 DEF Tick, vars
<1>3. ASSUME NEW g \in Gates, Crash(g) PROVE FenceLost(g)
  BY <1>3 DEF Crash
<1> QED BY <1>1, <1>2, <1>3, PassIsClient DEF Next, FenceNext

\* Deletions, windows, transfers and crashes use the fence as its clients may: the
\* composition implements the fence (run.go and fence.go).
THEOREM UsesTheFence == Spec => FenceSpec
<1>1. Init => FenceInit
  BY DEF Init
<1> QED BY <1>1, StepIsClients, PTL DEF Spec, FenceSpec

\* A full maintenance and a deletion are never inside one repository together, for
\* any number of passes, whatever was cancelled and whenever (fence.go, dispatch).
THEOREM ExclusionHolds == Spec => []Exclusion
BY UsesTheFence, FenceInvariant, InvExcludes, PTL

\* Nobody waits for a section that nobody has: a cancellation never loses a grant
\* (fence.go, acquire).
THEOREM NoGrantIsLost == Spec => []NoLostGrant
BY UsesTheFence, FenceInvariant, InvGrants, PTL

-----------------------------------------------------------------------------
(* The record store.                                                       *)

\* What publishing revision n of a record that was s may make of it.
Continues(s, r) ==
  \/ \E o \in Owners : r = [s EXCEPT !.owner = o, !.nextEligible = 0]
  \/ \E now \in 1 .. MaxTime :
       \/ r = [s EXCEPT !.nextEligible = now + Retry]
       \/ r = [s EXCEPT !.lastQuick = now, !.nextEligible = now + Quick]
       \/ r = [s EXCEPT !.lastQuick = now, !.lastFull = now, !.nextEligible = now + Quick]

\* What a call of the store holds, when the newest revision is n and reads s: nothing
\* from the future, of the newest revision what it reads, and, if it wants to publish
\* after the newest, something that continues it.
CallFits(c, n, s) ==
  /\ c.rev <= n
  /\ c.at \in {"forget", "recheck", "ok"} => c.rec \in Records /\ (c.rev = n => c.rec = s)
  /\ c.at = "read" => c.rev # 0
  /\ c.at \in {"list", "read"} => c.op = "load" /\ c.tries < LoadAttempts
  /\ c.op \in {"create", "swap"} => c.rec \in Records
  /\ c.at \in {"check", "link"} =>
       \/ c.op = "create" /\ c.rev = 0 /\ \E o \in Owners : c.rec = Unclaimed(o)
       \/ /\ c.op = "swap" /\ (c.at = "link" => c.rev # 0)
          /\ c.rev = n /\ n # 0 => Continues(s, c.rec)

Calls ==
  [op : {"none", "load", "create", "swap"},
   at : {"idle", "list", "read", "check", "link", "forget", "recheck"} \cup Answers,
   rec : Records \cup {NoFile}, rev : 0 .. MaxRevision, tries : 0 .. LoadAttempts]
Files == [Revisions -> Records \cup {NoFile}]

StoreInv ==
  /\ files \in Files
  /\ call \in [Writers -> Calls]
  /\ errors \in 0 .. MaxErrors
  /\ \A w \in Writers : CallFits(call[w], Newest, Stored)

\* The newest revision of the files f, and what it reads.
NewestOf(f) ==
  LET found == {r \in Revisions : f[r] # NoFile}
  IN IF found = {} THEN 0 ELSE CHOOSE r \in found : \A q \in found : q <= r
ReadsOf(f) == IF NewestOf(f) = 0 THEN NoFile ELSE f[NewestOf(f)]

LEMMA NewestIs ==
  ASSUME NEW f \in Files
  PROVE  /\ NewestOf(f) \in 0 .. MaxRevision
         /\ NewestOf(f) # 0 => f[NewestOf(f)] \in Records
         /\ \A r \in Revisions : f[r] # NoFile => r <= NewestOf(f)
         /\ \A n \in Revisions : f[n] # NoFile /\ (\A r \in Revisions : f[r] # NoFile => r <= n)
              => NewestOf(f) = n
<1> DEFINE found == {r \in Revisions : f[r] # NoFile}
           Highest(r) == \A q \in found : q <= r
<1>0. MaxRevision \in Nat /\ Revisions = 1 .. MaxRevision
  BY StoreAssumption DEF Revisions
<1>1. NewestOf(f) = IF found = {} THEN 0 ELSE CHOOSE r \in found : Highest(r)
  BY DEF NewestOf
<1>2. CASE found = {}
  BY <1>0, <1>1, <1>2
<1>3. CASE found # {}
  <2>1. \E r \in found : Highest(r)
    <3> DEFINE below == {MaxRevision - r : r \in found}
    <3>1. below \subseteq Nat /\ below # {}
      BY <1>0, <1>3
    <3>2. PICK n \in below : \A m \in below : n <= m
      BY <3>1, Least
    <3>3. PICK r \in found : n = MaxRevision - r
      BY <3>2
    <3>4. ASSUME NEW q \in found PROVE q <= r
      <4>1. MaxRevision - q \in below
        OBVIOUS
      <4>2. n <= MaxRevision - q /\ q \in Nat /\ r \in Nat
        BY <1>0, <3>2, <4>1
      <4> QED
        BY <1>0, <3>3, <4>2
    <3> QED
      BY <3>4
  <2> HIDE DEF Highest
  <2>2. NewestOf(f) \in found /\ Highest(NewestOf(f))
    BY <1>1, <1>3, <2>1
  <2> USE DEF Highest
  <2>3. ASSUME NEW n \in found, Highest(n) PROVE NewestOf(f) = n
    BY <1>0, <2>2, <2>3
  <2> QED
    BY <1>0, <2>2, <2>3 DEF Files
<1> QED
  BY <1>2, <1>3

LEMMA NewestNow ==
  /\ Newest = NewestOf(files) /\ Newest' = NewestOf(files')
  /\ Stored = ReadsOf(files) /\ Stored' = ReadsOf(files')
BY DEF Newest, NewestOf, Stored, ReadsOf

LEMMA StoredIs ==
  ASSUME NEW f \in Files
  PROVE  ReadsOf(f) = IF NewestOf(f) = 0 THEN NoFile ELSE f[NewestOf(f)]
BY DEF ReadsOf

\* Nothing at or above the newest revision is removed.
LEMMA RemovedBelow ==
  ASSUME NEW f \in Files, NEW e \in Files,
         \A r \in Revisions : e[r] = f[r] \/ (e[r] = NoFile /\ r < NewestOf(f))
  PROVE  NewestOf(e) = NewestOf(f) /\ ReadsOf(e) = ReadsOf(f)
<1>1. CASE NewestOf(f) = 0
  <2>1. \A r \in Revisions : f[r] = NoFile
    BY <1>1, NewestIs, StoreAssumption DEF Revisions
  <2>2. \A r \in Revisions : e[r] = NoFile
    BY <2>1
  <2>3. NewestOf(e) = 0
    BY <2>2 DEF NewestOf
  <2> QED
    BY <1>1, <2>3 DEF ReadsOf
<1>2. CASE NewestOf(f) # 0
  <2>1. /\ NewestOf(f) \in Revisions /\ f[NewestOf(f)] \in Records
        /\ \A r \in Revisions : f[r] # NoFile => r <= NewestOf(f)
    BY <1>2, NewestIs, StoreAssumption DEF Revisions
  <2>2. e[NewestOf(f)] = f[NewestOf(f)] /\ e[NewestOf(f)] # NoFile
    BY <2>1, NoFileAssumption, StoreAssumption DEF Revisions
  <2>3. \A r \in Revisions : e[r] # NoFile => r <= NewestOf(f)
    BY <2>1
  <2>4. NewestOf(e) = NewestOf(f)
    BY <2>1, <2>2, <2>3, NewestIs
  <2> QED
    BY <1>2, <2>2, <2>4 DEF ReadsOf
<1> QED
  BY <1>1, <1>2

\* A file linked to a free name is read if it is the one after the newest, and
\* invisible if not.
LEMMA Linked ==
  ASSUME NEW f \in Files, NEW n \in Revisions, f[n] = NoFile, n <= NewestOf(f) + 1,
         NEW r \in Records
  PROVE  LET e == [f EXCEPT ![n] = r] IN
         /\ e \in Files
         /\ \/ n < NewestOf(f) /\ NewestOf(e) = NewestOf(f) /\ ReadsOf(e) = ReadsOf(f)
            \/ n = NewestOf(f) + 1 /\ NewestOf(e) = n /\ ReadsOf(e) = r
<1> DEFINE e == [f EXCEPT ![n] = r]
<1>0. e \in Files /\ e[n] = r /\ \A q \in Revisions : q # n => e[q] = f[q]
  BY DEF Files
<1> HIDE DEF e
<1>1. /\ NewestOf(f) \in Nat /\ n \in Nat /\ n # 0 /\ r # NoFile
      /\ \A q \in Revisions : q \in Nat /\ (f[q] # NoFile => q <= NewestOf(f))
      /\ NewestOf(f) # 0 => f[NewestOf(f)] \in Records /\ NewestOf(f) \in Revisions
  BY NewestIs, NoFileAssumption, StoreAssumption DEF Revisions
<1>2. n # NewestOf(f)
  BY <1>1, NoFileAssumption
<1>3. CASE n < NewestOf(f)
  <2>1. e[NewestOf(f)] = f[NewestOf(f)] /\ e[NewestOf(f)] # NoFile /\ NewestOf(f) \in Revisions
    BY <1>0, <1>1, <1>3, NoFileAssumption
  <2>2. \A q \in Revisions : e[q] # NoFile => q <= NewestOf(f)
    BY <1>0, <1>1, <1>3
  <2>3. NewestOf(e) = NewestOf(f)
    BY <1>0, <2>1, <2>2, NewestIs
  <2> QED
    BY <1>0, <1>1, <1>3, <2>1, <2>3 DEF ReadsOf, e
<1>4. CASE n = NewestOf(f) + 1
  <2>1. \A q \in Revisions : e[q] # NoFile => q <= n
    BY <1>0, <1>1, <1>4
  <2>2. NewestOf(e) = n
    BY <1>0, <1>1, <2>1, NewestIs
  <2> QED
    BY <1>0, <1>1, <1>4, <2>2 DEF ReadsOf, e
<1> QED
  BY <1>1, <1>2, <1>3, <1>4

\* What a call holds still fits when the record stays, or goes on by a revision.
LEMMA CallStays ==
  ASSUME NEW c \in Calls, NEW n \in Nat, NEW s, NEW m, NEW t, CallFits(c, n, s),
         (m = n /\ t = s) \/ m = n + 1
  PROVE  CallFits(c, m, t)
<1>1. CASE m = n /\ t = s
  BY <1>1
<1>2. CASE m = n + 1
  <2>1. c.rev \in Nat /\ c.rev <= m /\ c.rev # m
    BY <1>2, StoreAssumption DEF CallFits, Calls
  <2> QED
    BY <2>1 DEF CallFits
<1> QED
  BY <1>1, <1>2

Rests == Newest' = Newest /\ Stored' = Stored
Publishes(w) ==
  /\ call[w].at = "link" /\ call[w].rev = Newest /\ call'[w].at = "forget"
  /\ Newest' = Newest + 1 /\ Stored' = call[w].rec

\* A call of one writer changes, and fits the store as it is then.
LEMMA OneCall ==
  ASSUME StoreInv, NEW w \in Writers, NEW c \in Calls, call' = [call EXCEPT ![w] = c],
         files' \in Files, errors' \in 0 .. MaxErrors, Rests \/ Publishes(w),
         CallFits(c, Newest', Stored')
  PROVE  StoreInv'
<1>1. Newest \in Nat
  BY NewestIs, NewestNow, StoreAssumption DEF StoreInv
<1>2. call' \in [Writers -> Calls]
  BY DEF StoreInv
<1>3. ASSUME NEW v \in Writers PROVE CallFits(call'[v], Newest', Stored')
  <2>1. CASE v = w
    BY <2>1 DEF StoreInv
  <2>2. CASE v # w
    <3>1. call'[v] = call[v] /\ call[v] \in Calls /\ CallFits(call[v], Newest, Stored)
      BY <2>2 DEF StoreInv
    <3> QED
      BY <1>1, <3>1, CallStays DEF Rests, Publishes
  <2> QED
    BY <2>1, <2>2
<1> QED
  BY <1>2, <1>3 DEF StoreInv

\* What a call of a record of the store is made of.
LEMMA CallIs ==
  ASSUME NEW c \in Calls
  PROVE  /\ c = [op |-> c.op, at |-> c.at, rec |-> c.rec, rev |-> c.rev, tries |-> c.tries]
         /\ c.op \in {"none", "load", "create", "swap"} /\ c.rec \in Records \cup {NoFile}
         /\ c.at \in {"idle", "list", "read", "check", "link", "forget", "recheck"} \cup Answers
         /\ c.rev \in 0 .. MaxRevision /\ c.tries \in 0 .. LoadAttempts
BY DEF Calls

\* A call goes on, to be this.
CallIsNow(w, at, rec, rev, tries) ==
  call' = [call EXCEPT ![w].at = at, ![w].rec = rec, ![w].rev = rev, ![w].tries = tries]
NowFits(w, at, rec, rev, tries) ==
  CallFits([op |-> call[w].op, at |-> at, rec |-> rec, rev |-> rev, tries |-> tries],
           Newest, Stored)

\* A step that removes nothing and links nothing: the call goes on.
LEMMA CallGoesOn ==
  ASSUME StoreInv, NEW w \in Writers, NEW at, NEW rec, NEW rev, NEW tries,
         files' = files, errors' \in 0 .. MaxErrors,
         CallIsNow(w, at, rec, rev, tries),
         at \in {"idle", "list", "read", "check", "link", "forget", "recheck"} \cup Answers,
         rec \in Records \cup {NoFile}, rev \in 0 .. MaxRevision, tries \in 0 .. LoadAttempts,
         NowFits(w, at, rec, rev, tries)
  PROVE  StoreInv' /\ Rests
<1> DEFINE c == [op |-> call[w].op, at |-> at, rec |-> rec, rev |-> rev, tries |-> tries]
<1>1. call[w] \in Calls /\ call \in [Writers -> Calls] /\ files \in Files
  BY DEF StoreInv
<1>2. call[w] = [op |-> call[w].op, at |-> call[w].at, rec |-> call[w].rec,
                 rev |-> call[w].rev, tries |-> call[w].tries]
      /\ call[w].op \in {"none", "load", "create", "swap"}
  BY <1>1, CallIs
<1>3. call' = [call EXCEPT ![w] = c]
  <2>1. call'[w] = c /\ DOMAIN call' = Writers /\ \A v \in Writers : v # w => call'[v] = call[v]
    BY <1>1, <1>2 DEF CallIsNow
  <2>2. call' = [v \in Writers |-> call'[v]]
    BY <1>1 DEF CallIsNow
  <2> HIDE DEF c
  <2> QED
    BY <1>1, <2>1, <2>2
<1>4. c \in Calls
  BY <1>2 DEF Calls
<1>5. Rests
  BY NewestNow DEF Rests
<1>7. CallFits(c, Newest, Stored)
  BY DEF NowFits
<1> HIDE DEF c
<1>6. CallFits(c, Newest', Stored') /\ files' \in Files
  BY <1>1, <1>5, <1>7 DEF Rests
<1> QED
  BY <1>3, <1>4, <1>5, <1>6, OneCall

\* A step of a call leaves every other one alone, and either the record stays, or it is
\* the call's own that follows it.
LEMMA StoreStepKeeps ==
  ASSUME StoreInv, NEW w \in Writers, StoreStep(w)
  PROVE  /\ StoreInv' /\ (Rests \/ Publishes(w))
         /\ \A v \in Writers : v # w => call'[v] = call[v]
<1>0. /\ files \in Files /\ call \in [Writers -> Calls] /\ errors \in 0 .. MaxErrors
      /\ call[w] \in Calls /\ CallFits(call[w], Newest, Stored)
      /\ MaxRevision \in Nat \ {0} /\ MaxErrors \in Nat /\ Newest \in 0 .. MaxRevision
      /\ Newest # 0 => files[Newest] \in Records
      /\ Stored = IF Newest = 0 THEN NoFile ELSE files[Newest]
  BY NewestIs, NewestNow, StoredIs, StoreAssumption DEF StoreInv
<1> DEFINE c == call[w]
<1>c. /\ c.op \in {"none", "load", "create", "swap"} /\ c.rec \in Records \cup {NoFile}
      /\ c.rev \in 0 .. MaxRevision /\ c.tries \in 0 .. LoadAttempts
      /\ c = [op |-> c.op, at |-> c.at, rec |-> c.rec, rev |-> c.rev, tries |-> c.tries]
  BY <1>0, CallIs
<1>f. CallFits(c, Newest, Stored)
  BY <1>0
<1> HIDE DEF c
<1>1. \A v \in Writers : v # w => call'[v] = call[v]
  BY <1>0 DEF StoreStep, LoadList, LoadRead, CreateCheck, SwapCheck, Link, ForgetOlder,
              CreateRecheck, CallFails, CallGoes
<1>2. CASE LoadList(w)
  <2> DEFINE at == IF Newest = 0 THEN "absent" ELSE "read"
  <2>1. CallIsNow(w, at, c.rec, Newest, c.tries)
    BY <1>0, <1>c, <1>2 DEF LoadList, c, CallIsNow
  <2>2. c.op = "load" /\ c.at = "list" /\ files' = files /\ errors' = errors
    BY <1>2 DEF LoadList, Asking, c
  <2>3. NowFits(w, at, c.rec, Newest, c.tries)
    BY <1>0, <1>f, <2>2 DEF CallFits, NowFits, c
  <2>4. at \in {"read", "absent"}
    OBVIOUS
  <2> HIDE DEF at
  <2> QED
    BY <1>0, <1>1, <1>c, <2>1, <2>2, <2>3, <2>4, CallGoesOn DEF Answers
<1>3. CASE LoadRead(w)
  <2> DEFINE found == files[c.rev]
             at == IF found # NoFile THEN "ok"
                   ELSE IF c.tries + 1 < LoadAttempts THEN "list" ELSE "failed"
  <2>1. CallIsNow(w, at, found, c.rev, c.tries + 1)
    BY <1>0, <1>c, <1>3 DEF LoadRead, c, CallIsNow
  <2>2. c.op = "load" /\ c.at = "read" /\ files' = files /\ errors' = errors
    BY <1>3 DEF LoadRead, Asking, c
  <2>3. c.rev \in Revisions /\ found \in Records \cup {NoFile} /\ c.tries + 1 \in 0 .. LoadAttempts
    BY <1>0, <1>c, <1>f, <2>2 DEF CallFits, Revisions, Files, LoadAttempts
  <2>4. c.rev = Newest => found = Stored
    BY <1>0, <2>3 DEF Revisions
  <2> HIDE DEF found
  <2>5. NowFits(w, at, found, c.rev, c.tries + 1)
    BY <1>f, <2>2, <2>3, <2>4 DEF CallFits, NowFits, c
  <2>6. at \in {"ok", "list", "failed"}
    OBVIOUS
  <2> HIDE DEF at
  <2> QED
    BY <1>0, <1>1, <1>c, <2>1, <2>2, <2>3, <2>5, <2>6, CallGoesOn DEF Answers
<1>4. ASSUME NEW at, CallGoes(w, at), files' = files, errors' \in 0 .. MaxErrors,
             \/ at \in {"absent", "exists", "stale", "failed"}
             \/ at = "link" /\ c.at = "check" /\ c.op = "create"
             \/ at = "link" /\ c.at = "check" /\ c.op = "swap" /\ Newest # 0 /\ c.rev = Newest
             \/ at = "ok" /\ c.at = "recheck"
      PROVE  StoreInv' /\ Rests
  <2>1. CallIsNow(w, at, c.rec, c.rev, c.tries)
    BY <1>0, <1>c, <1>4 DEF CallGoes, c, CallIsNow
  <2>2. NowFits(w, at, c.rec, c.rev, c.tries)
    BY <1>f, <1>4 DEF CallFits, NowFits, c
  <2>3. at \in Answers \cup {"link"}
    BY <1>4 DEF Answers
  <2>4. at \in {"idle", "list", "read", "check", "link", "forget", "recheck"} \cup Answers
    BY <2>3
  <2> QED
    BY <1>0, <1>4, <1>c, <2>1, <2>2, <2>4, CallGoesOn
<1>5. CASE CreateCheck(w)
  <2>1. c.op = "create" /\ c.at = "check" /\ files' = files /\ errors' = errors
        /\ (CallGoes(w, "link") \/ CallGoes(w, "exists"))
    BY <1>5 DEF CreateCheck, Asking, c
  <2> QED
    BY <1>0, <1>1, <1>4, <2>1
<1>6. CASE SwapCheck(w)
  <2>1. /\ c.op = "swap" /\ c.at = "check" /\ files' = files /\ errors' = errors
        /\ \/ CallGoes(w, "absent") \/ CallGoes(w, "stale")
           \/ Newest # 0 /\ c.rev = Newest /\ CallGoes(w, "link")
    BY <1>6 DEF SwapCheck, Asking, c
  <2> QED
    BY <1>0, <1>1, <1>4, <2>1
<1>7. CASE Link(w)
  <2> DEFINE next == c.rev + 1
  <2>0. c.at = "link" /\ errors' = errors
    BY <1>7 DEF Link, c
  <2>1. CASE files' = files
    <3>1. PICK at \in {"exists", "stale", "failed"} : CallGoes(w, at)
      <4>1. ASSUME next \in Revisions, files[next] = NoFile, files' = [files EXCEPT ![next] = c.rec]
            PROVE  FALSE
        <5>1. c.rec \in Records /\ c.rec # NoFile
          BY <1>f, <2>0, NoFileAssumption DEF CallFits
        <5>2. files'[next] = c.rec
          BY <1>0, <4>1 DEF Files
        <5> QED
          BY <2>1, <4>1, <5>1, <5>2
      <4> QED
        BY <1>7, <4>1 DEF Link, c
    <3> QED
      BY <1>0, <1>1, <1>4, <2>0, <2>1, <3>1
  <2>2. CASE files' # files
    <3>1. /\ next \in Revisions /\ files[next] = NoFile
          /\ files' = [files EXCEPT ![next] = c.rec]
          /\ call' = [call EXCEPT ![w].at = "forget", ![w].rev = next]
      BY <1>7, <2>2 DEF Link, c
    <3>2. c.rec \in Records /\ next <= Newest + 1
      BY <1>0, <1>c, <1>f, <2>0 DEF CallFits
    <3>3. /\ files' \in Files
          /\ \/ next < Newest /\ Newest' = Newest /\ Stored' = Stored
             \/ next = Newest + 1 /\ Newest' = next /\ Stored' = c.rec
      BY <1>0, <3>1, <3>2, Linked, NewestNow
    <3>4. c.rev = Newest <=> next = Newest + 1
      BY <1>0, <1>c
    <3> DEFINE d == [op |-> c.op, at |-> "forget", rec |-> c.rec, rev |-> next, tries |-> c.tries]
    <3>5. call' = [call EXCEPT ![w] = d]
      BY <1>0, <1>c, <3>1 DEF c
    <3>6. d \in Calls
      BY <1>c, <3>1 DEF Calls, Revisions
    <3>7. CallFits(d, Newest', Stored')
      BY <1>0, <1>c, <3>2, <3>3 DEF CallFits
    <3>8. call'[w].at = "forget"
      BY <1>0, <3>5
    <3> HIDE DEF d
    <3>9. Rests \/ Publishes(w)
      BY <2>0, <3>3, <3>4, <3>8 DEF Rests, Publishes, c
    <3> QED
      BY <1>0, <1>1, <2>0, <3>3, <3>5, <3>6, <3>7, <3>9, OneCall
  <2> QED
    BY <2>1, <2>2
<1>8. CASE ForgetOlder(w) \/ CreateRecheck(w)
  <2>1. PICK at \in {"exists", "ok", "recheck"} : CallGoes(w, at)
    BY <1>8 DEF ForgetOlder, CreateRecheck
  <2>2. c.at \in {"forget", "recheck"} /\ errors' = errors
    BY <1>8 DEF ForgetOlder, CreateRecheck, Asking, c
  <2>3. files' \in Files /\ \A r \in Revisions : files'[r] = files[r]
                                                 \/ (files'[r] = NoFile /\ r < Newest)
    <3>1. CASE ForgetOlder(w)
      <4>1. PICK gone \in SUBSET {r \in Revisions : r < c.rev /\ files[r] # NoFile} :
              files' = [r \in Revisions |-> IF r \in gone THEN NoFile ELSE files[r]]
        BY <3>1 DEF ForgetOlder, c
      <4>2. \A r \in gone : r < Newest
        BY <1>0, <1>c, <1>f, <4>1 DEF CallFits, Revisions
      <4> QED
        BY <1>0, <4>1, <4>2 DEF Files
    <3>2. CASE CreateRecheck(w)
      <4>1. files' = files \/ (Newest > 1 /\ files' = [files EXCEPT ![1] = NoFile])
        BY <3>2 DEF CreateRecheck
      <4> QED
        BY <1>0, <4>1 DEF Files, Revisions
    <3> QED
      BY <1>8, <3>1, <3>2
  <2>4. Rests
    BY <1>0, <2>3, RemovedBelow, NewestNow DEF Rests
  <2> DEFINE d == [op |-> c.op, at |-> at, rec |-> c.rec, rev |-> c.rev, tries |-> c.tries]
  <2>5. call' = [call EXCEPT ![w] = d]
    <3>1. d = [c EXCEPT !.at = at]
      BY <1>c
    <3>2. call' = [call EXCEPT ![w] = [c EXCEPT !.at = at]]
      BY <2>1 DEF c, CallGoes
    <3> QED
      BY <3>1, <3>2
  <2>6. d \in Calls
    BY <1>c DEF Calls, Answers
  <2>7. CallFits(d, Newest', Stored')
    <3>1. CallFits(d, Newest, Stored)
      BY <1>f, <2>2 DEF CallFits
    <3> HIDE DEF d
    <3> QED
      BY <2>4, <3>1 DEF Rests
  <2> HIDE DEF d
  <2> QED
    BY <1>0, <1>1, <2>2, <2>3, <2>4, <2>5, <2>6, <2>7, OneCall
<1>9. CASE CallFails(w)
  <2>1. errors' \in 0 .. MaxErrors /\ files' = files
    BY <1>0, <1>9 DEF CallFails
  <2>2. CallGoes(w, "failed") \/ (c.at = "recheck" /\ CallGoes(w, "ok"))
    BY <1>9 DEF CallFails, c
  <2> QED
    BY <1>0, <1>1, <1>4, <2>1, <2>2
<1> QED
  BY <1>2, <1>3, <1>5, <1>6, <1>7, <1>8, <1>9 DEF StoreStep

-----------------------------------------------------------------------------
(* The record, with the passes and administrators that write it.           *)

\* What a pass holds of the record, when the newest revision is n and reads s.
JobFits(j, n, s) ==
  /\ j.rev <= n /\ (j.rev = n => j.rec = s)
  /\ j.pc = "window" => j.rec \in Records /\ j.mode \in Modes
  /\ j.pc \notin {"idle", "delete"} => j.now # 0

Jobs ==
  [pc : {"idle", "delete", "lease", "claim", "create", "reclaim", "window", "record", "end"},
   mode : Modes \cup {"none"}, due : BOOLEAN, now : 0 .. MaxTime,
   rec : Records \cup {NoFile}, rev : 0 .. MaxRevision, handed : Nat]
Moves == [pc : {"idle", "look", "move"}, from : Owners \cup {NoFile}, to : Owners \cup {NoFile}]

RecordInv ==
  /\ StoreInv
  /\ job \in [Clients -> Jobs] /\ move \in [Admins -> Moves]
  /\ clock \in 1 .. MaxTime /\ handed \in Nat
  /\ \A p \in Clients : JobFits(job[p], Newest, Stored)
  /\ \A a \in Admins : move[a].pc = "look" => move[a].to \in Owners

\* What a pass holds still fits when the record goes on.
LEMMA JobStays ==
  ASSUME NEW j \in Jobs, NEW n \in Nat, NEW s, NEW m, NEW t, JobFits(j, n, s),
         (m = n /\ t = s) \/ m = n + 1
  PROVE  JobFits(j, m, t)
<1>1. CASE m = n /\ t = s
  BY <1>1
<1>2. CASE m = n + 1
  <2>1. j.rev \in Nat /\ j.rev <= m /\ j.rev # m
    BY <1>2, StoreAssumption DEF JobFits, Jobs
  <2> QED
    BY <2>1 DEF JobFits
<1> QED
  BY <1>1, <1>2

LEMMA JobIs ==
  ASSUME NEW j \in Jobs
  PROVE  /\ j = [pc |-> j.pc, mode |-> j.mode, due |-> j.due, now |-> j.now, rec |-> j.rec,
                 rev |-> j.rev, handed |-> j.handed]
         /\ j.mode \in Modes \cup {"none"} /\ j.due \in BOOLEAN /\ j.now \in 0 .. MaxTime
         /\ j.rec \in Records \cup {NoFile} /\ j.rev \in 0 .. MaxRevision /\ j.handed \in Nat
BY DEF Jobs

\* The types the invariant gives.
LEMMA RecordTypes ==
  ASSUME RecordInv
  PROVE  /\ files \in Files /\ call \in [Writers -> Calls] /\ job \in [Clients -> Jobs]
         /\ Newest \in 0 .. MaxRevision /\ MaxRevision \in Nat \ {0}
         /\ Newest # 0 => Stored \in Records
         /\ Newest = 0 => Stored = NoFile
         /\ Clients \subseteq Writers /\ Admins \subseteq Writers /\ Clients \cap Admins = {}
BY NewestIs, NewestNow, StoredIs, StoreAssumption, MaintenanceAssumption DEF RecordInv, StoreInv

\* A call as it begins.
LEMMA AskedIs ==
  ASSUME NEW op, NEW at, NEW rec, NEW rev
  PROVE  [Unasked EXCEPT !.op = op, !.at = at, !.rec = rec, !.rev = rev] =
           [op |-> op, at |-> at, rec |-> rec, rev |-> rev, tries |-> 0]
<1> DEFINE x == [Unasked EXCEPT !.op = op, !.at = at, !.rec = rec, !.rev = rev]
           y == [op |-> op, at |-> at, rec |-> rec, rev |-> rev, tries |-> 0]
<1>1. DOMAIN Unasked = {"op", "at", "rec", "rev", "tries"} /\ Unasked.tries = 0
  BY DEF Unasked
<1>2. /\ DOMAIN x = DOMAIN Unasked /\ x = [f \in DOMAIN x |-> x[f]]
      /\ x.op = op /\ x.at = at /\ x.rec = rec /\ x.rev = rev /\ x.tries = 0
  BY <1>1 DEF Unasked
<1>3. /\ DOMAIN y = {"op", "at", "rec", "rev", "tries"} /\ y = [f \in DOMAIN y |-> y[f]]
      /\ y.op = op /\ y.at = at /\ y.rec = rec /\ y.rev = rev /\ y.tries = 0
  OBVIOUS
<1> HIDE DEF x, y
<1>4. \A f \in DOMAIN y : x[f] = y[f]
  BY <1>1, <1>2, <1>3
<1> QED
  BY <1>1, <1>2, <1>3, <1>4 DEF x, y

\* A record with the times of a quick window.
LEMMA QuickIs ==
  ASSUME NEW r \in Records, NEW a, NEW b
  PROVE  [r EXCEPT !.lastQuick = a, !.nextEligible = b] =
           [owner |-> r.owner, lastQuick |-> a, lastFull |-> r.lastFull, nextEligible |-> b]
<1> DEFINE x == [r EXCEPT !.lastQuick = a, !.nextEligible = b]
           y == [owner |-> r.owner, lastQuick |-> a, lastFull |-> r.lastFull, nextEligible |-> b]
<1>1. DOMAIN r = {"owner", "lastQuick", "lastFull", "nextEligible"}
  BY DEF Records
<1>2. /\ DOMAIN x = DOMAIN r /\ x = [f \in DOMAIN x |-> x[f]]
      /\ x.owner = r.owner /\ x.lastQuick = a /\ x.lastFull = r.lastFull /\ x.nextEligible = b
  BY <1>1
<1>3. /\ DOMAIN y = {"owner", "lastQuick", "lastFull", "nextEligible"}
      /\ y = [f \in DOMAIN y |-> y[f]]
      /\ y.owner = r.owner /\ y.lastQuick = a /\ y.lastFull = r.lastFull /\ y.nextEligible = b
  OBVIOUS
<1> HIDE DEF x, y
<1>4. \A f \in DOMAIN y : x[f] = y[f]
  BY <1>1, <1>2, <1>3
<1> QED
  BY <1>1, <1>2, <1>3, <1>4 DEF x, y

\* A call that begins, and one whose answer is taken.
LEMMA BeginKeeps ==
  ASSUME RecordInv, NEW w \in Writers, NEW op \in {"load", "create", "swap"},
         NEW at \in {"list", "check"}, NEW rec \in Records \cup {NoFile},
         NEW rev \in 0 .. MaxRevision, Begin(w, op, at, rec, rev),
         CallFits([op |-> op, at |-> at, rec |-> rec, rev |-> rev, tries |-> 0], Newest, Stored)
  PROVE  StoreInv' /\ Rests
<1> DEFINE c == [op |-> op, at |-> at, rec |-> rec, rev |-> rev, tries |-> 0]
<1>1. call' = [call EXCEPT ![w] = c] /\ files' = files /\ errors' = errors
  <2>1. [Unasked EXCEPT !.op = op, !.at = at, !.rec = rec, !.rev = rev] = c
    BY AskedIs
  <2> HIDE DEF c
  <2> QED
    BY <2>1 DEF Begin
<1>2. c \in Calls
  BY DEF Calls, LoadAttempts
<1>3. Rests
  BY <1>1, NewestNow DEF Rests
<1>4. CallFits(c, Newest, Stored)
  OBVIOUS
<1> HIDE DEF c
<1>5. CallFits(c, Newest', Stored') /\ files' \in Files /\ errors' \in 0 .. MaxErrors
  BY <1>1, <1>3, <1>4 DEF Rests, RecordInv, StoreInv
<1> QED
  BY <1>1, <1>2, <1>3, <1>5, OneCall DEF RecordInv

LEMMA UnaskedFits ==
  ASSUME NEW n \in Nat, NEW s
  PROVE  Unasked \in Calls /\ CallFits(Unasked, n, s)
BY StoreAssumption DEF Unasked, Calls, CallFits, LoadAttempts

LEMMA TakeAnswerKeeps ==
  ASSUME RecordInv, NEW w \in Writers, TakeAnswer(w)
  PROVE  StoreInv' /\ Rests
<1>1. call' = [call EXCEPT ![w] = Unasked] /\ files' = files /\ errors' = errors
  BY DEF TakeAnswer
<1>2. Rests
  BY <1>1, NewestNow DEF Rests
<1>3. Unasked \in Calls /\ CallFits(Unasked, Newest', Stored')
  BY <1>2, UnaskedFits, RecordTypes DEF Rests
<1> QED
  BY <1>1, <1>2, <1>3, OneCall DEF RecordInv, StoreInv

LEMMA NothingAsked ==
  ASSUME RecordInv, UNCHANGED storeVars
  PROVE  StoreInv' /\ Rests
BY NewestNow DEF storeVars, RecordInv, StoreInv, Rests, Newest, Stored

\* A pass goes on, over the record as it was.
LEMMA OneJob ==
  ASSUME RecordInv, StoreInv', Rests, NEW p \in Clients, NEW j \in Jobs,
         job' = [job EXCEPT ![p] = j], JobFits(j, Newest, Stored),
         UNCHANGED <<move, clock, handed>>
  PROVE  RecordInv'
<1>1. job' \in [Clients -> Jobs]
  BY DEF RecordInv
<1>2. ASSUME NEW q \in Clients PROVE JobFits(job'[q], Newest', Stored')
  BY DEF RecordInv, Rests
<1> QED
  BY <1>1, <1>2 DEF RecordInv

LEMMA NoJob ==
  ASSUME RecordInv, StoreInv', Rests, UNCHANGED <<job, move, clock, handed>>
  PROVE  RecordInv'
BY DEF RecordInv, Rests

LEMMA IdleFits ==
  ASSUME RecordInv
  PROVE  Idle \in Jobs /\ JobFits(Idle, Newest, Stored)
BY RecordTypes, MaintenanceAssumption DEF Idle, Jobs, JobFits

\* A pass only goes somewhere, not into a window.
LEMMA GotoKeeps ==
  ASSUME RecordInv, StoreInv', Rests, NEW p \in Clients, NEW pc, Goto(p, pc),
         pc \in {"delete", "create", "reclaim", "record", "end"},
         pc # "delete" => job[p].pc \notin {"idle", "delete"},
         UNCHANGED <<move, clock, handed>>
  PROVE  RecordInv'
<1> DEFINE j == [job[p] EXCEPT !.pc = pc]
<1>1. job[p] \in Jobs /\ JobFits(job[p], Newest, Stored)
  BY DEF RecordInv
<1>2. j = [pc |-> pc, mode |-> job[p].mode, due |-> job[p].due, now |-> job[p].now,
           rec |-> job[p].rec, rev |-> job[p].rev, handed |-> job[p].handed]
  BY <1>1, JobIs
<1>3. j \in Jobs
  BY <1>1, <1>2, JobIs DEF Jobs
<1>4. JobFits(j, Newest, Stored)
  BY <1>1, <1>2 DEF JobFits
<1>5. job' = [job EXCEPT ![p] = j]
  BY DEF Goto
<1> HIDE DEF j
<1> QED
  BY <1>3, <1>4, <1>5, OneJob

LEMMA StopKeeps ==
  ASSUME RecordInv, StoreInv', Rests, NEW p \in Clients, Stop(p), UNCHANGED <<move, clock, handed>>
  PROVE  RecordInv'
BY IdleFits, OneJob DEF Stop

\* What a window records continues what it was decided from.
LEMMA FoldedContinues ==
  ASSUME NEW r \in Records, NEW mode \in Modes, NEW now \in 1 .. MaxTime, NEW succeeded \in BOOLEAN
  PROVE  /\ Folded(r, mode, now, succeeded) \in Records
         /\ Continues(r, Folded(r, mode, now, succeeded))
<1> DEFINE f == Folded(r, mode, now, succeeded)
<1>0. /\ r = [owner |-> r.owner, lastQuick |-> r.lastQuick, lastFull |-> r.lastFull,
              nextEligible |-> r.nextEligible]
      /\ r.owner \in Owners /\ r.lastQuick \in Nat /\ r.lastFull \in Nat
      /\ now \in Nat /\ now + Retry \in Nat /\ now + Quick \in Nat
  BY MaintenanceAssumption DEF Records
<1>1. CASE ~succeeded
  <2>1. f = [r EXCEPT !.nextEligible = now + Retry]
    BY <1>1 DEF Folded
  <2> QED
    BY <1>0, <2>1 DEF Records, Continues
<1>2. CASE succeeded /\ mode = "full"
  <2>1. f = [r EXCEPT !.lastQuick = now, !.lastFull = now, !.nextEligible = now + Quick]
    BY <1>2 DEF Folded
  <2> QED
    BY <1>0, <2>1 DEF Records, Continues
<1>3. CASE succeeded /\ mode = "quick"
  <2>1. f = [owner |-> r.owner, lastQuick |-> now, lastFull |-> r.lastFull,
             nextEligible |-> now + Quick]
    BY <1>0, <1>3 DEF Folded
  <2>2. [r EXCEPT !.lastQuick = now, !.nextEligible = now + Quick] =
          [owner |-> r.owner, lastQuick |-> now, lastFull |-> r.lastFull,
           nextEligible |-> now + Quick]
    BY QuickIs
  <2> QED
    BY <1>0, <2>1, <2>2 DEF Records, Continues
<1> QED
  BY <1>1, <1>2, <1>3 DEF Modes

LEMMA UnclaimedIs ==
  ASSUME NEW o \in Owners PROVE Unclaimed(o) \in Records
BY DEF Unclaimed, Records

LEMMA DueIsMode ==
  ASSUME NEW rec, NEW now PROVE Due(rec, now) \in Modes \cup {"none"}
BY DEF Due, Modes

\* Who decides to run holds the record as it answered, and a mode.
LEMMA ProceedKeeps ==
  ASSUME RecordInv, NEW p \in Clients, call[p].at = "ok", Proceed(p),
         job[p].pc \notin {"idle", "delete"}, UNCHANGED <<move, clock, handed>>
  PROVE  RecordInv' /\ Rests
<1> DEFINE mode == IF job[p].due THEN Due(call[p].rec, job[p].now) ELSE job[p].mode
<1>1. /\ job[p] \in Jobs /\ JobFits(job[p], Newest, Stored)
      /\ call[p] \in Calls /\ CallFits(call[p], Newest, Stored) /\ p \in Writers
      /\ job \in [Clients -> Jobs]
  BY RecordTypes DEF RecordInv, StoreInv
<1>2. mode \in Modes \cup {"none"}
  BY <1>1, DueIsMode, JobIs
<1> HIDE DEF mode
<1>3. /\ \/ mode = "none" /\ Goto(p, "end")
         \/ mode # "none" /\ job' = [job EXCEPT ![p].pc = "window", ![p].mode = mode,
                                                ![p].rec = call[p].rec, ![p].rev = call[p].rev]
      /\ TakeAnswer(p)
  BY DEF Proceed, mode
<1>4. StoreInv' /\ Rests
  BY <1>1, <1>3, TakeAnswerKeeps
<1>5. CASE mode = "none"
  BY <1>3, <1>4, <1>5, GotoKeeps
<1>6. CASE mode # "none"
  <2> DEFINE j == [pc |-> "window", mode |-> mode, due |-> job[p].due, now |-> job[p].now,
                   rec |-> call[p].rec, rev |-> call[p].rev, handed |-> job[p].handed]
  <2>1. job' = [job EXCEPT ![p] = j]
    <3>1. job' = [job EXCEPT ![p].pc = "window", ![p].mode = mode,
                             ![p].rec = call[p].rec, ![p].rev = call[p].rev]
      BY <1>3, <1>6
    <3>2. /\ job' = [q \in Clients |-> job'[q]]
          /\ \A q \in Clients : q # p => job'[q] = job[q]
      BY <1>1, <3>1
    <3>3. /\ job'[p] = [f \in DOMAIN job[p] |-> job'[p][f]]
          /\ DOMAIN job[p] = {"pc", "mode", "due", "now", "rec", "rev", "handed"}
          /\ job'[p].pc = "window" /\ job'[p].mode = mode /\ job'[p].due = job[p].due
          /\ job'[p].now = job[p].now /\ job'[p].rec = call[p].rec /\ job'[p].rev = call[p].rev
          /\ job'[p].handed = job[p].handed
      BY <1>1, <3>1 DEF Jobs
    <3>4. /\ DOMAIN j = {"pc", "mode", "due", "now", "rec", "rev", "handed"}
          /\ j = [f \in DOMAIN j |-> j[f]]
          /\ j.pc = "window" /\ j.mode = mode /\ j.due = job[p].due
          /\ j.now = job[p].now /\ j.rec = call[p].rec /\ j.rev = call[p].rev
          /\ j.handed = job[p].handed
      OBVIOUS
    <3> HIDE DEF j
    <3>5. \A f \in DOMAIN j : job'[p][f] = j[f]
      BY <3>3, <3>4
    <3>6. job'[p] = j
      BY <3>3, <3>4, <3>5
    <3> QED
      BY <1>1, <3>2, <3>6
  <2>2. call[p].rec \in Records /\ call[p].rev <= Newest
        /\ (call[p].rev = Newest => call[p].rec = Stored)
    BY <1>1 DEF CallFits
  <2>3. j \in Jobs
    BY <1>1, <1>2, CallIs, JobIs DEF Jobs
  <2>4. JobFits(j, Newest, Stored)
    BY <1>1, <1>2, <1>6, <2>2 DEF JobFits
  <2> HIDE DEF j
  <2> QED
    BY <1>4, <2>1, <2>3, <2>4, OneJob
<1> QED
  BY <1>4, <1>5, <1>6

LEMMA RefusedKeeps ==
  ASSUME RecordInv, NEW p \in Clients, Refused(p), job[p].pc \notin {"idle", "delete"},
         UNCHANGED <<move, clock, handed>>
  PROVE  RecordInv' /\ Rests
<1>1. StoreInv' /\ Rests
  BY TakeAnswerKeeps, RecordTypes DEF Refused
<1> QED
  BY <1>1, GotoKeeps DEF Refused

\* A load begins.
LEMMA LoadKeeps ==
  ASSUME RecordInv, NEW w \in Writers, BeginLoad(w)
  PROVE  StoreInv' /\ Rests
<1>1. CallFits([op |-> "load", at |-> "list", rec |-> NoFile, rev |-> 0, tries |-> 0],
               Newest, Stored)
  BY RecordTypes DEF CallFits, LoadAttempts
<1>2. 0 \in 0 .. MaxRevision
  BY RecordTypes
<1> QED
  BY <1>1, <1>2, BeginKeeps DEF BeginLoad

LEMMA AnswerKeeps ==
  ASSUME RecordInv, NEW p \in Clients, ClaimAnswer(p) \/ CreateAnswer(p) \/ ReclaimAnswer(p)
  PROVE  RecordInv' /\ Rests
<1>0. job[p].pc \notin {"idle", "delete"} /\ UNCHANGED <<move, clock, handed>>
  BY DEF ClaimAnswer, CreateAnswer, ReclaimAnswer, At, bounds
<1>1. CASE call[p].at = "ok" /\ Proceed(p)
  BY <1>0, <1>1, ProceedKeeps
<1>2. CASE Refused(p)
  BY <1>0, <1>2, RefusedKeeps
<1>3. CASE BeginCreate(p, Unclaimed(GateOf[p])) /\ Goto(p, "create")
  <2> DEFINE rec == Unclaimed(GateOf[p])
  <2>1. GateOf[p] \in Owners
    BY ClientAssumption, MaintenanceAssumption
  <2>2. rec \in Records /\ 0 \in 0 .. MaxRevision /\ p \in Writers
    BY <2>1, UnclaimedIs, RecordTypes
  <2>3. CallFits([op |-> "create", at |-> "check", rec |-> rec, rev |-> 0, tries |-> 0],
                 Newest, Stored)
    BY <2>1, <2>2, RecordTypes DEF CallFits
  <2> HIDE DEF rec
  <2>4. Begin(p, "create", "check", rec, 0)
    BY <1>3 DEF BeginCreate, rec
  <2>5. StoreInv' /\ Rests
    BY <2>2, <2>3, <2>4, BeginKeeps
  <2> QED
    BY <1>0, <1>3, <2>5, GotoKeeps
<1>4. CASE BeginLoad(p) /\ Goto(p, "reclaim")
  <2>1. StoreInv' /\ Rests
    BY <1>4, LoadKeeps, RecordTypes
  <2> QED
    BY <1>0, <1>4, <2>1, GotoKeeps
<1> QED
  BY <1>1, <1>2, <1>3, <1>4 DEF ClaimAnswer, CreateAnswer, ReclaimAnswer, Answered

\* What a pass does beside the store.
LEMMA PassKeeps ==
  ASSUME RecordInv, NEW p \in Clients,
         \/ StartDelete(p) \/ FinishDelete(p) \/ StartWindow(p) \/ WaitForLease(p)
         \/ StartClaim(p) \/ Maintained(p) \/ RecordAnswer(p) \/ EndWindow(p)
         \/ AtFence(p) \/ Cancel(p)
  PROVE  RecordInv' /\ Rests
<1>0. /\ p \in Writers /\ job[p] \in Jobs /\ JobFits(job[p], Newest, Stored)
      /\ job \in [Clients -> Jobs]
  BY RecordTypes DEF RecordInv
<1>1. ASSUME UNCHANGED storeVars, UNCHANGED <<move, clock, handed>>,
             \/ UNCHANGED job
             \/ Stop(p)
             \/ Goto(p, "delete") /\ job[p].pc = "idle"
             \/ Goto(p, "end") /\ job[p].pc \notin {"idle", "delete"}
      PROVE  RecordInv' /\ Rests
  <2>1. StoreInv' /\ Rests
    BY <1>1, NothingAsked
  <2> QED
    BY <1>1, <2>1, NoJob, StopKeeps, GotoKeeps
<1>2. CASE StartDelete(p) \/ FinishDelete(p) \/ WaitForLease(p) \/ EndWindow(p) \/ AtFence(p)
           \/ Cancel(p)
  <2>1. UNCHANGED storeVars /\ UNCHANGED <<move, clock, handed>>
    BY <1>2 DEF StartDelete, FinishDelete, WaitForLease, EndWindow, AtFence, Cancel, bounds
  <2>2. \/ UNCHANGED job
        \/ Stop(p)
        \/ Goto(p, "delete") /\ job[p].pc = "idle"
        \/ Goto(p, "end") /\ job[p].pc \notin {"idle", "delete"}
    BY <1>2 DEF StartDelete, FinishDelete, WaitForLease, EndWindow, AtFence, Cancel, At
  <2> QED
    BY <1>1, <2>1, <2>2
<1>3. CASE StartWindow(p)
  <2>1. StoreInv' /\ Rests
    BY <1>3, NothingAsked DEF StartWindow
  <2>2. PICK due \in BOOLEAN, mode \in Modes :
          job' = [job EXCEPT ![p] = [Idle EXCEPT !.pc = "lease", !.mode = mode, !.due = due,
                                                 !.now = clock]]
    BY <1>3 DEF StartWindow
  <2> DEFINE j == [Idle EXCEPT !.pc = "lease", !.mode = mode, !.due = due, !.now = clock]
  <2>3. /\ j \in Jobs /\ j.rev = 0 /\ j.rec = NoFile /\ j.pc = "lease" /\ j.now = clock
    <3>1. Idle \in Jobs /\ Idle.rev = 0 /\ Idle.rec = NoFile
      BY IdleFits DEF Idle
    <3>2. clock \in 0 .. MaxTime
      BY MaintenanceAssumption DEF RecordInv
    <3> QED
      BY <3>1, <3>2 DEF Jobs
  <2>4. JobFits(j, Newest, Stored)
    BY <2>3, RecordTypes, MaintenanceAssumption DEF JobFits, RecordInv
  <2> HIDE DEF j
  <2>5. job' = [job EXCEPT ![p] = j] /\ UNCHANGED <<move, clock, handed>>
    BY <1>3, <2>2 DEF j, StartWindow
  <2> QED
    BY <2>1, <2>3, <2>4, <2>5, OneJob
<1>4. CASE StartClaim(p)
  <2>1. StoreInv' /\ Rests
    BY <1>0, <1>4, LoadKeeps DEF StartClaim
  <2> DEFINE j == [job[p] EXCEPT !.pc = "claim", !.handed = handed]
  <2>2. /\ j \in Jobs /\ j.rev = job[p].rev /\ j.rec = job[p].rec /\ j.pc = "claim"
        /\ j.now = job[p].now
    BY <1>0 DEF Jobs, RecordInv
  <2>3. job[p].pc = "lease" /\ job' = [job EXCEPT ![p] = j] /\ UNCHANGED <<move, clock, handed>>
    BY <1>0, <1>4 DEF StartClaim, At, bounds
  <2> HIDE DEF j
  <2>4. JobFits(j, Newest, Stored)
    BY <1>0, <2>2, <2>3 DEF JobFits
  <2> QED
    BY <2>1, <2>2, <2>3, <2>4, OneJob
<1>5. CASE Maintained(p)
  <2>1. PICK succeeded \in BOOLEAN :
          BeginSwap(p, Folded(job[p].rec, job[p].mode, job[p].now, succeeded), job[p].rev)
    BY <1>5 DEF Maintained
  <2> DEFINE rec == Folded(job[p].rec, job[p].mode, job[p].now, succeeded)
  <2>2. job[p].pc = "window" /\ Goto(p, "record") /\ UNCHANGED <<move, clock, handed>>
    BY <1>5 DEF Maintained, At, bounds
  <2>3. job[p].rec \in Records /\ job[p].mode \in Modes /\ job[p].now \in 1 .. MaxTime
    BY <1>0, <2>2, MaintenanceAssumption DEF JobFits, Jobs
  <2>4. rec \in Records /\ Continues(job[p].rec, rec)
    BY <2>3, FoldedContinues
  <2> HIDE DEF rec
  <2>5. CallFits([op |-> "swap", at |-> "check", rec |-> rec, rev |-> job[p].rev, tries |-> 0],
                 Newest, Stored)
    BY <1>0, <2>4 DEF CallFits, JobFits
  <2>6. Begin(p, "swap", "check", rec, job[p].rev) /\ job[p].rev \in 0 .. MaxRevision
    BY <1>0, <2>1, JobIs DEF BeginSwap, rec
  <2>7. StoreInv' /\ Rests
    BY <1>0, <2>4, <2>5, <2>6, BeginKeeps
  <2> QED
    BY <2>2, <2>7, GotoKeeps
<1>6. CASE RecordAnswer(p)
  <2>1. /\ TakeAnswer(p) /\ Goto(p, "end") /\ job[p].pc = "record"
        /\ UNCHANGED <<move, clock, handed>>
    BY <1>6 DEF RecordAnswer, At, bounds
  <2>2. StoreInv' /\ Rests
    BY <1>0, <2>1, TakeAnswerKeeps
  <2> QED
    BY <2>1, <2>2, GotoKeeps
<1> QED
  BY <1>2, <1>3, <1>4, <1>5, <1>6

\* What an administrator does beside the store.
LEMMA AdminKeeps ==
  ASSUME RecordInv, NEW a \in Admins,
         StartTransfer(a) \/ TransferLook(a) \/ TransferAnswer(a)
  PROVE  RecordInv' /\ Rests
<1>0. /\ a \in Writers /\ move \in [Admins -> Moves] /\ move[a] \in Moves
      /\ call[a] \in Calls /\ CallFits(call[a], Newest, Stored)
  BY RecordTypes DEF RecordInv, StoreInv
<1>1. UNCHANGED <<job, clock, handed>>
  BY DEF StartTransfer, TransferLook, TransferAnswer, bounds
<1>2. ASSUME NEW m \in Moves, move' = [move EXCEPT ![a] = m],
             m.pc = "look" => m.to \in Owners, StoreInv', Rests
      PROVE  RecordInv'
  <2>1. move' \in [Admins -> Moves]
    BY <1>0, <1>2
  <2>2. \A b \in Admins : move'[b].pc = "look" => move'[b].to \in Owners
    BY <1>0, <1>2 DEF RecordInv
  <2> QED
    BY <1>1, <1>2, <2>1, <2>2 DEF RecordInv, Rests
<1>3. Still \in Moves /\ Still.pc = "idle"
  BY DEF Still, Moves
<1>4. CASE StartTransfer(a)
  <2>1. StoreInv' /\ Rests
    BY <1>0, <1>4, LoadKeeps DEF StartTransfer
  <2>2. PICK from \in Owners, to \in Owners :
          move' = [move EXCEPT ![a] = [pc |-> "look", from |-> from, to |-> to]]
    BY <1>4 DEF StartTransfer
  <2> DEFINE m == [pc |-> "look", from |-> from, to |-> to]
  <2>3. m \in Moves /\ m.to \in Owners
    BY DEF Moves
  <2> HIDE DEF m
  <2>4. move' = [move EXCEPT ![a] = m]
    BY <2>2 DEF m
  <2> QED
    BY <1>2, <2>1, <2>3, <2>4
<1>5. CASE TransferLook(a) /\ call[a].at = "ok" /\ call[a].rec.owner = move[a].from
  <2> DEFINE rec == [call[a].rec EXCEPT !.owner = move[a].to, !.nextEligible = 0]
             m == [move[a] EXCEPT !.pc = "move"]
  <2>1. /\ BeginSwap(a, rec, call[a].rev) /\ move' = [move EXCEPT ![a] = m]
        /\ move[a].pc = "look"
    BY <1>5 DEF TransferLook, Answered
  <2>2. move[a].to \in Owners /\ m \in Moves /\ m.pc = "move"
    BY <1>0, <2>1 DEF RecordInv, Moves
  <2>3. call[a].rec \in Records /\ (call[a].rev = Newest => call[a].rec = Stored)
        /\ call[a].rev <= Newest /\ call[a].rev \in 0 .. MaxRevision
    BY <1>0, <1>5, CallIs DEF CallFits
  <2>4. rec \in Records
    BY <2>2, <2>3 DEF Records
  <2>5. Continues(call[a].rec, rec)
    BY <2>2 DEF Continues
  <2> HIDE DEF rec, m
  <2>6. CallFits([op |-> "swap", at |-> "check", rec |-> rec, rev |-> call[a].rev, tries |-> 0],
                 Newest, Stored)
    BY <2>3, <2>4, <2>5 DEF CallFits
  <2>7. StoreInv' /\ Rests
    BY <1>0, <2>1, <2>3, <2>4, <2>6, BeginKeeps DEF BeginSwap
  <2> QED
    BY <1>2, <2>1, <2>2, <2>7
<1>6. CASE TransferAnswer(a)
           \/ (TransferLook(a) /\ ~(call[a].at = "ok" /\ call[a].rec.owner = move[a].from))
  <2>1. TakeAnswer(a) /\ move' = [move EXCEPT ![a] = Still]
    BY <1>6 DEF TransferAnswer, TransferLook, Answered
  <2>2. StoreInv' /\ Rests
    BY <1>0, <2>1, TakeAnswerKeeps
  <2> QED
    BY <1>2, <1>3, <2>1, <2>2
<1> QED
  BY <1>4, <1>5, <1>6

\* The store takes a step for a writer.
LEMMA InStoreKeeps ==
  ASSUME RecordInv, NEW w \in Writers, InStore(w)
  PROVE  RecordInv' /\ (Rests \/ Publishes(w))
<1>1. StoreInv' /\ (Rests \/ Publishes(w))
  BY StoreStepKeeps DEF InStore, RecordInv
<1>2. UNCHANGED <<job, move, clock>> /\ handed' \in Nat
  BY DEF InStore, bounds, RecordInv
<1>3. ASSUME NEW p \in Clients PROVE JobFits(job[p], Newest', Stored')
  <2>1. job[p] \in Jobs /\ JobFits(job[p], Newest, Stored) /\ Newest \in Nat
    BY RecordTypes DEF RecordInv
  <2> QED
    BY <1>1, <2>1, JobStays DEF Rests, Publishes
<1> QED
  BY <1>1, <1>2, <1>3 DEF RecordInv

\* Time passes, or an instance dies.
LEMMA WorldKeeps ==
  ASSUME RecordInv, Tick \/ \E g \in Gates : Crash(g)
  PROVE  RecordInv' /\ Rests
<1>1. CASE Tick
  <2>1. StoreInv' /\ Rests
    BY <1>1, NothingAsked DEF Tick
  <2>2. clock' \in 1 .. MaxTime
    BY <1>1, MaintenanceAssumption DEF Tick, RecordInv
  <2> QED
    BY <1>1, <2>1, <2>2 DEF Tick, RecordInv, Rests
<1>2. ASSUME NEW g \in Gates, Crash(g) PROVE RecordInv' /\ Rests
  <2>1. /\ files' = files /\ errors' = errors /\ UNCHANGED <<move, clock, handed>>
        /\ job' = [p \in Clients |-> IF GateOf[p] = g THEN Idle ELSE job[p]]
        /\ call' = [w \in Writers |-> IF w \in Clients /\ GateOf[w] = g THEN Unasked ELSE call[w]]
    BY <1>2 DEF Crash
  <2>2. Rests
    BY <2>1, NewestNow DEF Rests
  <2>3. /\ Unasked \in Calls /\ CallFits(Unasked, Newest, Stored)
        /\ Idle \in Jobs /\ JobFits(Idle, Newest, Stored)
    BY UnaskedFits, IdleFits, RecordTypes
  <2>4. StoreInv'
    <3>1. call' \in [Writers -> Calls]
      BY <2>1, <2>3 DEF RecordInv, StoreInv
    <3>2. \A w \in Writers : CallFits(call'[w], Newest', Stored')
      BY <2>1, <2>2, <2>3 DEF RecordInv, StoreInv, Rests
    <3> QED
      BY <2>1, <3>1, <3>2 DEF RecordInv, StoreInv
  <2>5. job' \in [Clients -> Jobs]
    BY <2>1, <2>3 DEF RecordInv
  <2>6. \A p \in Clients : JobFits(job'[p], Newest', Stored')
    BY <2>1, <2>2, <2>3 DEF RecordInv, Rests
  <2> QED
    BY <2>1, <2>2, <2>4, <2>5, <2>6 DEF RecordInv
<1> QED
  BY <1>1, <1>2

\* The record stays as it is, or is followed by what a writer published.
LEMMA RecordStep ==
  ASSUME RecordInv, [Next]_vars
  PROVE  RecordInv' /\ (Rests \/ \E w \in Writers : Publishes(w))
<1>1. CASE UNCHANGED vars
  <2>1. StoreInv' /\ Rests
    BY <1>1, NothingAsked DEF vars
  <2> QED
    BY <1>1, <2>1, NoJob DEF vars, bounds
<1>2. ASSUME NEW p \in Clients, PassStep(p) \/ StartDelete(p) \/ StartWindow(p) \/ Cancel(p)
      PROVE  RecordInv' /\ (Rests \/ \E w \in Writers : Publishes(w))
  BY <1>2, PassKeeps, AnswerKeeps, InStoreKeeps, RecordTypes DEF PassStep
<1>3. ASSUME NEW a \in Admins, AdminStep(a) \/ StartTransfer(a)
      PROVE  RecordInv' /\ (Rests \/ \E w \in Writers : Publishes(w))
  BY <1>3, AdminKeeps, InStoreKeeps, RecordTypes DEF AdminStep
<1> QED
  BY <1>1, <1>2, <1>3, WorldKeeps DEF Next

LEMMA RecordInit == Init => RecordInv
<1> SUFFICES ASSUME Init PROVE RecordInv
  OBVIOUS
<1>1. files \in Files /\ \A r \in Revisions : files[r] = NoFile
  BY DEF Init, StoreInit, Files
<1>2. Newest = 0 /\ Stored = NoFile
  BY <1>1 DEF Newest, Stored
<1>3. StoreInv
  BY <1>1, <1>2, UnaskedFits, StoreAssumption DEF Init, StoreInit, StoreInv
<1>4. Idle \in Jobs /\ JobFits(Idle, 0, NoFile)
  BY StoreAssumption, MaintenanceAssumption DEF Idle, Jobs, JobFits
<1>5. Still \in Moves /\ Still.pc = "idle"
  BY DEF Still, Moves
<1>6. clock \in 1 .. MaxTime /\ handed \in Nat
  BY MaintenanceAssumption DEF Init
<1> QED
  BY <1>2, <1>3, <1>4, <1>5, <1>6 DEF Init, RecordInv

\* What is published is a claim of a repository without a record, a transfer or the
\* outcome of a window.
LEMMA PublishedContinues ==
  ASSUME RecordInv, NEW w \in Writers, Publishes(w)
  PROVE  Record!Next
<1>1. /\ CallFits(call[w], Newest, Stored) /\ call[w].at = "link" /\ call[w].rev = Newest
      /\ Stored' = call[w].rec
  BY DEF RecordInv, StoreInv, Publishes
<1>2. CASE Newest = 0
  <2>1. PICK o \in Owners : call[w].rec = Unclaimed(o)
    BY <1>1, <1>2 DEF CallFits
  <2>2. Stored = NoFile
    BY <1>2, RecordTypes
  <2>3. Record!Claim(o)
    BY <1>1, <2>1, <2>2 DEF Record!Claim, Unclaimed
  <2> QED
    BY <2>3 DEF Record!Next
<1>3. CASE Newest # 0
  <2>1. Continues(Stored, Stored') /\ Stored # NoFile
    BY <1>1, <1>3, RecordTypes, NoFileAssumption DEF CallFits
  <2>2. \/ \E o \in Owners : Record!Transfer(o)
        \/ \E now \in 1 .. MaxTime : Record!Window(now)
    BY <2>1 DEF Continues, Record!Transfer, Record!Window
  <2> QED
    BY <2>2 DEF Record!Next
<1> QED
  BY <1>2, <1>3

\* The files of the store, with their revisions, removals and races, are one record: it is
\* claimed once, every window that is recorded builds on the one before it, and it changes
\* hands by a transfer that leaves its history alone, for any number of instances, passes
\* and administrators and whatever calls fail (maintenanceowner.go, publish; run.go,
\* window and Transfer).
THEOREM OneRecordKept == Spec => KeepsOneRecord
<1>1. Init => RecordInv /\ Record!Init
  <2>1. ASSUME Init PROVE Stored = NoFile
    BY <2>1 DEF Init, StoreInit, Newest, Stored
  <2> QED
    BY <2>1, RecordInit DEF Record!Init
<1>2. RecordInv /\ [Next]_vars => RecordInv' /\ [Record!Next]_Stored
  BY RecordStep, PublishedContinues DEF Rests
<1> QED
  BY <1>1, <1>2, PTL DEF Spec, KeepsOneRecord, Record!Spec

-----------------------------------------------------------------------------
(* The lease, with clients that do anything.                               *)

Users(l) == {c \in Clients : using[c] = l}
Turns == {"outside", "asking", "waiting", "holding", "returning"}

\* A lease counts those who use it, and it is the one of their process; its token is
\* with one of them at most.
LeaseInv ==
  /\ runs \in [Gates -> Clients \cup {NoLease}]
  /\ lease \in [Clients -> [token : BOOLEAN, waiting : Nat]]
  /\ using \in [Clients -> Clients \cup {NoLease}]
  /\ turn \in [Clients -> Turns]
  /\ \A l \in Clients : lease[l].waiting = Cardinality(Users(l))
  /\ \A c \in Clients :
       IF turn[c] = "outside" THEN using[c] = NoLease
       ELSE using[c] \in Clients /\ using[c] = runs[GateOf[c]]
  /\ \A g \in Gates : runs[g] # NoLease => GateOf[runs[g]] = g
  /\ \A c \in Clients : turn[c] = "holding" => lease[using[c]].token
  /\ \A c, d \in Clients :
       turn[c] = "holding" /\ turn[d] = "holding" /\ GateOf[c] = GateOf[d] => c = d

LEMMA LeaseInitial == FenceInit => LeaseInv
<1> SUFFICES ASSUME FenceInit PROVE LeaseInv
  OBVIOUS
<1>1. \A l \in Clients : Users(l) = {}
  BY ClientAssumption DEF FenceInit, Users
<1>2. Cardinality({}) = 0
  BY FS_EmptySet
<1>3. NewLease \in [token : BOOLEAN, waiting : Nat] /\ NewLease.waiting = 0
  BY DEF NewLease
<1> QED
  BY <1>1, <1>2, <1>3, ClientAssumption DEF FenceInit, LeaseInv, Turns

\* The users of a lease are finitely many.
LEMMA UsersAre ==
  ASSUME NEW l, NEW c \in Clients
  PROVE  /\ IsFiniteSet(Users(l)) /\ Cardinality(Users(l)) \in Nat
         /\ Cardinality(Users(l) \cup {c}) = IF c \in Users(l) THEN Cardinality(Users(l))
                                             ELSE Cardinality(Users(l)) + 1
         /\ Cardinality(Users(l) \ {c}) = IF c \in Users(l) THEN Cardinality(Users(l)) - 1
                                          ELSE Cardinality(Users(l))
         /\ Cardinality(Users(l)) = 0 <=> Users(l) = {}
<1>1. IsFiniteSet(Users(l))
  BY ClientAssumption, FS_Subset DEF Users
<1> QED
  BY <1>1, FS_CardinalityType, FS_AddElement, FS_RemoveElement, FS_EmptySet

\* Somebody new at the lease of his process.
LEMMA AskKeeps ==
  ASSUME LeaseInv, NEW c \in Clients, Ask(c)
  PROVE  LeaseInv'
<1> DEFINE g == GateOf[c]
           l == IF runs[g] = NoLease THEN c ELSE runs[g]
           old == IF runs[g] = NoLease THEN NewLease ELSE lease[l]
<1>1. /\ turn[c] = "outside" /\ using[c] = NoLease
      /\ runs' = [runs EXCEPT ![g] = l]
      /\ lease' = [lease EXCEPT ![l] = [old EXCEPT !.waiting = @ + 1]]
      /\ using' = [using EXCEPT ![c] = l]
      /\ turn' = [turn EXCEPT ![c] = "asking"]
  BY DEF Ask, LeaseInv
<1>2. g \in Gates /\ l \in Clients /\ GateOf[l] = g /\ NoLease \notin Clients
  BY ClientAssumption DEF LeaseInv
<1>3. old \in [token : BOOLEAN, waiting : Nat] /\ old.waiting = Cardinality(Users(l))
  <2>1. CASE runs[g] = NoLease
    <3>1. ASSUME NEW d \in Users(c) PROVE FALSE
      <4>1. d \in Clients /\ using[d] = c /\ runs[GateOf[d]] = c /\ GateOf[d] \in Gates
        BY <1>2, <3>1, ClientAssumption DEF Users, LeaseInv
      <4>2. GateOf[d] = g
        BY <1>2, <4>1 DEF LeaseInv
      <4> QED
        BY <1>2, <2>1, <4>1, <4>2
    <3>2. Users(c) = {}
      BY <3>1
    <3> QED
      BY <2>1, <3>2, FS_EmptySet DEF NewLease
  <2>2. CASE runs[g] # NoLease
    BY <1>2, <2>2 DEF LeaseInv
  <2> QED
    BY <2>1, <2>2
<1>4. \A d \in Clients : GateOf[d] = g /\ turn[d] # "outside" => runs[g] = l /\ old = lease[l]
  BY <1>2 DEF LeaseInv
<1> HIDE DEF old, l
<1>5. /\ lease' \in [Clients -> [token : BOOLEAN, waiting : Nat]]
      /\ lease'[l].waiting = Cardinality(Users(l)) + 1 /\ lease'[l].token = old.token
      /\ \A k \in Clients : k # l => lease'[k] = lease[k]
  <2>1. [old EXCEPT !.waiting = @ + 1] \in [token : BOOLEAN, waiting : Nat]
    BY <1>3
  <2>2. [old EXCEPT !.waiting = @ + 1].waiting = old.waiting + 1
        /\ [old EXCEPT !.waiting = @ + 1].token = old.token
    BY <1>3
  <2> QED
    BY <1>1, <1>2, <1>3, <2>1, <2>2 DEF LeaseInv
<1>6. ASSUME NEW k \in Clients PROVE lease'[k].waiting = Cardinality(Users(k)')
  <2>1. CASE k = l
    <3>1. Users(k)' = Users(k) \cup {c} /\ c \notin Users(k)
      BY <1>1, <1>2, <2>1 DEF Users, LeaseInv
    <3> QED
      BY <1>5, <2>1, <3>1, UsersAre
  <2>2. CASE k # l
    <3>1. Users(k)' = Users(k)
      BY <1>1, <1>2, <2>2 DEF Users, LeaseInv
    <3> QED
      BY <1>5, <2>2, <3>1 DEF LeaseInv
  <2> QED
    BY <2>1, <2>2
<1>7. /\ runs' \in [Gates -> Clients \cup {NoLease}] /\ using' \in [Clients -> Clients \cup {NoLease}]
      /\ turn' \in [Clients -> Turns]
  BY <1>1, <1>2 DEF LeaseInv, Turns
<1>8. ASSUME NEW d \in Clients
      PROVE  /\ IF turn'[d] = "outside" THEN using'[d] = NoLease
                ELSE using'[d] \in Clients /\ using'[d] = runs'[GateOf[d]]
             /\ turn'[d] = "holding" => turn[d] = "holding" /\ lease'[using'[d]].token
  <2>1. CASE d = c
    BY <1>1, <1>2, <2>1 DEF LeaseInv
  <2>2. CASE d # c
    <3>1. turn'[d] = turn[d] /\ using'[d] = using[d] /\ GateOf[d] \in Gates
      BY <1>1, <2>2, ClientAssumption DEF LeaseInv
    <3>2. turn[d] # "outside" => runs'[GateOf[d]] = runs[GateOf[d]]
      BY <1>1, <1>2, <1>4, <3>1 DEF LeaseInv
    <3>3. turn[d] = "holding" => lease'[using[d]].token
      <4>1. CASE GateOf[d] = g
        BY <1>4, <1>5, <4>1 DEF LeaseInv
      <4>2. CASE GateOf[d] # g
        <5>1. turn[d] = "holding" => using[d] \in Clients /\ using[d] # l
          BY <1>2, <3>1, <4>2 DEF LeaseInv
        <5> QED
          BY <1>5, <5>1 DEF LeaseInv
      <4> QED
        BY <4>1, <4>2
    <3> QED
      BY <3>1, <3>2, <3>3 DEF LeaseInv
  <2> QED
    BY <2>1, <2>2
<1>9. \A f \in Gates : runs'[f] # NoLease => GateOf[runs'[f]] = f
  BY <1>1, <1>2 DEF LeaseInv
<1> QED
  BY <1>5, <1>6, <1>7, <1>8, <1>9 DEF LeaseInv

\* Somebody leaves, and the lease with him if he is the last.
LEMMA ForgetKeeps ==
  ASSUME LeaseInv, NEW c \in Clients, turn[c] \in {"waiting", "returning"}, Forget(c)
  PROVE  LeaseInv'
<1> DEFINE l == using[c]
           left == [lease[l] EXCEPT !.waiting = @ - 1]
<1>1. /\ lease' = [lease EXCEPT ![l] = left]
      /\ \/ runs' = runs
         \/ left.waiting = 0 /\ runs' = [runs EXCEPT ![GateOf[c]] = NoLease]
      /\ using' = [using EXCEPT ![c] = NoLease]
      /\ turn' = [turn EXCEPT ![c] = "outside"]
  BY DEF Forget
<1>2. /\ l \in Clients /\ l = runs[GateOf[c]] /\ GateOf[c] \in Gates /\ GateOf[l] = GateOf[c]
      /\ NoLease \notin Clients /\ c \in Users(l)
  BY ClientAssumption DEF LeaseInv, Users
<1>3. /\ lease[l] \in [token : BOOLEAN, waiting : Nat] /\ lease[l].waiting = Cardinality(Users(l))
      /\ Cardinality(Users(l) \ {c}) = Cardinality(Users(l)) - 1
      /\ Cardinality(Users(l)) \in Nat /\ Cardinality(Users(l)) # 0
      /\ Cardinality(Users(l) \ {c}) = 0 => Users(l) \ {c} = {}
  <2>1. IsFiniteSet(Users(l) \ {c})
    BY UsersAre, FS_Subset
  <2> QED
    BY <1>2, <2>1, UsersAre, FS_EmptySet DEF LeaseInv
<1>4. /\ left \in [token : BOOLEAN, waiting : Nat] /\ left.token = lease[l].token
      /\ left.waiting = Cardinality(Users(l) \ {c})
  BY <1>3
<1> HIDE DEF l, left
<1>5. /\ lease' \in [Clients -> [token : BOOLEAN, waiting : Nat]]
      /\ lease'[l] = left /\ \A k \in Clients : k # l => lease'[k] = lease[k]
  BY <1>1, <1>2, <1>4 DEF LeaseInv
<1>6. ASSUME NEW k \in Clients PROVE lease'[k].waiting = Cardinality(Users(k)')
  <2>1. CASE k = l
    <3>1. Users(k)' = Users(k) \ {c}
      BY <1>1, <1>2, <2>1 DEF Users, LeaseInv, l
    <3> QED
      BY <1>4, <1>5, <2>1, <3>1
  <2>2. CASE k # l
    <3>1. Users(k)' = Users(k)
      BY <1>1, <1>2, <2>2 DEF Users, LeaseInv, l
    <3> QED
      BY <1>5, <2>2, <3>1 DEF LeaseInv
  <2> QED
    BY <2>1, <2>2
<1>7. /\ runs' \in [Gates -> Clients \cup {NoLease}] /\ using' \in [Clients -> Clients \cup {NoLease}]
      /\ turn' \in [Clients -> Turns]
  BY <1>1, <1>2 DEF LeaseInv, Turns
<1>8. ASSUME NEW d \in Clients
      PROVE  /\ IF turn'[d] = "outside" THEN using'[d] = NoLease
                ELSE using'[d] \in Clients /\ using'[d] = runs'[GateOf[d]]
             /\ turn'[d] = "holding" => turn[d] = "holding" /\ lease'[using'[d]].token
  <2>1. CASE d = c
    BY <1>1, <1>2, <2>1 DEF LeaseInv
  <2>2. CASE d # c
    <3>1. turn'[d] = turn[d] /\ using'[d] = using[d] /\ GateOf[d] \in Gates
      BY <1>1, <2>2, ClientAssumption DEF LeaseInv
    <3>2. turn[d] # "outside" => runs'[GateOf[d]] = runs[GateOf[d]]
      <4>1. ASSUME turn[d] # "outside", GateOf[d] = GateOf[c], left.waiting = 0 PROVE FALSE
        <5>1. d \in Users(l) \ {c}
          BY <1>2, <2>2, <4>1 DEF Users, LeaseInv
        <5> QED
          BY <1>3, <1>4, <4>1, <5>1
      <4> QED
        BY <1>1, <1>2, <3>1, <4>1 DEF LeaseInv
    <3>3. turn[d] = "holding" => lease'[using[d]].token
      BY <1>4, <1>5 DEF LeaseInv
    <3> QED
      BY <3>1, <3>2, <3>3 DEF LeaseInv
  <2> QED
    BY <2>1, <2>2
<1>9. \A f \in Gates : runs'[f] # NoLease => GateOf[runs'[f]] = f
  BY <1>1, <1>2 DEF LeaseInv
<1> QED
  BY <1>5, <1>6, <1>7, <1>8, <1>9 DEF LeaseInv

\* The token is taken when it is there, and given back.
LEMMA TokenKeeps ==
  ASSUME LeaseInv, NEW c \in Clients, TakeToken(c) \/ Wait(c) \/ ReturnToken(c)
  PROVE  LeaseInv'
<1>0. /\ turn[c] # "outside" /\ using[c] \in Clients /\ using[c] = runs[GateOf[c]]
      /\ runs' = runs /\ using' = using
  BY DEF LeaseInv, TakeToken, Wait, ReturnToken
<1>1. \A l \in Clients : Users(l)' = Users(l)
  BY <1>0 DEF Users
<1>2. PICK to \in {"waiting", "holding", "returning"} : turn' = [turn EXCEPT ![c] = to]
  BY DEF TakeToken, Wait, ReturnToken
<1>3. /\ lease' \in [Clients -> [token : BOOLEAN, waiting : Nat]]
      /\ \A l \in Clients : lease'[l].waiting = lease[l].waiting
      /\ \A l \in Clients : l # using[c] => lease'[l] = lease[l]
  <2> DEFINE Goal == /\ lease' \in [Clients -> [token : BOOLEAN, waiting : Nat]]
                     /\ \A l \in Clients : lease'[l].waiting = lease[l].waiting
                     /\ \A l \in Clients : l # using[c] => lease'[l] = lease[l]
  <2>1. CASE lease' = lease
    BY <2>1 DEF LeaseInv
  <2>2. ASSUME NEW b \in BOOLEAN, lease' = [lease EXCEPT ![using[c]].token = b]
        PROVE  Goal
    <3>1. lease' = [lease EXCEPT ![using[c]] = [lease[using[c]] EXCEPT !.token = b]]
      BY <2>2
    <3>2. /\ [lease[using[c]] EXCEPT !.token = b] \in [token : BOOLEAN, waiting : Nat]
          /\ [lease[using[c]] EXCEPT !.token = b].waiting = lease[using[c]].waiting
      BY <1>0 DEF LeaseInv
    <3> QED
      BY <1>0, <3>1, <3>2 DEF LeaseInv
  <2> QED
    BY <2>1, <2>2 DEF TakeToken, Wait, ReturnToken
<1>4. ASSUME NEW d \in Clients, turn'[d] = "holding", d # c
      PROVE  GateOf[d] # GateOf[c] \/ (to # "holding" /\ turn[c] # "holding")
  <2>1. turn[d] = "holding" /\ using[d] \in Clients /\ lease[using[d]].token
        /\ using[d] = runs[GateOf[d]]
    BY <1>2, <1>4 DEF LeaseInv
  <2>2. CASE TakeToken(c)
    BY <1>0, <2>1, <2>2 DEF TakeToken
  <2>3. CASE Wait(c)
    <3>1. turn'[c] = "waiting" /\ turn[c] = "asking"
      BY <2>3 DEF Wait, LeaseInv
    <3>2. to = "waiting"
      BY <1>2, <3>1 DEF LeaseInv
    <3> QED
      BY <3>1, <3>2
  <2>4. CASE ReturnToken(c)
    BY <1>4, <2>1, <2>4 DEF ReturnToken, LeaseInv
  <2> QED
    BY <2>2, <2>3, <2>4
<1>5. ASSUME NEW d \in Clients, turn'[d] = "holding" PROVE lease'[using[d]].token
  <2>1. CASE d = c
    <3>1. TakeToken(c)
      BY <1>2, <1>5, <2>1 DEF Wait, ReturnToken, LeaseInv
    <3> QED
      BY <1>0, <2>1, <3>1 DEF TakeToken, LeaseInv
  <2>2. CASE d # c
    <3>1. turn[d] = "holding" /\ using[d] \in Clients /\ lease[using[d]].token
          /\ using[d] = runs[GateOf[d]] /\ GateOf[d] \in Gates /\ GateOf[c] \in Gates
      BY <1>2, <1>5, <2>2, ClientAssumption DEF LeaseInv
    <3>2. CASE GateOf[d] = GateOf[c]
      <4>1. Wait(c)
        BY <1>0, <3>1, <3>2, <2>2 DEF TakeToken, ReturnToken, LeaseInv
      <4> QED
        BY <3>1, <4>1 DEF Wait
    <3>3. CASE GateOf[d] # GateOf[c]
      <4>1. using[d] # using[c]
        BY <1>0, <3>1, <3>3, ClientAssumption DEF LeaseInv
      <4> QED
        BY <1>3, <3>1, <4>1
    <3> QED
      BY <3>2, <3>3
  <2> QED
    BY <2>1, <2>2
<1>6. ASSUME NEW d \in Clients
      PROVE  IF turn'[d] = "outside" THEN using'[d] = NoLease
             ELSE using'[d] \in Clients /\ using'[d] = runs'[GateOf[d]]
  BY <1>0, <1>2 DEF LeaseInv
<1>7. ASSUME NEW d \in Clients, NEW e \in Clients, turn'[d] = "holding", turn'[e] = "holding",
             GateOf[d] = GateOf[e]
      PROVE  d = e
  <2>1. CASE d # c /\ e # c
    BY <1>2, <1>7, <2>1 DEF LeaseInv
  <2>2. turn'[c] = to
    BY <1>2 DEF LeaseInv
  <2> QED
    BY <1>4, <1>7, <2>1, <2>2
<1>8. turn' \in [Clients -> Turns]
  BY <1>2 DEF LeaseInv, Turns
<1> QED
  BY <1>0, <1>1, <1>3, <1>5, <1>6, <1>7, <1>8 DEF LeaseInv

\* The process dies.
LEMMA LeaseLost ==
  ASSUME LeaseInv, NEW g \in Gates, FenceLost(g)
  PROVE  LeaseInv'
<1>1. /\ runs' = [runs EXCEPT ![g] = NoLease]
      /\ lease' = [c \in Clients |-> IF GateOf[c] = g THEN NewLease ELSE lease[c]]
      /\ using' = [c \in Clients |-> IF GateOf[c] = g THEN NoLease ELSE using[c]]
      /\ turn' = [c \in Clients |-> IF GateOf[c] = g THEN "outside" ELSE turn[c]]
  BY DEF FenceLost
<1>2. NewLease \in [token : BOOLEAN, waiting : Nat] /\ NewLease.waiting = 0
  BY DEF NewLease
<1>3. /\ runs' \in [Gates -> Clients \cup {NoLease}]
      /\ lease' \in [Clients -> [token : BOOLEAN, waiting : Nat]]
      /\ using' \in [Clients -> Clients \cup {NoLease}]
      /\ turn' \in [Clients -> Turns]
  BY <1>1, <1>2 DEF LeaseInv, Turns
<1>4. \A c \in Clients : using[c] \in Clients => GateOf[using[c]] = GateOf[c]
  BY ClientAssumption DEF LeaseInv
<1>5. ASSUME NEW l \in Clients PROVE lease'[l].waiting = Cardinality(Users(l)')
  <2>1. CASE GateOf[l] = g
    <3>1. Users(l)' = {}
      BY <1>1, <1>4, <2>1, ClientAssumption DEF Users, LeaseInv
    <3> QED
      BY <1>1, <1>2, <2>1, <3>1, FS_EmptySet
  <2>2. CASE GateOf[l] # g
    <3>1. Users(l)' = Users(l)
      BY <1>1, <1>4, <2>2, ClientAssumption DEF Users, LeaseInv
    <3> QED
      BY <1>1, <2>2, <3>1 DEF LeaseInv
  <2> QED
    BY <2>1, <2>2
<1>6. ASSUME NEW c \in Clients
      PROVE  /\ IF turn'[c] = "outside" THEN using'[c] = NoLease
                ELSE using'[c] \in Clients /\ using'[c] = runs'[GateOf[c]]
             /\ turn'[c] = "holding" => turn[c] = "holding" /\ lease'[using'[c]].token
  <2>1. CASE GateOf[c] = g
    BY <1>1, <2>1
  <2>2. CASE GateOf[c] # g
    <3>1. /\ turn'[c] = turn[c] /\ using'[c] = using[c] /\ GateOf[c] \in Gates
          /\ runs'[GateOf[c]] = runs[GateOf[c]]
      BY <1>1, <2>2, ClientAssumption DEF LeaseInv
    <3>2. using[c] \in Clients => lease'[using[c]] = lease[using[c]]
      BY <1>1, <1>4, <2>2
    <3> QED
      BY <3>1, <3>2 DEF LeaseInv
  <2> QED
    BY <2>1, <2>2
<1>7. \A f \in Gates : runs'[f] # NoLease => GateOf[runs'[f]] = f
  BY <1>1 DEF LeaseInv
<1> QED
  BY <1>3, <1>5, <1>6, <1>7 DEF LeaseInv

LEMMA LeaseKept == LeaseInv /\ [FenceNext]_fenceVars => LeaseInv'
<1> SUFFICES ASSUME LeaseInv, [FenceNext]_fenceVars PROVE LeaseInv'
  OBVIOUS
<1>1. ASSUME UNCHANGED leaseVars PROVE LeaseInv'
  <2>1. \A l \in Clients : Users(l)' = Users(l)
    BY <1>1 DEF leaseVars, Users
  <2> QED
    BY <1>1, <2>1 DEF leaseVars, LeaseInv
<1>2. ASSUME NEW c \in Clients, GateStep(c) PROVE LeaseInv'
  <2>1. UNCHANGED leaseVars
    BY <1>2 DEF GateStep, Acquire, Enter, GiveUp, Leave, Release, HandBack, leaseVars
  <2> QED
    BY <1>1, <2>1
<1>3. ASSUME NEW c \in Clients, LeaseStep(c) PROVE LeaseInv'
  BY <1>3, AskKeeps, TokenKeeps, ForgetKeeps DEF LeaseStep, StopWaiting, CountOut
<1>4. CASE UNCHANGED fenceVars
  BY <1>1, <1>4 DEF fenceVars, leaseVars
<1> QED
  BY <1>2, <1>3, <1>4, LeaseLost DEF FenceNext

\* The types of the fence.
LEMMA FenceTyped == FenceInv /\ LeaseInv => FenceTypeOK
BY DEF FenceInv, GateTypes, GateType, Sides, Spots, LeaseInv, Turns, FenceTypeOK

-----------------------------------------------------------------------------
(* Types.                                                                  *)

\* The transfers that may still be published.
Pending ==
  {a \in Admins : \/ move[a].pc = "look"
                  \/ move[a].pc = "move" /\ call[a].at \in {"check", "link"}}

\* A transfer that is published was begun, and is published once.
CountInv ==
  /\ windows \in 0 .. MaxWindows /\ moves \in 0 .. MaxMoves /\ crashes \in 0 .. MaxCrashes
  /\ handed \in Nat /\ IsFiniteSet(Pending) /\ handed + Cardinality(Pending) <= moves
  /\ \A a \in Admins : call[a].at \in {"check", "link"} => move[a].pc = "move"
  /\ \A p \in Clients : job[p].handed \in 0 .. handed

\* The transfers that may still be published become fewer, and the counters stay.
LEMMA FewerPending ==
  ASSUME CountInv, Pending' \subseteq Pending, UNCHANGED <<moves, windows, crashes>>,
         \/ handed' = handed
         \/ handed' = handed + 1 /\ Pending' # Pending,
         \A a \in Admins : call'[a].at \in {"check", "link"} => move'[a].pc = "move",
         UNCHANGED job
  PROVE  CountInv'
<1>1. /\ IsFiniteSet(Pending) /\ Cardinality(Pending) \in Nat
      /\ IsFiniteSet(Pending') /\ Cardinality(Pending') \in Nat
      /\ Cardinality(Pending') <= Cardinality(Pending)
      /\ Pending' # Pending => Cardinality(Pending') < Cardinality(Pending)
  <2>1. IsFiniteSet(Pending) BY DEF CountInv
  <2> HIDE DEF Pending
  <2> QED BY <2>1, FS_Subset, FS_CardinalityType
<1>2. handed' \in Nat /\ handed' + Cardinality(Pending') <= moves /\ handed <= handed'
      /\ handed \in Nat
  BY <1>1, MaintenanceAssumption DEF CountInv
<1>3. \A p \in Clients : job'[p].handed \in 0 .. handed'
  <2> SUFFICES ASSUME NEW p \in Clients PROVE job[p].handed \in 0 .. handed'
    OBVIOUS
  <2> QED
    BY <1>2 DEF CountInv
<1> QED
  BY <1>1, <1>2, <1>3 DEF CountInv

\* What passes do leaves the transfers alone.
LEMMA CountPass ==
  ASSUME RecordInv, RecordInv', CountInv, NEW p \in Clients,
         PassStep(p) \/ StartDelete(p) \/ StartWindow(p) \/ Cancel(p)
  PROVE  CountInv'
<1>0. /\ p \in Writers /\ p \notin Admins /\ call \in [Writers -> Calls] /\ job \in [Clients -> Jobs]
      /\ Admins \subseteq Writers
  BY RecordTypes
<1>1. /\ move' = move /\ moves' = moves /\ crashes' = crashes /\ handed' = handed
      /\ windows' = windows \/ (windows' = windows + 1 /\ windows < MaxWindows)
  BY <1>0 DEF PassStep, StartDelete, StartWindow, Cancel, FinishDelete, WaitForLease, StartClaim,
              ClaimAnswer, CreateAnswer, ReclaimAnswer, Maintained, RecordAnswer, EndWindow,
              AtFence, InStore, bounds
<1>2. \A a \in Admins : call'[a] = call[a]
  <2>1. CASE InStore(p)
    BY <1>0, <2>1, StoreStepKeeps DEF InStore, RecordInv
  <2>2. CASE ~InStore(p)
    <3>1. Proceed(p) \/ Refused(p) => TakeAnswer(p)
      BY DEF Proceed, Refused
    <3>2. \/ UNCHANGED call \/ TakeAnswer(p) \/ BeginLoad(p)
          \/ BeginCreate(p, Unclaimed(GateOf[p]))
          \/ \E rec, rev : BeginSwap(p, rec, rev)
      BY <2>2, <3>1 DEF PassStep, StartDelete, StartWindow, Cancel, FinishDelete, WaitForLease,
                  StartClaim, ClaimAnswer, CreateAnswer, ReclaimAnswer, Maintained, RecordAnswer,
                  EndWindow, AtFence, storeVars
    <3> QED
      BY <1>0, <3>2 DEF TakeAnswer, BeginLoad, BeginCreate, BeginSwap, Begin
  <2> QED
    BY <2>1, <2>2
<1>3. Pending' = Pending
  BY <1>1, <1>2 DEF Pending
<1>4. \A q \in Clients : job'[q].handed = job[q].handed \/ job'[q].handed = handed
                         \/ job'[q].handed = 0
  <2> SUFFICES ASSUME NEW q \in Clients
               PROVE  job'[q].handed = job[q].handed \/ job'[q].handed = handed
                      \/ job'[q].handed = 0
    OBVIOUS
  <2>1. CASE StartClaim(p)
    BY <1>0, <2>1 DEF StartClaim, Jobs
  <2>2. CASE Stop(p)
    BY <1>0, <2>2 DEF Stop, Idle
  <2>3. CASE StartWindow(p)
    <3>1. PICK due \in BOOLEAN, mode \in Modes :
            job' = [job EXCEPT ![p] = [Idle EXCEPT !.pc = "lease", !.mode = mode, !.due = due,
                                                   !.now = clock]]
      BY <2>3 DEF StartWindow
    <3>2. Idle \in Jobs /\ Idle.handed = 0
      BY IdleFits DEF Idle
    <3>3. [Idle EXCEPT !.pc = "lease", !.mode = mode, !.due = due, !.now = clock].handed = 0
      BY <3>2 DEF Jobs
    <3> QED
      BY <1>0, <3>1, <3>3
  <2>4. ASSUME NEW pc, Goto(p, pc) PROVE job'[q].handed = job[q].handed
    BY <1>0, <2>4 DEF Goto, Jobs
  <2>5. CASE Proceed(p)
    <3>1. CASE \E pc : Goto(p, pc)
      BY <2>4, <3>1
    <3>2. CASE \E mode : job' = [job EXCEPT ![p].pc = "window", ![p].mode = mode,
                                           ![p].rec = call[p].rec, ![p].rev = call[p].rev]
      BY <1>0, <3>2 DEF Jobs
    <3> QED
      BY <2>5, <3>1, <3>2 DEF Proceed
  <2>6. CASE UNCHANGED job
    BY <2>6
  <2> QED
    BY <2>1, <2>2, <2>3, <2>4, <2>5, <2>6
       DEF PassStep, StartDelete, Cancel, FinishDelete, WaitForLease, Refused,
           ClaimAnswer, CreateAnswer, ReclaimAnswer, Maintained, RecordAnswer,
           EndWindow, AtFence, InStore
<1>5. \A q \in Clients : job'[q].handed \in 0 .. handed
  BY <1>4 DEF CountInv
<1>6. windows' \in 0 .. MaxWindows
  BY <1>1, MaintenanceAssumption DEF CountInv
<1>7. \A a \in Admins : call'[a].at \in {"check", "link"} => move'[a].pc = "move"
  BY <1>1, <1>2 DEF CountInv
<1> QED
  BY <1>1, <1>3, <1>5, <1>6, <1>7 DEF CountInv

\* An administrator begins a transfer, and gives it up or publishes it once.
LEMMA CountAdmin ==
  ASSUME RecordInv, CountInv, NEW a \in Admins, AdminStep(a) \/ StartTransfer(a)
  PROVE  CountInv'
<1>0. /\ a \in Writers /\ a \notin Clients /\ call \in [Writers -> Calls]
      /\ Admins \subseteq Writers /\ move \in [Admins -> Moves] /\ call[a] \in Calls
      /\ CallFits(call[a], Newest, Stored)
  BY RecordTypes DEF RecordInv, StoreInv
<1>1. UNCHANGED <<windows, crashes, job>>
  BY DEF AdminStep, StartTransfer, TransferLook, TransferAnswer, InStore, bounds
<1>2. ASSUME NEW b \in Admins \ {a} PROVE call'[b] = call[b] /\ move'[b] = move[b]
  <2>1. CASE InStore(a)
    BY <1>0, <1>2, <2>1, StoreStepKeeps DEF InStore, RecordInv
  <2>2. CASE StartTransfer(a) \/ TransferLook(a) \/ TransferAnswer(a)
    BY <1>0, <1>2, <2>2 DEF StartTransfer, TransferLook, TransferAnswer, BeginLoad, BeginSwap,
                            Begin, TakeAnswer
  <2> QED
    BY <2>1, <2>2 DEF AdminStep
<1>3. ASSUME a \in Pending' => a \in Pending PROVE Pending' \subseteq Pending
  BY <1>2, <1>3 DEF Pending
<1>4. ASSUME call'[a].at \in {"check", "link"} => move'[a].pc = "move"
      PROVE  \A b \in Admins : call'[b].at \in {"check", "link"} => move'[b].pc = "move"
  BY <1>2, <1>4 DEF CountInv
<1>5. CASE StartTransfer(a)
  <2>1. /\ moves' = moves + 1 /\ moves < MaxMoves /\ handed' = handed
        /\ Begin(a, "load", "list", NoFile, 0)
    BY <1>5 DEF StartTransfer, BeginLoad
  <2>2. Pending' = Pending \/ Pending' = Pending \cup {a}
    <3>1. a \notin Pending
      BY <1>5 DEF StartTransfer, Pending
    <3>2. \A b \in Admins \ {a} : b \in Pending' <=> b \in Pending
      BY <1>2 DEF Pending
    <3>3. Pending \subseteq Admins /\ Pending' \subseteq Admins
      BY DEF Pending
    <3> HIDE DEF Pending
    <3> QED
      BY <3>1, <3>2, <3>3
  <2>3. /\ IsFiniteSet(Pending') /\ Cardinality(Pending') <= Cardinality(Pending) + 1
        /\ Cardinality(Pending') \in Nat /\ Cardinality(Pending) \in Nat
    <3>1. IsFiniteSet(Pending) /\ Cardinality(Pending) \in Nat
      BY FS_CardinalityType DEF CountInv
    <3>2. /\ IsFiniteSet(Pending \cup {a})
          /\ \/ Cardinality(Pending \cup {a}) = Cardinality(Pending)
             \/ Cardinality(Pending \cup {a}) = Cardinality(Pending) + 1
      BY <3>1, FS_AddElement
    <3> QED BY <2>2, <3>1, <3>2
  <2>4. handed' \in Nat /\ handed' + Cardinality(Pending') <= moves' /\ moves' \in 0 .. MaxMoves
    BY <2>1, <2>3, MaintenanceAssumption DEF CountInv
  <2>5. call'[a].at = "list"
    BY <1>0, <2>1, AskedIs DEF Begin
  <2>6. \A b \in Admins : call'[b].at \in {"check", "link"} => move'[b].pc = "move"
    BY <1>4, <2>5
  <2> QED
    BY <1>1, <2>1, <2>3, <2>4, <2>6 DEF CountInv
<1>6. CASE TransferLook(a) \/ TransferAnswer(a)
  <2>1. UNCHANGED <<moves, handed>>
    BY <1>6 DEF TransferLook, TransferAnswer, bounds
  <2>2. CASE TakeAnswer(a) /\ move' = [move EXCEPT ![a] = Still]
    <3>1. call'[a].at = "idle" /\ move'[a].pc = "idle"
      BY <1>0, <2>2 DEF TakeAnswer, Unasked, Still
    <3>2. a \notin Pending'
      BY <3>1 DEF Pending
    <3> QED
      BY <1>1, <1>3, <1>4, <2>1, <3>1, <3>2, FewerPending
  <2>3. CASE move[a].pc = "look" /\ move' = [move EXCEPT ![a].pc = "move"]
    <3>1. a \in Pending /\ move'[a].pc = "move"
      BY <1>0, <2>3 DEF Pending, Moves
    <3> QED
      BY <1>1, <1>3, <1>4, <2>1, <3>1, FewerPending
  <2> QED
    BY <1>6, <2>2, <2>3 DEF TransferLook, TransferAnswer
<1>7. CASE InStore(a)
  <2>1. /\ StoreStep(a) /\ UNCHANGED <<moves, move>>
        /\ handed' = IF call[a].at = "link" /\ call'[a].at = "forget" THEN handed + 1 ELSE handed
    BY <1>7 DEF InStore, bounds
  <2>2. call'[a].at \in {"check", "link"} => call[a].at \in {"check", "link"}
    <3>1. CASE CreateCheck(a) \/ SwapCheck(a) \/ Link(a)
      BY <3>1 DEF CreateCheck, SwapCheck, Link, Asking
    <3>2. CASE ForgetOlder(a) \/ CreateRecheck(a) \/ CallFails(a)
      <4>1. PICK at \in {"ok", "recheck", "exists", "failed"} : CallGoes(a, at)
        BY <3>2 DEF ForgetOlder, CreateRecheck, CallFails
      <4> QED
        BY <1>0, <4>1 DEF CallGoes
    <3>3. CASE LoadList(a)
      BY <1>0, <3>3 DEF LoadList
    <3>4. CASE LoadRead(a)
      <4>1. PICK at \in {"ok", "list", "failed"} :
              call' = [call EXCEPT ![a].at = at, ![a].rec = files[call[a].rev],
                                   ![a].tries = call[a].tries + 1]
        BY <3>4 DEF LoadRead
      <4> QED
        BY <1>0, <4>1 DEF Calls
    <3> QED
      BY <2>1, <3>1, <3>2, <3>3, <3>4 DEF StoreStep
  <2>3. a \in Pending' => a \in Pending
    BY <2>1, <2>2 DEF Pending
  <2>4. call'[a].at \in {"check", "link"} => move'[a].pc = "move"
    BY <2>1, <2>2 DEF CountInv
  <2>5. call[a].at = "link" /\ call'[a].at = "forget" => a \in Pending /\ a \notin Pending'
    <3>1. call[a].at = "link" => move[a].pc = "move"
      BY DEF CountInv
    <3> QED
      BY <2>1, <3>1 DEF Pending
  <2>6. handed' = handed \/ (handed' = handed + 1 /\ Pending' # Pending)
    BY <2>1, <2>5
  <2> QED
    BY <1>1, <1>3, <1>4, <2>1, <2>3, <2>4, <2>6, FewerPending
<1> QED
  BY <1>5, <1>6, <1>7 DEF AdminStep

LEMMA CountWorld ==
  ASSUME RecordInv, CountInv, Tick \/ \E g \in Gates : Crash(g)
  PROVE  CountInv'
<1>0. call \in [Writers -> Calls] /\ Admins \subseteq Writers /\ Clients \cap Admins = {}
      /\ job \in [Clients -> Jobs]
  BY RecordTypes
<1>1. /\ UNCHANGED <<move, windows, moves, handed>>
      /\ crashes' \in 0 .. MaxCrashes
      /\ \A a \in Admins : call'[a] = call[a]
      /\ \A p \in Clients : job'[p].handed \in {job[p].handed, 0}
  <2>1. CASE Tick
    BY <2>1 DEF Tick, storeVars, CountInv
  <2>2. CASE \E g \in Gates : Crash(g)
    BY <1>0, <2>2, MaintenanceAssumption DEF Crash, CountInv, Idle
  <2> QED
    BY <2>1, <2>2
<1>2. Pending' = Pending
  BY <1>1 DEF Pending
<1>3. \A p \in Clients : job'[p].handed \in 0 .. handed
  BY <1>1 DEF CountInv
<1> QED
  BY <1>1, <1>2, <1>3 DEF CountInv

LEMMA CountStep == RecordInv /\ RecordInv' /\ CountInv /\ [Next]_vars => CountInv'
<1> SUFFICES ASSUME RecordInv, RecordInv', CountInv, [Next]_vars PROVE CountInv'
  OBVIOUS
<1>1. CASE UNCHANGED vars
  <2>1. Pending' = Pending
    BY <1>1 DEF vars, storeVars, Pending
  <2> QED
    BY <1>1, <2>1 DEF vars, bounds, storeVars, CountInv
<1> QED
  BY <1>1, CountPass, CountAdmin, CountWorld DEF Next

LEMMA CountInit == Init => CountInv
<1> SUFFICES ASSUME Init PROVE CountInv
  OBVIOUS
<1>1. Admins \subseteq Writers
  BY MaintenanceAssumption
<1>2. Pending = {} /\ \A a \in Admins : call[a].at = "idle"
  BY <1>1 DEF Init, StoreInit, Unasked, Still, Pending
<1>3. IsFiniteSet({}) /\ Cardinality({}) = 0
  BY FS_EmptySet
<1>4. \A p \in Clients : job[p].handed = 0
  BY DEF Init, Idle
<1> QED
  BY <1>2, <1>3, <1>4, MaintenanceAssumption DEF Init, CountInv

\* Every variable has the values the actions mean it to have: a lease never counts out
\* more passes than it counted in, a revision never comes from the future, and no transfer
\* is published twice (fence.go, SerialiseMaintenance; maintenanceowner.go).
THEOREM MaintenanceTypes == Spec => []TypeOK
<1> DEFINE Inv == FenceInv /\ LeaseInv /\ RecordInv /\ CountInv
<1>1. Init => Inv
  BY FenceInitial, LeaseInitial, RecordInit, CountInit DEF Init
<1>2. Inv /\ [Next]_vars => Inv'
  BY StepIsClients, FenceStep, LeaseKept, RecordStep, CountStep
<1>3. Inv => TypeOK
  <2> SUFFICES ASSUME Inv PROVE TypeOK
    OBVIOUS
  <2>1. FenceTypeOK /\ StoreTypeOK
    BY FenceTyped DEF RecordInv, StoreInv, StoreTypeOK, Calls, Files
  <2>2. handed \in 0 .. moves /\ moves \in 0 .. MaxMoves
    <3>1. Cardinality(Pending) \in Nat
      BY FS_CardinalityType DEF CountInv
    <3> QED
      BY <3>1, MaintenanceAssumption DEF CountInv
  <2>3. \A p \in Clients : job[p].handed \in 0 .. MaxMoves
    BY <2>2, MaintenanceAssumption DEF CountInv
  <2>4. job \in [Clients ->
       [pc : {"idle", "delete", "lease", "claim", "create", "reclaim", "window", "record", "end"},
        mode : Modes \cup {"none"}, due : BOOLEAN, now : 0 .. MaxTime,
        rec : Records \cup {NoFile}, rev : 0 .. MaxRevision, handed : 0 .. MaxMoves]]
    BY <2>3 DEF RecordInv, Jobs
  <2> QED
    BY <2>1, <2>2, <2>4 DEF TypeOK, RecordInv, Moves, CountInv
<1> HIDE DEF Inv
<1> QED
  BY <1>1, <1>2, <1>3, PTL DEF Spec

-----------------------------------------------------------------------------
(* What a scheduled window holds is still the record.                      *)

\* All passes are of one instance.
OneInstance == \A p, q \in Clients : GateOf[p] = GateOf[q]

Windowing == {"claim", "create", "reclaim", "window", "record"}

\* What a pass asks the store for.
OpAt(pc) ==
  CASE pc \in {"claim", "reclaim"} -> "load"
    [] pc = "create" -> "create"
    [] pc = "record" -> "swap"
    [] OTHER -> "none"

\* A pass is in a window with the lease, and writes only what its instance owns.
PassFits(p) ==
  /\ job[p].pc \in Windowing => turn[p] = "holding"
  /\ call[p].op = OpAt(job[p].pc) /\ (call[p].op = "none" => call[p].at = "idle")
  /\ call[p].op \in {"create", "swap"} => call[p].rec.owner = GateOf[p]
  /\ call[p].op = "swap" /\ call[p].at \in {"check", "link"} /\ call[p].rev = Newest /\ Newest # 0
       => Stored.owner = GateOf[p]
  /\ At(p, "window") => /\ job[p].rec.owner = GateOf[p]
                        /\ job[p].due => job[p].mode = Due(job[p].rec, job[p].now)

\* Unless the repository was handed over since the pass took the lease, what it reads
\* and what it claims in the name of its instance is the newest revision, and stays it.
Current(p) ==
  job[p].handed = handed =>
    /\ call[p].at = "read" /\ files[call[p].rev] # NoFile /\ files[call[p].rev].owner = GateOf[p]
         => call[p].rev = Newest
    /\ call[p].op \in {"load", "create"} =>
       /\ call[p].at = "ok" /\ call[p].rec.owner = GateOf[p] => call[p].rev = Newest
       /\ call[p].at \in {"forget", "recheck"} => call[p].op = "create" /\ call[p].rev = 1
       /\ OneInstance /\ call[p].at = "link" => Newest = 0
       /\ OneInstance /\ call[p].at \in {"forget", "recheck"} => Newest = 1
    /\ At(p, "window") => job[p].rev = Newest

DueInv == \A p \in Clients : PassFits(p) /\ Current(p)

\* A pass that is not in a window, or has only asked for the record, fits.
LEMMA OutsideFits ==
  ASSUME NEW p \in Clients, call'[p].op = "none", call'[p].at = "idle",
         job'[p].pc \in {"idle", "delete", "lease", "end"}
  PROVE  PassFits(p)' /\ Current(p)'
BY DEF PassFits, Current, OpAt, Windowing, At

LEMMA AskedFits ==
  ASSUME NEW p \in Clients, call'[p].op = "load", call'[p].at = "list",
         job'[p].pc \in {"claim", "reclaim"}, turn'[p] = "holding"
  PROVE  PassFits(p)' /\ Current(p)'
BY DEF PassFits, Current, OpAt, Windowing, At

\* What others may do to the files under a pass of the instance g: what is there in its
\* name stays or goes, and what follows the newest revision follows another's.
ByOthers(g) ==
  /\ \A r \in Revisions :
       files'[r] # NoFile /\ files'[r].owner = g => files'[r] = files[r]
  /\ \/ Newest' = Newest
     \/ Newest' = Newest + 1 /\ ~OneInstance /\ (Newest # 0 => Stored.owner # g)

\* A pass fits while others write.
LEMMA PassStays ==
  ASSUME RecordInv, NEW p \in Clients, PassFits(p),
         job'[p] = job[p], call'[p] = call[p], turn'[p] = turn[p],
         Rests \/ Newest' = Newest + 1
  PROVE  PassFits(p)'
<1>1. call[p].rev \in Nat /\ call[p].rev <= Newest /\ Newest \in Nat
  <2>1. call[p] \in Calls /\ CallFits(call[p], Newest, Stored)
    BY RecordTypes DEF RecordInv, StoreInv
  <2> QED
    BY <2>1, CallIs, RecordTypes DEF CallFits
<1>2. call[p].rev = Newest' /\ Newest' # 0 => call[p].rev = Newest /\ Newest # 0 /\ Stored' = Stored
  BY <1>1 DEF Rests
<1> QED
  BY <1>2 DEF PassFits, At

LEMMA CurrentStays ==
  ASSUME RecordInv, CountInv, NEW p \in Clients, PassFits(p), Current(p),
         job'[p] = job[p], call'[p] = call[p],
         \/ handed' = handed + 1
         \/ handed' = handed /\ ByOthers(GateOf[p])
  PROVE  Current(p)'
<1>1. job[p].handed \in 0 .. handed /\ handed \in Nat
  BY DEF CountInv, RecordInv
<1>2. CASE handed' = handed + 1
  BY <1>1, <1>2 DEF Current
<1>3. CASE handed' = handed /\ ByOthers(GateOf[p]) /\ job[p].handed = handed
  <2> DEFINE c == call[p]
             g == GateOf[p]
  <2>0. /\ c \in Calls /\ CallFits(c, Newest, Stored) /\ JobFits(job[p], Newest, Stored)
        /\ Newest \in Nat /\ NoFile \notin Records /\ (Newest = 0 => Stored = NoFile)
        /\ c.rev \in 0 .. MaxRevision
    BY RecordTypes, NoFileAssumption, CallIs DEF RecordInv, StoreInv
  <2>n. Newest # 0 => Stored = files[Newest]
    BY DEF Stored
  <2>1. ASSUME c.at = "read", files'[c.rev] # NoFile, files'[c.rev].owner = g
        PROVE  c.rev = Newest'
    <3>1. c.rev \in Revisions /\ c.rev # 0
      BY <2>0, <2>1 DEF CallFits, Revisions
    <3>2. files'[c.rev] = files[c.rev]
      BY <1>3, <2>1, <3>1 DEF ByOthers
    <3>3. c.rev = Newest
      BY <1>3, <2>1, <3>2 DEF Current
    <3> QED
      BY <1>3, <2>1, <2>n, <3>1, <3>2, <3>3 DEF ByOthers
  <2>2. ASSUME c.op \in {"load", "create"}, c.at = "ok", c.rec.owner = g PROVE c.rev = Newest'
    <3>1. c.rev = Newest /\ c.rec = Stored /\ c.rec \in Records
      BY <1>3, <2>0, <2>2 DEF Current, CallFits
    <3> QED
      BY <1>3, <2>0, <2>2, <3>1 DEF ByOthers
  <2>3. OneInstance => Newest' = Newest
    BY <1>3 DEF ByOthers
  <2>4. ASSUME At(p, "window") PROVE job[p].rev = Newest'
    <3>1. job[p].rev = Newest /\ job[p].rec = Stored /\ job[p].rec \in Records
          /\ job[p].rec.owner = g
      BY <1>3, <2>0, <2>4 DEF Current, JobFits, PassFits, At
    <3> QED
      BY <1>3, <2>0, <3>1 DEF ByOthers
  <2> QED
    BY <1>3, <2>1, <2>2, <2>3, <2>4 DEF Current, At
<1>4. CASE handed' = handed /\ job[p].handed # handed
  BY <1>4 DEF Current
<1> QED
  BY <1>2, <1>3, <1>4

\* A step of the store removes files, or links the one file it publishes.
LEMMA FilesGo ==
  ASSUME StoreInv, NEW w \in Writers, StoreStep(w), NEW r \in Revisions
  PROVE  \/ files'[r] = files[r] \/ files'[r] = NoFile
         \/ call[w].at = "link" /\ call'[w].at = "forget" /\ files'[r] = call[w].rec
<1>0. files \in Files /\ call \in [Writers -> Calls]
  BY DEF StoreInv
<1>1. CASE Link(w)
  <2>1. CASE files' # files
    <3>1. /\ files' = [files EXCEPT ![call[w].rev + 1] = call[w].rec]
          /\ call' = [call EXCEPT ![w].at = "forget", ![w].rev = call[w].rev + 1]
          /\ call[w].at = "link"
      BY <1>1, <2>1 DEF Link
    <3>2. call'[w].at = "forget"
      BY <1>0, <3>1 DEF Calls
    <3>3. files'[r] = files[r] \/ files'[r] = call[w].rec
      BY <1>0, <3>1 DEF Files
    <3> QED
      BY <3>1, <3>2, <3>3
  <2> QED
    BY <2>1
<1>2. CASE ForgetOlder(w)
  <2>1. PICK gone \in SUBSET {q \in Revisions : q < call[w].rev /\ files[q] # NoFile} :
          files' = [q \in Revisions |-> IF q \in gone THEN NoFile ELSE files[q]]
    BY <1>2 DEF ForgetOlder
  <2> QED
    BY <2>1
<1>3. CASE CreateRecheck(w)
  BY <1>0, <1>3 DEF CreateRecheck, Files
<1>4. CASE LoadList(w) \/ LoadRead(w) \/ CreateCheck(w) \/ SwapCheck(w) \/ CallFails(w)
  BY <1>4 DEF LoadList, LoadRead, CreateCheck, SwapCheck, CallFails
<1> QED
  BY <1>1, <1>2, <1>3, <1>4 DEF StoreStep

\* A pass that asks nothing and is in no window has nothing to lose.
LEMMA RestingFits ==
  ASSUME NEW p \in Clients, PassFits(p), job[p].pc \notin Windowing,
         job'[p] = job[p], call'[p] = call[p]
  PROVE  PassFits(p)' /\ Current(p)'
<1>1. call[p].op = "none" /\ call[p].at = "idle"
  BY DEF PassFits, OpAt, Windowing
<1> QED
  BY <1>1 DEF PassFits, Current, OpAt, Windowing, At

\* Two passes of one instance are never both in a window.
LEMMA OneWindow ==
  ASSUME LeaseInv, NEW p \in Clients, NEW q \in Clients, p # q, GateOf[p] = GateOf[q],
         PassFits(p), PassFits(q), job[p].pc \in Windowing
  PROVE  call[q].at = "idle"
<1>1. turn[p] = "holding" /\ turn[q] # "holding"
  BY DEF PassFits, LeaseInv
<1>2. OpAt(job[q].pc) = "none"
  BY <1>1 DEF PassFits, OpAt, Windowing
<1> QED
  BY <1>2 DEF PassFits

\* The store takes a step for another pass.
LEMMA OtherInStore ==
  ASSUME RecordInv, LeaseInv, CountInv, DueInv,
         NEW p \in Clients, NEW q \in Clients, p # q, InStore(q)
  PROVE  PassFits(p)' /\ Current(p)'
<1>0. /\ p \in Writers /\ q \in Writers /\ q \notin Admins
      /\ StoreStep(q) /\ UNCHANGED <<job, turn, handed>>
      /\ PassFits(p) /\ PassFits(q) /\ Current(p)
      /\ StoreInv /\ call[q] \in Calls /\ CallFits(call[q], Newest, Stored)
  BY RecordTypes DEF InStore, fenceVars, DueInv, RecordInv, StoreInv
<1>1. call'[p] = call[p] /\ job'[p] = job[p] /\ turn'[p] = turn[p]
  BY <1>0, StoreStepKeeps
<1>2. Rests \/ Publishes(q)
  BY <1>0, StoreStepKeeps
<1>3. call[q].at # "idle"
  BY <1>0 DEF StoreStep, LoadList, LoadRead, CreateCheck, SwapCheck, Link, ForgetOlder,
              CreateRecheck, CallFails, Asking
<1>4. CASE job[p].pc \notin Windowing
  BY <1>0, <1>1, <1>4, RestingFits
<1>5. CASE job[p].pc \in Windowing
  <2>1. GateOf[p] # GateOf[q]
    BY <1>0, <1>3, <1>5, OneWindow
  <2>2. call[q].at = "link" => /\ call[q].op \in {"create", "swap"}
                               /\ call[q].op = "create" => call[q].rev = 0
                               /\ call[q].rec.owner = GateOf[q]
    BY <1>0 DEF CallFits, PassFits
  <2>3. ASSUME NEW r \in Revisions, files'[r] # NoFile, files'[r].owner = GateOf[p]
        PROVE  files'[r] = files[r]
    BY <1>0, <2>1, <2>2, <2>3, FilesGo
  <2>4. ASSUME Publishes(q), Newest # 0 PROVE Stored.owner # GateOf[p]
    BY <1>0, <2>1, <2>2, <2>4 DEF Publishes, PassFits
  <2>5. ~OneInstance
    BY <2>1 DEF OneInstance
  <2>6. ByOthers(GateOf[p])
    BY <1>2, <2>3, <2>4, <2>5 DEF ByOthers, Rests, Publishes
  <2>7. Rests \/ Newest' = Newest + 1
    BY <1>2 DEF Publishes
  <2> QED
    BY <1>0, <1>1, <2>6, <2>7, PassStays, CurrentStays
<1> QED
  BY <1>4, <1>5

\* The store takes a step for an administrator.
LEMMA AdminInStore ==
  ASSUME RecordInv, CountInv, DueInv, NEW p \in Clients, NEW a \in Admins, InStore(a)
  PROVE  PassFits(p)' /\ Current(p)'
<1>0. /\ p \in Writers /\ a \in Writers /\ p # a
      /\ StoreStep(a) /\ UNCHANGED <<job, turn>>
      /\ handed' = IF call[a].at = "link" /\ call'[a].at = "forget" THEN handed + 1 ELSE handed
      /\ PassFits(p) /\ Current(p) /\ StoreInv
  BY RecordTypes DEF InStore, fenceVars, DueInv, RecordInv
<1>1. call'[p] = call[p] /\ job'[p] = job[p] /\ turn'[p] = turn[p]
  BY <1>0, StoreStepKeeps
<1>2. Rests \/ Publishes(a)
  BY <1>0, StoreStepKeeps
<1>3. handed' = handed + 1 \/ (handed' = handed /\ ByOthers(GateOf[p]))
  <2>1. CASE call[a].at = "link" /\ call'[a].at = "forget"
    BY <1>0, <2>1
  <2>2. CASE ~(call[a].at = "link" /\ call'[a].at = "forget")
    <3>1. \A r \in Revisions : files'[r] = files[r] \/ files'[r] = NoFile
      BY <1>0, <2>2, FilesGo
    <3>2. Newest' = Newest
      BY <1>2, <2>2 DEF Rests, Publishes
    <3> QED
      BY <1>0, <2>2, <3>1, <3>2 DEF ByOthers
  <2> QED
    BY <2>1, <2>2
<1>4. Rests \/ Newest' = Newest + 1
  BY <1>2 DEF Publishes
<1> QED
  BY <1>0, <1>1, <1>3, <1>4, PassStays, CurrentStays

\* Nothing happens to the files or to the pass.
LEMMA UndisturbedFits ==
  ASSUME RecordInv, CountInv, DueInv, NEW p \in Clients, files' = files, handed' = handed,
         job'[p] = job[p], call'[p] = call[p], turn'[p] = turn[p]
  PROVE  PassFits(p)' /\ Current(p)'
<1>1. Rests
  BY NewestNow DEF Rests
<1>2. ByOthers(GateOf[p])
  BY <1>1 DEF ByOthers, Rests
<1> QED
  BY <1>1, <1>2, PassStays, CurrentStays DEF DueInv

\* What else another pass does concerns it alone.
LEMMA OtherPass ==
  ASSUME RecordInv, LeaseInv, CountInv, DueInv,
         NEW p \in Clients, NEW q \in Clients, p # q,
         PassStep(q) \/ StartDelete(q) \/ StartWindow(q) \/ Cancel(q)
  PROVE  PassFits(p)' /\ Current(p)'
<1>0. /\ p \in Writers /\ q \in Writers /\ call \in [Writers -> Calls]
      /\ job \in [Clients -> Jobs] /\ turn \in [Clients -> Turns]
  BY RecordTypes DEF LeaseInv
<1>1. CASE InStore(q)
  BY <1>1, OtherInStore
<1>2. CASE ~InStore(q)
  <2>1. Proceed(q) \/ Refused(q) => TakeAnswer(q)
    BY DEF Proceed, Refused
  <2>2. \/ UNCHANGED storeVars \/ TakeAnswer(q) \/ BeginLoad(q)
        \/ BeginCreate(q, Unclaimed(GateOf[q]))
        \/ \E rec, rev : BeginSwap(q, rec, rev)
    BY <1>2, <2>1 DEF PassStep, StartDelete, StartWindow, Cancel, FinishDelete, WaitForLease,
                StartClaim, ClaimAnswer, CreateAnswer, ReclaimAnswer, Maintained, RecordAnswer,
                EndWindow, AtFence
  <2>3. files' = files /\ call'[p] = call[p]
    BY <1>0, <2>2 DEF storeVars, TakeAnswer, BeginLoad, BeginCreate, BeginSwap, Begin
  <2>4. handed' = handed
    BY <1>2 DEF PassStep, StartDelete, StartWindow, Cancel, FinishDelete, WaitForLease, StartClaim,
                ClaimAnswer, CreateAnswer, ReclaimAnswer, Maintained, RecordAnswer, EndWindow,
                AtFence, bounds
  <2>5. job'[p] = job[p]
    <3>1. ASSUME NEW pc, Goto(q, pc) PROVE job'[p] = job[p]
      BY <1>0, <3>1 DEF Goto
    <3>2. ASSUME Stop(q) PROVE job'[p] = job[p]
      BY <1>0, <3>2 DEF Stop
    <3>3. ASSUME Proceed(q) PROVE job'[p] = job[p]
      BY <1>0, <3>1, <3>3 DEF Proceed
    <3>4. CASE StartClaim(q) \/ StartWindow(q)
      BY <1>0, <3>4 DEF StartClaim, StartWindow
    <3> QED
      BY <1>2, <3>1, <3>2, <3>3, <3>4
         DEF PassStep, StartDelete, Cancel, FinishDelete, WaitForLease, Refused,
             ClaimAnswer, CreateAnswer, ReclaimAnswer, Maintained, RecordAnswer, EndWindow, AtFence
  <2>6. turn'[p] = turn[p]
    <3>1. GateStep(q) \/ LeaseStep(q) \/ UNCHANGED fenceVars
      BY PassIsClient
    <3>2. GateStep(q) => UNCHANGED turn
      BY DEF GateStep, Acquire, Enter, GiveUp, Leave, Release, HandBack, leaseVars
    <3>3. LeaseStep(q) => turn'[p] = turn[p]
      BY <1>0 DEF LeaseStep, Ask, TakeToken, Wait, StopWaiting, ReturnToken, CountOut, Forget
    <3> QED
      BY <3>1, <3>2, <3>3 DEF fenceVars
  <2> QED
    BY <2>3, <2>4, <2>5, <2>6, UndisturbedFits
<1> QED
  BY <1>1, <1>2

\* So does what an administrator does beside the store, and the world.
LEMMA AdminLeaves ==
  ASSUME RecordInv, CountInv, DueInv, NEW p \in Clients, NEW a \in Admins,
         AdminStep(a) \/ StartTransfer(a)
  PROVE  PassFits(p)' /\ Current(p)'
<1>0. p \in Writers /\ a \in Writers /\ p # a /\ call \in [Writers -> Calls]
  BY RecordTypes
<1>1. CASE InStore(a)
  BY <1>1, AdminInStore
<1>2. CASE StartTransfer(a) \/ TransferLook(a) \/ TransferAnswer(a)
  <2>1. UNCHANGED <<job, turn, handed>>
    BY <1>2 DEF StartTransfer, TransferLook, TransferAnswer, fenceVars
  <2>2. files' = files /\ call'[p] = call[p]
    BY <1>0, <1>2 DEF StartTransfer, TransferLook, TransferAnswer, TakeAnswer, BeginLoad,
                      BeginSwap, Begin
  <2> QED
    BY <2>1, <2>2, UndisturbedFits
<1> QED
  BY <1>1, <1>2 DEF AdminStep

LEMMA WorldLeaves ==
  ASSUME RecordInv, CountInv, DueInv, NEW p \in Clients, Tick \/ \E g \in Gates : Crash(g)
  PROVE  PassFits(p)' /\ Current(p)'
<1>0. p \in Writers
  BY RecordTypes
<1>1. CASE Tick
  BY <1>1, UndisturbedFits DEF Tick, storeVars, fenceVars
<1>2. ASSUME NEW g \in Gates, Crash(g) PROVE PassFits(p)' /\ Current(p)'
  <2>1. CASE GateOf[p] = g
    <3>1. call'[p] = Unasked /\ job'[p] = Idle
      BY <1>0, <1>2, <2>1 DEF Crash
    <3> QED
      BY <3>1, OutsideFits DEF Unasked, Idle
  <2>2. CASE GateOf[p] # g
    <3>1. /\ call'[p] = call[p] /\ job'[p] = job[p] /\ files' = files /\ handed' = handed
          /\ turn'[p] = turn[p]
      BY <1>0, <1>2, <2>2 DEF Crash, FenceLost
    <3> QED
      BY <3>1, UndisturbedFits
  <2> QED
    BY <2>1, <2>2
<1> QED
  BY <1>1, <1>2

\* A call that only goes on keeps what it was asked, and what it holds.
LEMMA GoesOn ==
  ASSUME call \in [Writers -> Calls], NEW w \in Writers, NEW at, CallGoes(w, at)
  PROVE  /\ call'[w].at = at /\ call'[w].op = call[w].op
         /\ call'[w].rec = call[w].rec /\ call'[w].rev = call[w].rev
BY DEF CallGoes, Calls

\* The store takes a step for the pass itself.
LEMMA OwnInStore ==
  ASSUME RecordInv, MaxErrors = 0 \/ OneInstance, NEW p \in Clients,
         PassFits(p), Current(p), InStore(p)
  PROVE  PassFits(p)' /\ Current(p)'
<1> DEFINE c == call[p]
           d == call'[p]
<1>0. /\ p \in Writers /\ p \notin Admins /\ call \in [Writers -> Calls] /\ c \in Calls
      /\ StoreInv /\ StoreStep(p) /\ job'[p] = job[p] /\ turn'[p] = turn[p] /\ handed' = handed
      /\ CallFits(c, Newest, Stored) /\ Newest \in Nat
      /\ files \in Files /\ errors \in Nat /\ MaxErrors \in Nat
  BY RecordTypes, StoreAssumption DEF RecordInv, StoreInv, InStore, fenceVars
<1>1. c.at # "idle"
  BY <1>0 DEF StoreStep, LoadList, LoadRead, CreateCheck, SwapCheck, Link, ForgetOlder,
              CreateRecheck, CallFails, Asking
<1>2. c.op # "none" /\ c.op = OpAt(job[p].pc) /\ job[p].pc # "window"
  BY <1>1 DEF PassFits, OpAt
<1>3. Rests \/ Publishes(p)
  BY <1>0, StoreStepKeeps
\* The pass is in order when its call is.
<1>4. ASSUME d.op = c.op, d.op \in {"create", "swap"} => d.rec = c.rec,
             \/ d.at \notin {"check", "link"}
             \/ d.at = "link" /\ c.at = "check" /\ d.rev = c.rev /\ Rests
      PROVE  PassFits(p)'
  BY <1>0, <1>2, <1>4 DEF PassFits, Rests, At
\* So is what it holds.
<1>5. ASSUME d.op = c.op,
             job[p].handed = handed =>
               /\ d.at = "read" => d.rev = Newest'
               /\ d.op \in {"load", "create"} =>
                  /\ d.at = "ok" /\ d.rec.owner = GateOf[p] => d.rev = Newest'
                  /\ d.at \in {"forget", "recheck"} => d.op = "create" /\ d.rev = 1
                  /\ OneInstance /\ d.at = "link" => Newest' = 0
                  /\ OneInstance /\ d.at \in {"forget", "recheck"} => Newest' = 1
      PROVE  Current(p)'
  BY <1>0, <1>2, <1>5 DEF Current, At
<1>6. CASE LoadList(p)
  <2>1. /\ d.op = "load" /\ d.rev = Newest /\ d.at \in {"absent", "read"} /\ c.op = "load"
        /\ Newest' = Newest
    BY <1>0, <1>6, NewestNow DEF LoadList, Asking, Calls
  <2> HIDE DEF c, d
  <2> QED
    BY <1>4, <1>5, <2>1
<1>7. CASE LoadRead(p)
  <2>1. /\ d.op = "load" /\ c.op = "load" /\ c.at = "read" /\ d.rev = c.rev
        /\ d.rec = files[c.rev] /\ Newest' = Newest
        /\ d.at \in {"ok", "list", "failed"} /\ (d.at = "ok" => files[c.rev] # NoFile)
    BY <1>0, <1>7, NewestNow DEF LoadRead, Asking, Calls
  <2>2. job[p].handed = handed /\ d.at = "ok" /\ d.rec.owner = GateOf[p] => d.rev = Newest'
    BY <2>1 DEF Current
  <2> HIDE DEF c, d
  <2> QED
    BY <1>4, <1>5, <2>1, <2>2
<1>8. CASE CreateCheck(p)
  <2>1. /\ c.op = "create" /\ c.at = "check"
        /\ \/ Newest = 0 /\ CallGoes(p, "link")
           \/ CallGoes(p, "exists")
        /\ Rests
    BY <1>8, NewestNow DEF CreateCheck, Asking, Rests
  <2>2. /\ d.op = c.op /\ d.rec = c.rec /\ d.rev = c.rev
        /\ (d.at = "link" /\ Newest = 0) \/ d.at = "exists"
    BY <1>0, <2>1, GoesOn
  <2> HIDE DEF c, d
  <2> QED
    BY <1>4, <1>5, <2>1, <2>2 DEF Rests
<1>9. CASE SwapCheck(p)
  <2>1. /\ c.op = "swap" /\ c.at = "check" /\ Rests
        /\ \E at \in {"absent", "stale", "link"} : CallGoes(p, at)
    BY <1>9, NewestNow DEF SwapCheck, Asking, Rests
  <2>2. d.op = c.op /\ d.rec = c.rec /\ d.rev = c.rev /\ d.at \in {"absent", "stale", "link"}
    BY <1>0, <2>1, GoesOn
  <2> HIDE DEF c, d
  <2> QED
    BY <1>4, <1>5, <2>1, <2>2
<1>10. CASE Link(p)
  <2>1. CASE \E at \in {"exists", "stale", "failed"} : CallGoes(p, at)
    <3>1. d.op = c.op /\ d.rec = c.rec /\ d.at \in {"exists", "stale", "failed"}
      BY <1>0, <2>1, GoesOn
    <3> HIDE DEF c, d
    <3> QED
      BY <1>4, <1>5, <3>1
  <2>2. CASE /\ files' = [files EXCEPT ![c.rev + 1] = c.rec]
             /\ call' = [call EXCEPT ![p].at = "forget", ![p].rev = c.rev + 1]
             /\ c.rev + 1 \in Revisions
    <3>1. d.op = c.op /\ d.rec = c.rec /\ d.at = "forget" /\ d.rev = c.rev + 1 /\ c.at = "link"
      BY <1>0, <1>10, <2>2 DEF Calls, Link
    <3>2. c.op \in {"load", "create"} => c.op = "create" /\ c.rev = 0
      BY <1>0, <3>1 DEF CallFits
    <3>3. ASSUME job[p].handed = handed, c.op = "create", OneInstance PROVE Newest' = 1
      <4>1. Newest = 0
        BY <3>1, <3>3 DEF Current
      <4>2. files'[1] = c.rec /\ c.rec # NoFile /\ 1 \in Revisions /\ files' \in Files
        <5>1. c.rec \in Records
          BY <1>0, <3>1, <3>3 DEF CallFits
        <5> QED
          BY <1>0, <2>2, <3>2, <3>3, <5>1, NoFileAssumption DEF Files
      <4>3. Newest' # 0
        BY <4>2, NewestIs, NewestNow DEF Revisions
      <4> QED
        BY <1>3, <4>1, <4>3 DEF Rests, Publishes
    <3> HIDE DEF c, d
    <3> QED
      BY <1>4, <1>5, <3>1, <3>2, <3>3
  <2> QED
    BY <1>10, <2>1, <2>2 DEF Link
<1>11. CASE ForgetOlder(p)
  <2>1. /\ CallGoes(p, IF c.op = "create" THEN "recheck" ELSE "ok") /\ c.at = "forget"
    BY <1>11 DEF ForgetOlder
  <2>2. /\ d.op = c.op /\ d.rec = c.rec /\ d.rev = c.rev
        /\ d.at = IF c.op = "create" THEN "recheck" ELSE "ok"
    BY <1>0, <2>1, GoesOn
  <2>3. Newest' = Newest
    BY <1>3, <2>1 DEF Rests, Publishes
  <2>4. job[p].handed = handed /\ c.op \in {"load", "create"} =>
          c.op = "create" /\ c.rev = 1 /\ (OneInstance => Newest = 1)
    BY <2>1 DEF Current
  <2> HIDE DEF c, d
  <2> QED
    BY <1>4, <1>5, <2>2, <2>3, <2>4
<1>12. CASE CreateRecheck(p)
  <2>1. /\ c.op = "create" /\ c.at = "recheck"
        /\ CallGoes(p, "exists") \/ (CallGoes(p, "ok") /\ Newest <= 1)
    BY <1>0, <1>12 DEF CreateRecheck, Asking
  <2>2. /\ d.op = c.op /\ d.rec = c.rec /\ d.rev = c.rev
        /\ d.at = "exists" \/ (d.at = "ok" /\ Newest <= 1)
    BY <1>0, <2>1, GoesOn
  <2>3. Newest' = Newest
    BY <1>3, <2>1 DEF Rests, Publishes
  <2>4. job[p].handed = handed => c.rev = 1 /\ 1 <= Newest
    BY <1>0, <2>1 DEF Current, CallFits
  <2> HIDE DEF c, d
  <2> QED
    BY <1>0, <1>4, <1>5, <2>1, <2>2, <2>3, <2>4
<1>13. CASE CallFails(p)
  <2>1. /\ errors < MaxErrors
        /\ CallGoes(p, "failed") \/ (c.at = "recheck" /\ CallGoes(p, "ok"))
    BY <1>13 DEF CallFails
  <2>2. /\ d.op = c.op /\ d.rec = c.rec /\ d.rev = c.rev
        /\ d.at = "failed" \/ (d.at = "ok" /\ c.at = "recheck")
    BY <1>0, <2>1, GoesOn
  <2>3. OneInstance
    BY <1>0, <2>1
  <2>4. Newest' = Newest
    BY <1>13, NewestNow DEF CallFails
  <2>5. job[p].handed = handed /\ c.op \in {"load", "create"} /\ c.at = "recheck" =>
          c.rev = 1 /\ Newest = 1
    BY <2>3 DEF Current
  <2> HIDE DEF c, d
  <2> QED
    BY <1>4, <1>5, <2>2, <2>4, <2>5
<1> QED
  BY <1>0, <1>6, <1>7, <1>8, <1>9, <1>10, <1>11, <1>12, <1>13 DEF StoreStep

\* A call begins.
LEMMA BeginIs ==
  ASSUME call \in [Writers -> Calls], NEW w \in Writers, NEW op, NEW at, NEW rec, NEW rev,
         Begin(w, op, at, rec, rev)
  PROVE  /\ call'[w].op = op /\ call'[w].at = at /\ call'[w].rec = rec /\ call'[w].rev = rev
         /\ files' = files
<1>1. call'[w] = [op |-> op, at |-> at, rec |-> rec, rev |-> rev, tries |-> 0]
  BY AskedIs DEF Begin
<1> QED
  BY <1>1 DEF Begin

\* A pass that has the record of its instance goes into its window, or home.
LEMMA ProceedFits ==
  ASSUME RecordInv, NEW p \in Clients, PassFits(p), Current(p), Proceed(p),
         job[p].pc \in {"claim", "create", "reclaim"}, call[p].at = "ok",
         call[p].rec.owner = GateOf[p], handed' = handed
  PROVE  PassFits(p)' /\ Current(p)'
<1> DEFINE mode == IF job[p].due THEN Due(call[p].rec, job[p].now) ELSE job[p].mode
<1>0. /\ p \in Writers /\ call \in [Writers -> Calls] /\ job \in [Clients -> Jobs]
      /\ turn[p] = "holding" /\ call[p].op \in {"load", "create"}
  BY RecordTypes DEF PassFits, Windowing, OpAt
<1>1. /\ call'[p] = Unasked /\ files' = files
  BY <1>0 DEF Proceed, TakeAnswer
<1>2. Newest' = Newest
  BY <1>1, NewestNow
<1>3. CASE mode = "none" /\ Goto(p, "end")
  <2>1. job'[p].pc = "end"
    BY <1>0, <1>3 DEF Goto, Jobs
  <2> QED
    BY <1>1, <2>1, OutsideFits DEF Unasked
<1>4. CASE /\ Acquire(p, mode = "full")
           /\ job' = [job EXCEPT ![p].pc = "window", ![p].mode = mode,
                                 ![p].rec = call[p].rec, ![p].rev = call[p].rev]
  <2>1. /\ job'[p].pc = "window" /\ job'[p].mode = mode /\ job'[p].rec = call[p].rec
        /\ job'[p].rev = call[p].rev /\ job'[p].due = job[p].due /\ job'[p].now = job[p].now
        /\ job'[p].handed = job[p].handed
    BY <1>0, <1>4 DEF Jobs
  <2>2. turn'[p] = "holding"
    BY <1>0, <1>4 DEF Acquire, leaseVars
  <2>3. call'[p].op = "none" /\ call'[p].at = "idle"
    BY <1>1 DEF Unasked
  <2>4. PassFits(p)'
    BY <2>1, <2>2, <2>3 DEF PassFits, OpAt, Windowing, At
  <2>5. Current(p)'
    BY <1>0, <1>2, <2>1, <2>3 DEF Current, At
  <2> QED
    BY <2>4, <2>5
<1> QED
  BY <1>3, <1>4 DEF Proceed

\* Who waits at the fence waits to delete, or for its window.
QueueInv == \A p \in Clients : spot[p] \in {"queued", "leaving"} => job[p].pc \in {"delete", "window"}

LEMMA QueueKept == RecordInv /\ FenceInv /\ QueueInv /\ [Next]_vars => QueueInv'
<1> SUFFICES ASSUME RecordInv, FenceInv, QueueInv, [Next]_vars PROVE QueueInv'
  OBVIOUS
<1>0. job \in [Clients -> Jobs] /\ spot \in [Clients -> {"outside", "queued", "inside", "leaving"}]
  BY DEF RecordInv, FenceInv, GateTypes, Spots
<1>1. CASE UNCHANGED <<job, spot>>
  BY <1>1 DEF QueueInv
<1>2. ASSUME NEW p \in Clients, PassStep(p) \/ StartDelete(p) \/ StartWindow(p) \/ Cancel(p)
      PROVE  QueueInv'
  <2>1. ASSUME NEW q \in Clients, q # p PROVE spot'[q] = spot[q] /\ job'[q] = job[q]
    <3>1. /\ \A pc : Goto(p, pc) => job'[q] = job[q]
          /\ Stop(p) => job'[q] = job[q]
          /\ \A exclusive : Acquire(p, exclusive) => spot'[q] = spot[q]
          /\ Release(p) \/ Enter(p) \/ Leave(p) \/ GiveUp(p) => spot'[q] = spot[q]
      BY <1>0, <2>1 DEF Goto, Stop, Acquire, Release, HandBack, Enter, Leave, GiveUp
    <3>2. CASE StartClaim(p) \/ StartWindow(p)
      BY <1>0, <2>1, <3>2 DEF StartClaim, StartWindow, TakeToken, Ask, gateVars
    <3>3. ASSUME Proceed(p) PROVE spot'[q] = spot[q] /\ job'[q] = job[q]
      BY <1>0, <2>1, <3>1, <3>3 DEF Proceed, fenceVars
    <3>4. CASE WaitForLease(p) \/ EndWindow(p)
      BY <1>0, <2>1, <3>1, <3>4 DEF WaitForLease, EndWindow, Wait, StopWaiting, ReturnToken,
                                    CountOut, Forget, gateVars
    <3> QED
      BY <1>2, <3>1, <3>2, <3>3, <3>4
         DEF PassStep, StartDelete, Cancel, FinishDelete, ClaimAnswer, CreateAnswer, ReclaimAnswer,
             Refused, Maintained, RecordAnswer, AtFence, InStore, fenceVars
  <2>2. spot'[p] \in {"queued", "leaving"} => job'[p].pc \in {"delete", "window"}
    <3>0. \A pc : Goto(p, pc) => job'[p].pc = pc
      BY <1>0 DEF Goto, Jobs
    <3>1. CASE StartDelete(p)
      BY <3>0, <3>1 DEF StartDelete
    <3>2. CASE FinishDelete(p) \/ RecordAnswer(p)
      BY <1>0, <3>2 DEF FinishDelete, RecordAnswer, Release, HandBack
    <3>3. ASSUME Leave(p) PROVE spot'[p] = "outside"
      BY <1>0, <3>3 DEF Leave, HandBack
    <3>4. ASSUME Enter(p) PROVE spot'[p] = "inside"
      BY <1>0, <3>4 DEF Enter
    <3>5. CASE AtFence(p)
      BY <3>3, <3>4, <3>5 DEF AtFence
    <3>6. CASE Cancel(p)
      BY <1>0, <3>6 DEF Cancel, GiveUp, QueueInv
    <3>7. ASSUME spot' = spot, ~At(p, "delete"), At(p, "window") => spot[p] = "inside"
          PROVE  spot'[p] \notin {"queued", "leaving"}
      BY <3>7 DEF QueueInv, At
    <3>8. CASE StartWindow(p) \/ StartClaim(p) \/ WaitForLease(p) \/ EndWindow(p) \/ Maintained(p)
      BY <3>7, <3>8 DEF StartWindow, StartClaim, WaitForLease, EndWindow, Maintained, At, Ask,
                        TakeToken, Wait, StopWaiting, ReturnToken, CountOut, Forget, gateVars,
                        fenceVars
    <3>9. ASSUME Proceed(p), job[p].pc \in {"claim", "create", "reclaim"}
          PROVE  spot'[p] \in {"queued", "leaving"} => job'[p].pc \in {"delete", "window"}
      <4>1. CASE UNCHANGED fenceVars
        BY <3>7, <3>9, <4>1 DEF fenceVars, At
      <4>2. CASE \E mode : job' = [job EXCEPT ![p].pc = "window", ![p].mode = mode,
                                              ![p].rec = call[p].rec, ![p].rev = call[p].rev]
        BY <1>0, <4>2 DEF Jobs
      <4> QED
        BY <3>9, <4>1, <4>2 DEF Proceed
    <3>10. CASE ClaimAnswer(p) \/ CreateAnswer(p) \/ ReclaimAnswer(p)
      <4>1. job[p].pc \in {"claim", "create", "reclaim"}
        BY <3>10 DEF ClaimAnswer, CreateAnswer, ReclaimAnswer, At
      <4>2. CASE UNCHANGED fenceVars
        BY <3>7, <4>1, <4>2 DEF fenceVars, At
      <4> QED
        BY <3>9, <3>10, <4>1, <4>2 DEF ClaimAnswer, CreateAnswer, ReclaimAnswer, Refused
    <3>11. CASE InStore(p)
      BY <3>11 DEF InStore, fenceVars, QueueInv
    <3> QED
      BY <1>2, <3>1, <3>2, <3>5, <3>6, <3>8, <3>10, <3>11 DEF PassStep
  <2> QED
    BY <2>1, <2>2 DEF QueueInv
<1>3. ASSUME NEW a \in Admins, AdminStep(a) \/ StartTransfer(a) PROVE UNCHANGED <<job, spot>>
  BY <1>3 DEF AdminStep, TransferLook, TransferAnswer, InStore, StartTransfer, fenceVars
<1>4. CASE Tick \/ UNCHANGED vars
  BY <1>1, <1>4 DEF Tick, vars, fenceVars
<1>5. ASSUME NEW g \in Gates, Crash(g) PROVE QueueInv'
  BY <1>5 DEF Crash, FenceLost, QueueInv
<1> QED
  BY <1>1, <1>2, <1>3, <1>4, <1>5 DEF Next

\* The pass itself takes a step, but for the store.
LEMMA OwnPass ==
  ASSUME RecordInv, LeaseInv, CountInv, QueueInv, DueInv, NEW p \in Clients,
         PassStep(p) \/ StartDelete(p) \/ StartWindow(p) \/ Cancel(p), ~InStore(p)
  PROVE  PassFits(p)' /\ Current(p)'
<1>0. /\ p \in Writers /\ call \in [Writers -> Calls] /\ call[p] \in Calls
      /\ job \in [Clients -> Jobs] /\ job[p] \in Jobs /\ turn \in [Clients -> Turns]
      /\ PassFits(p) /\ Current(p) /\ CallFits(call[p], Newest, Stored)
      /\ JobFits(job[p], Newest, Stored) /\ StoreInv
  BY RecordTypes DEF RecordInv, StoreInv, DueInv, LeaseInv
<1>1. ASSUME NEW pc, Goto(p, pc) PROVE job'[p].pc = pc /\ job'[p].rec = job[p].rec
  BY <1>0, <1>1 DEF Goto, Jobs
<1>2. ASSUME Stop(p) PROVE job'[p].pc = "idle"
  BY <1>0, <1>2 DEF Stop, Idle
<1>3. ASSUME TakeAnswer(p) PROVE call'[p].op = "none" /\ call'[p].at = "idle"
  BY <1>0, <1>3 DEF TakeAnswer, Unasked
<1>4. ASSUME call' = call, job[p].pc \notin {"claim", "create", "reclaim", "record"}
      PROVE  call'[p].op = "none" /\ call'[p].at = "idle"
  BY <1>0, <1>4 DEF PassFits, OpAt
<1>5. CASE StartDelete(p) \/ FinishDelete(p) \/ WaitForLease(p) \/ EndWindow(p)
  <2>1. call' = call /\ job[p].pc \in {"idle", "delete", "lease", "end"}
    BY <1>5 DEF StartDelete, FinishDelete, WaitForLease, EndWindow, At, storeVars
  <2>2. job'[p].pc \in {"idle", "delete", "lease", "end"}
    BY <1>1, <1>2, <1>5 DEF StartDelete, FinishDelete, WaitForLease, EndWindow, At
  <2> QED
    BY <1>4, <2>1, <2>2, OutsideFits
<1>6. CASE StartWindow(p)
  <2>1. call' = call /\ job[p].pc = "idle"
    BY <1>6 DEF StartWindow, At, storeVars
  <2>2. PICK due \in BOOLEAN, mode \in Modes :
          job' = [job EXCEPT ![p] = [Idle EXCEPT !.pc = "lease", !.mode = mode, !.due = due,
                                                 !.now = clock]]
    BY <1>6 DEF StartWindow
  <2>3. Idle \in Jobs
    BY IdleFits
  <2>4. [Idle EXCEPT !.pc = "lease", !.mode = mode, !.due = due, !.now = clock].pc = "lease"
    BY <2>3 DEF Jobs
  <2>5. job'[p].pc = "lease"
    BY <1>0, <2>2, <2>4
  <2> QED
    BY <1>4, <2>1, <2>5, OutsideFits
<1>7. CASE AtFence(p) \/ Cancel(p)
  <2>1. UNCHANGED <<files, call, handed, turn>>
    BY <1>7 DEF AtFence, Cancel, Enter, Leave, GiveUp, HandBack, storeVars, leaseVars
  <2>2. CASE UNCHANGED job
    BY <1>0, <2>1, <2>2, UndisturbedFits
  <2>3. CASE At(p, "window") /\ Goto(p, "end")
    BY <1>1, <1>4, <2>1, <2>3, OutsideFits DEF At
  <2>4. CASE Stop(p) /\ ~At(p, "window") /\ spot[p] = "leaving"
    <3>1. job[p].pc = "delete"
      BY <2>4 DEF QueueInv, At
    <3> QED
      BY <1>2, <1>4, <2>1, <2>4, <3>1, OutsideFits
  <2> QED
    BY <1>7, <2>2, <2>3, <2>4 DEF AtFence, Cancel, Leave
<1>8. CASE StartClaim(p)
  <2>1. call'[p].op = "load" /\ call'[p].at = "list"
    BY <1>0, <1>8, BeginIs DEF StartClaim, BeginLoad
  <2>2. job'[p].pc = "claim" /\ turn'[p] = "holding"
    BY <1>0, <1>8 DEF StartClaim, TakeToken, Jobs
  <2> QED
    BY <2>1, <2>2, AskedFits
<1>9. CASE ClaimAnswer(p) \/ CreateAnswer(p) \/ ReclaimAnswer(p)
  <2>0. job[p].pc \in {"claim", "create", "reclaim"} /\ handed' = handed /\ turn[p] = "holding"
    BY <1>0, <1>9 DEF ClaimAnswer, CreateAnswer, ReclaimAnswer, At, bounds, PassFits, Windowing
  <2>1. CASE Proceed(p) /\ call[p].at = "ok" /\ call[p].rec.owner = GateOf[p]
    BY <1>0, <2>0, <2>1, ProceedFits
  <2>2. CASE Refused(p)
    BY <1>1, <1>3, <2>2, OutsideFits DEF Refused
  <2>3. CASE BeginCreate(p, Unclaimed(GateOf[p])) /\ Goto(p, "create") /\ UNCHANGED fenceVars
    <3>1. /\ call'[p].op = "create" /\ call'[p].at = "check"
          /\ call'[p].rec = Unclaimed(GateOf[p])
      BY <1>0, <2>3, BeginIs DEF BeginCreate
    <3>2. job'[p].pc = "create" /\ turn'[p] = "holding"
      BY <1>1, <2>0, <2>3 DEF fenceVars
    <3> QED
      BY <3>1, <3>2 DEF PassFits, Current, OpAt, Windowing, At, Unclaimed
  <2>4. CASE BeginLoad(p) /\ Goto(p, "reclaim") /\ UNCHANGED fenceVars
    <3>1. call'[p].op = "load" /\ call'[p].at = "list"
      BY <1>0, <2>4, BeginIs DEF BeginLoad
    <3>2. job'[p].pc = "reclaim" /\ turn'[p] = "holding"
      BY <1>1, <2>0, <2>4 DEF fenceVars
    <3> QED
      BY <3>1, <3>2, AskedFits
  <2>5. CreateAnswer(p) => call[p].rec.owner = GateOf[p]
    BY <1>0 DEF CreateAnswer, At, PassFits, OpAt
  <2> QED
    BY <1>9, <2>1, <2>2, <2>3, <2>4, <2>5 DEF ClaimAnswer, CreateAnswer, ReclaimAnswer, Answered
<1>10. CASE Maintained(p)
  <2>1. PICK succeeded \in BOOLEAN :
          BeginSwap(p, Folded(job[p].rec, job[p].mode, job[p].now, succeeded), job[p].rev)
    BY <1>10 DEF Maintained
  <2> DEFINE rec == Folded(job[p].rec, job[p].mode, job[p].now, succeeded)
  <2>2. /\ job[p].pc = "window" /\ job'[p].pc = "record" /\ turn'[p] = "holding"
        /\ job[p].rec.owner = GateOf[p]
    BY <1>0, <1>1, <1>10 DEF Maintained, At, fenceVars, PassFits, Windowing
  <2>3. job[p].rec \in Records
    BY <1>0, <2>2 DEF JobFits
  <2>4. rec.owner = GateOf[p]
    BY <2>2, <2>3 DEF Folded, Records
  <2> HIDE DEF rec
  <2>5. /\ call'[p].op = "swap" /\ call'[p].at = "check" /\ call'[p].rec = rec
        /\ call'[p].rev = job[p].rev /\ files' = files
    BY <1>0, <2>1, BeginIs DEF BeginSwap, rec
  <2>6. Newest' = Newest /\ Stored' = Stored
    BY <2>5, NewestNow
  <2>7. job[p].rev = Newest => Stored.owner = GateOf[p]
    BY <1>0, <2>2 DEF JobFits
  <2> QED
    BY <2>2, <2>4, <2>5, <2>6, <2>7 DEF PassFits, Current, OpAt, Windowing, At
<1>11. CASE RecordAnswer(p)
  BY <1>1, <1>3, <1>11, OutsideFits DEF RecordAnswer
<1> QED
  BY <1>5, <1>6, <1>7, <1>8, <1>9, <1>10, <1>11 DEF PassStep

LEMMA DueStep ==
  ASSUME MaxErrors = 0 \/ OneInstance,
         RecordInv, LeaseInv, CountInv, QueueInv, DueInv, [Next]_vars
  PROVE  DueInv'
<1> SUFFICES ASSUME NEW p \in Clients PROVE PassFits(p)' /\ Current(p)'
  BY DEF DueInv
<1>1. CASE UNCHANGED vars
  BY <1>1, UndisturbedFits DEF vars, storeVars, fenceVars
<1>2. CASE PassStep(p) \/ StartDelete(p) \/ StartWindow(p) \/ Cancel(p)
  BY <1>2, OwnPass, OwnInStore DEF DueInv
<1>3. ASSUME NEW q \in Clients, q # p, PassStep(q) \/ StartDelete(q) \/ StartWindow(q) \/ Cancel(q)
      PROVE  PassFits(p)' /\ Current(p)'
  BY <1>3, OtherPass
<1> QED
  BY <1>1, <1>2, <1>3, AdminLeaves, WorldLeaves DEF Next

LEMMA DueInit == Init => QueueInv /\ DueInv
<1> SUFFICES ASSUME Init PROVE QueueInv /\ DueInv
  OBVIOUS
<1>1. \A p \in Clients : call[p] = Unasked /\ job[p] = Idle /\ spot[p] = "outside"
  BY MaintenanceAssumption DEF Init, StoreInit, FenceInit
<1> QED
  BY <1>1 DEF QueueInv, DueInv, PassFits, Current, OpAt, Windowing, At, Unasked, Idle

\* What a scheduled window carries out is still due: no other pass ran it meanwhile, unless
\* the repository was handed over, for any number of passes, administrators and crashes.
\* The second look of a create takes a listing that fails for one that found nothing, so
\* that with several instances it holds when no call fails (maintenanceowner.go, Create;
\* run.go, RunDue).
THEOREM DueStaysDue == MaxErrors = 0 \/ OneInstance => (Spec => []StillDue)
<1> SUFFICES ASSUME MaxErrors = 0 \/ OneInstance PROVE Spec => []StillDue
  OBVIOUS
<1> DEFINE Inv == FenceInv /\ LeaseInv /\ RecordInv /\ CountInv /\ QueueInv /\ DueInv
<1>1. Init => Inv
  BY FenceInitial, LeaseInitial, RecordInit, CountInit, DueInit DEF Init
<1>2. Inv /\ [Next]_vars => Inv'
  BY StepIsClients, FenceStep, LeaseKept, RecordStep, CountStep, QueueKept, DueStep
<1>3. Inv => StillDue
  <2> SUFFICES ASSUME Inv, NEW p \in Clients, At(p, "window"), job[p].due, ~(handed > job[p].handed)
               PROVE  Due(Stored, job[p].now) = job[p].mode
    BY DEF StillDue
  <2>1. job[p].handed = handed
    BY DEF CountInv, RecordInv
  <2>2. job[p].rev = Newest
    BY <2>1 DEF DueInv, Current
  <2>3. job[p].rec = Stored
    BY <2>2 DEF RecordInv, JobFits
  <2> QED
    BY <2>3 DEF DueInv, PassFits
<1> HIDE DEF Inv
<1> QED
  BY <1>1, <1>2, <1>3, PTL DEF Spec

=============================================================================
