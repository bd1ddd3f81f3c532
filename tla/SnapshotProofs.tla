---------------------------- MODULE SnapshotProofs ----------------------------
(***************************************************************************)
(* Theorems about SnapshotRun: its types, for any number of cycles, and    *)
(* that one cycle with retention beside it keeps the promise of            *)
(* RestorePoint.                                                           *)
(*                                                                         *)
(* A row, and each copy of one that a cycle remembers, is about the        *)
(* manifest of its key (Sound), and the journal is not behind what is      *)
(* remembered of it (Behind).  So what a cycle writes rests on what the    *)
(* repository showed: a snapshot is marked only after it was verified, and *)
(* given up only when it is gone.                                          *)
(***************************************************************************)
EXTENDS SnapshotRun, FiniteSetTheorems, TLAPS

-----------------------------------------------------------------------------
(* Rows.                                                                   *)

\* The phases that name a manifest, those of a run whose source is on record as
\* covered, those of a verified one, and those no run goes back from.
Named == Phases \ {"PENDING", "SOURCE_SCAN", "SNAPSHOT_WRITE", "FAILED"}
Covered == {"VERIFICATION", "CATALOG_COMMIT", "SUCCESS", "LOST", "DELETED"}
Verified == {"CATALOG_COMMIT", "SUCCESS", "LOST", "DELETED"}
Complete == {"SUCCESS", "LOST", "DELETED"}
Settling == Complete \cup {"CATALOG_COMMIT", "FAILED", "QUARANTINED"}
\* The phases a manifest without a run goes through.
Unattributed == {"none", "PENDING", "FAILED", "QUARANTINED"}

\* What r says of the manifest of key k is so.
Sound(k, r) ==
  /\ r \in Rows /\ r.id \in {NoId, k[2]}
  /\ r.phase \in Named => r.id # NoId
  /\ r.phase \in Verified => r.status = "passed"
  /\ r.status = "passed" => k[2] \in proved
  /\ r.complete = "yes" \/ r.phase \in Covered => k[2] \in whole
  /\ r.phase \notin Unattributed => k[1] = "run" /\ k[2] \in Runs

\* The journal is as far as r, which is remembered of row k.
Behind(k, r) ==
  /\ r.id # NoId => row[k].id # NoId
  /\ r.phase \in Settling => row[k].phase \in Settling

RowsSound == row \in [Keys -> Rows] /\ \A k \in Keys : Sound(k, row[k])

\* At most one row has the mark, and it is of a restore point.
Marks ==
  /\ \A k \in Keys : row[k].lkg => row[k].phase = "SUCCESS"
  /\ \A j, k \in Keys : row[j].lkg /\ row[k].lkg => j = k

-----------------------------------------------------------------------------
(* Cycles.                                                                 *)

Fields == {"pc", "doing", "key", "mem", "present", "owned", "list", "todo"}

\* Where a cycle has a row in hand, and where it has a run of its own to write.
Holding == {"reload", "unverified", "complete", "verify", "sound", "unsound", "commit",
            "quarantine", "repoint", "scan", "open", "write", "record", "failed"}
Writing == {"scan", "open", "write"}

JobTyped(j) ==
  /\ DOMAIN j = Fields
  /\ j.key \in Keys \cup {NoKey} /\ j.mem \in Rows /\ (j.key = NoKey => j.mem = NoRow)
  /\ DOMAIN j.list \subseteq Keys /\ j.todo \subseteq Keys /\ j.present \subseteq Manifests

\* What a cycle remembers is so.
Remembers(j) ==
  /\ j.pc \in Holding => j.key # NoKey
  /\ j.pc \notin Holding \cup {"begin"} => j.key = NoKey
  /\ j.key \in Keys => Sound(j.key, j.mem) /\ Behind(j.key, j.mem)
  /\ \A k \in DOMAIN j.list : Sound(k, j.list[k]) /\ Behind(k, j.list[k])
  /\ j.pc \notin {"attribute", "quarantine"} => j.todo \subseteq DOMAIN j.list
  /\ j.pc = "sound" => j.key[2] \in proved

\* The run a cycle is about to write is not there yet.
Unwritten(j) ==
  j.pc \in Writing => /\ j.key[1] = "run" /\ j.key[2] \in Runs
                      /\ row[j.key].phase # "none"
                      /\ j.key[2] \notin repo \cup proved

Jobs ==
  /\ DOMAIN job = Cycles
  /\ \A c \in Cycles : JobTyped(job[c]) /\ Remembers(job[c]) /\ Unwritten(job[c])

\* A run is written by the cycle that began it.
OneWriter ==
  /\ \A c, d \in Cycles :
       job[c].pc \in Writing /\ job[d].pc \in Writing /\ job[c].key = job[d].key => c = d
  /\ \A r \in Runs : r \in repo \cup proved => row[Run(r)].phase # "none"

-----------------------------------------------------------------------------
(* Retention.                                                              *)

Passes == [pc : {"idle", "apply", "mark", "delete", "record"}, delete : SUBSET Runs,
           keep : SUBSET Runs, run : Runs \cup {0}]

Deleting ==
  /\ pass \in Passes
  /\ pass.pc \in {"mark", "delete", "record"} =>
       pass.run \in Runs /\ row[Run(pass.run)].phase \in Complete
  /\ pass.pc = "record" => pass.run \notin repo

Stores ==
  /\ repo \subseteq Manifests /\ held \subseteq Runs
  /\ whole \subseteq Manifests /\ proved \subseteq Manifests
  /\ removed \subseteq Manifests /\ lost \subseteq Manifests

Inv == RowsSound /\ Marks /\ Jobs /\ OneWriter /\ Deleting /\ Stores

-----------------------------------------------------------------------------
(* One cycle.                                                              *)

\* Where a cycle reconciles for certain.
Reading == {"owned", "worklist", "unfinished", "finished"}

\* What a cycle read of the repository has every run that is still there, and what it
\* takes for gone is gone.
Present(j) ==
  /\ j.pc # "idle" /\ j.doing # "run" => repo \cap Runs \subseteq j.present
  /\ j.pc \in Reading => j.doing # "run"
  /\ j.pc \in Writing => j.doing = "run"
  /\ j.pc = "finished" => \A k \in DOMAIN j.list : j.list[k].id \in Manifests \ j.present

\* As long as nobody else removed a snapshot, what was verified is there until it is
\* retention's to remove, one completed run is advertised and there, and retention is
\* about to remove another.
Kept ==
  lost = {} =>
    /\ \A r \in Runs : r \in proved /\ row[Run(r)].phase \notin Complete => r \in repo
    /\ \A k \in Keys : row[k].phase = "SUCCESS" => BestKeys # {}
    /\ \A k \in BestKeys : k[2] \in repo
    /\ pass.pc \in {"mark", "delete"} => ~row[Run(pass.run)].lkg
    /\ \A c \in Cycles : job[c].pc # "repoint"

OneInv == Inv /\ Kept /\ \A c \in Cycles : Present(job[c])
-----------------------------------------------------------------------------
(* Phases, rows and columns.                                               *)

LEMMA KeysAre ==
  /\ \A k \in Keys : k[1] \in {"run", "found"} /\ k[2] \in Manifests /\ k = <<k[1], k[2]>>
  /\ \A m \in Manifests : Run(m) \in Keys /\ Found(m) \in Keys
                          /\ Run(m)[1] = "run" /\ Run(m)[2] = m
                          /\ Found(m)[1] = "found" /\ Found(m)[2] = m
  /\ \A k \in Keys : k[1] = "run" => k = Run(k[2])
  /\ NoKey \notin Keys
BY DEF Keys, Run, Found, NoKey

LEMMA IdsAre == Runs \subseteq Manifests /\ Manifests \subseteq Nat /\ NoId \notin Manifests
<1>1. MaxRuns \in Nat /\ Foreign \subseteq Nat /\ NoId \notin Nat
  BY CatalogAssumption
<1>2. Runs \subseteq Nat
  BY <1>1 DEF Runs
<1>3. QED
  BY <1>1, <1>2, Zenon DEF Manifests

\* A set of numbers has a least one, and a set of runs a newest and an oldest.
LEMMA Least ==
  ASSUME NEW S, S \subseteq Nat, S # {}
  PROVE  \E n \in S : \A m \in S : n <= m
<1> DEFINE R == OpToRel(<, Nat)
<1>1. IsWellFoundedOn(R, Nat)
  BY NatLessThanWellFounded
<1>2. \A n, m \in Nat : m < n => <<m, n>> \in R
  BY DEF OpToRel
<1> HIDE DEF R
<1>3. PICK n \in S : \A m \in S : <<m, n>> \notin R
  BY <1>1, WFMin
<1>4. ASSUME NEW m \in S PROVE n <= m
  <2>1. m \in Nat /\ n \in Nat
    OBVIOUS
  <2>2. ~(m < n)
    BY <1>2, <1>3, <2>1
  <2>3. QED
    BY <2>1, <2>2
<1>5. QED
  BY <1>4

LEMMA NewestIs ==
  ASSUME NEW S, S \subseteq Runs, S # {}
  PROVE  Newest(S) \in S
<1>1. MaxRuns \in Nat
  BY CatalogAssumption
<1>2. PICK n \in {MaxRuns - r : r \in S} : \A m \in {MaxRuns - r : r \in S} : n <= m
  <2>1. {MaxRuns - r : r \in S} \subseteq Nat /\ {MaxRuns - r : r \in S} # {}
    BY <1>1 DEF Runs
  <2>2. QED
    BY <2>1, Least
<1>3. PICK r \in S : n = MaxRuns - r
  BY <1>2
<1>4. \A other \in S : other <= r
  <2>1. ASSUME NEW other \in S PROVE other <= r
    <3>1. n <= MaxRuns - other
      BY <1>2
    <3>2. QED
      BY <1>1, <1>3, <3>1 DEF Runs
  <2>2. QED
    BY <2>1
<1>5. QED
  BY <1>4 DEF Newest

LEMMA OldestIs ==
  ASSUME NEW S, S \subseteq Runs, S # {}
  PROVE  (CHOOSE s \in S : \A other \in S : s <= other) \in S
<1>1. S \subseteq Nat
  BY CatalogAssumption DEF Runs
<1>2. QED
  BY <1>1, Least

LEMMA Ranks ==
  /\ Rank("PENDING") = 1 /\ Rank("SOURCE_SCAN") = 2 /\ Rank("SNAPSHOT_WRITE") = 3
  /\ Rank("MANIFEST_COMMITTED") = 4 /\ Rank("VERIFICATION") = 5 /\ Rank("CATALOG_COMMIT") = 6
  /\ Rank("SUCCESS") = 7
<1>1. \A i \in 1..7 : i \in {1, 2, 3, 4, 5, 6, 7}
  OBVIOUS
<1>2. /\ Path[1] = "PENDING" /\ Path[2] = "SOURCE_SCAN" /\ Path[3] = "SNAPSHOT_WRITE"
      /\ Path[4] = "MANIFEST_COMMITTED" /\ Path[5] = "VERIFICATION"
      /\ Path[6] = "CATALOG_COMMIT" /\ Path[7] = "SUCCESS"
  BY DEF Path
<1>3. ASSUME NEW n \in 1..7 PROVE Rank(Path[n]) = n
  <2>1. \A i \in 1..7 : Path[i] = Path[n] => i = n
    BY <1>1, <1>2
  <2>2. QED
    BY <2>1 DEF Rank
<1>4. QED
  BY <1>2, <1>3

LEMMA PathIs ==
  OnPath = {"PENDING", "SOURCE_SCAN", "SNAPSHOT_WRITE", "MANIFEST_COMMITTED", "VERIFICATION",
            "CATALOG_COMMIT", "SUCCESS"}
<1>1. \A i \in 1..7 : i \in {1, 2, 3, 4, 5, 6, 7}
  OBVIOUS
<1>2. QED
  BY <1>1 DEF OnPath, Path

\* What the journal lets a row do.
LEMMA JournalAllows ==
  ASSUME NEW from, NEW to, AdvanceAllowed(from, to)
  PROVE  /\ from \in Settling => to \in Settling
         /\ from \in Complete => to \in Complete
         /\ from = "none" => to = "none"
         /\ to = "SUCCESS" => from \in Unfinished \cup {"SUCCESS"}
         /\ to \in {"LOST", "DELETED"} => from \in Complete
         /\ from = "SUCCESS" => to \in Complete
<1> USE PathIs DEF Unfinished
<1>1. CASE from = to
  BY <1>1 DEF Settling, Complete
<1>2. CASE from = "VERIFICATION" /\ to = "MANIFEST_COMMITTED"
  BY <1>2 DEF Settling, Complete
<1>3. CASE from \in OnPath /\ to \in OnPath /\ Rank(to) > Rank(from)
  BY <1>3, Ranks DEF Settling, Complete
<1>4. CASE from \in Unfinished /\ to \in {"FAILED", "QUARANTINED"}
  BY <1>4 DEF Settling, Complete
<1>5. CASE from = "SUCCESS" /\ to = "LOST"
  BY <1>5 DEF Settling, Complete
<1>6. CASE from \in {"SUCCESS", "LOST"} /\ to = "DELETED"
  BY <1>6 DEF Settling, Complete
<1>7. QED
  BY <1>1, <1>2, <1>3, <1>4, <1>5, <1>6, Zenon DEF AdvanceAllowed

\* What a writer may mean to do, by what it remembers.
LEMMA WriterMeans ==
  ASSUME NEW from, NEW to, Validate(from, to)
  PROVE  /\ to \in Named => \/ from \in Named
                            \/ from = "SNAPSHOT_WRITE" /\ to = "MANIFEST_COMMITTED"
                            \/ from = "PENDING" /\ to = "QUARANTINED"
         /\ to \in Covered \ {"VERIFICATION"} => from \in Covered
         /\ to = "SUCCESS" => from \in {"CATALOG_COMMIT", "SUCCESS"}
         /\ to \in Complete => from \in Verified
         /\ to \notin Unattributed => from \notin Unattributed \/ to = "SOURCE_SCAN"
<1>1. CASE from = to
  BY <1>1 DEF Complete, Verified
<1>2. CASE \E i \in 1..6 : from = Path[i] /\ to = Path[i + 1]
  <2>1. \A i \in 1..6 : i \in {1, 2, 3, 4, 5, 6}
    OBVIOUS
  <2>2. <<from, to>> \in {<<"PENDING", "SOURCE_SCAN">>, <<"SOURCE_SCAN", "SNAPSHOT_WRITE">>,
                         <<"SNAPSHOT_WRITE", "MANIFEST_COMMITTED">>,
                         <<"MANIFEST_COMMITTED", "VERIFICATION">>,
                         <<"VERIFICATION", "CATALOG_COMMIT">>, <<"CATALOG_COMMIT", "SUCCESS">>}
    BY <1>2, <2>1 DEF Path
  <2>3. QED
    BY <2>2, PathIs DEF Named, Phases, Covered, Unattributed, Complete, Verified
<1>3. CASE from \in Unfinished /\ to = "FAILED"
  BY <1>3 DEF Named, Covered, Unattributed, Complete, Verified
<1>4. CASE <<from, to>> \in {<<"VERIFICATION", "MANIFEST_COMMITTED">>, <<"SUCCESS", "LOST">>,
                             <<"SUCCESS", "DELETED">>, <<"LOST", "DELETED">>,
                             <<"PENDING", "QUARANTINED">>}
  BY <1>4, PathIs DEF Named, Phases, Covered, Unattributed, Complete, Verified
<1>5. QED
  BY <1>1, <1>2, <1>3, <1>4 DEF Validate, Edges

\* An update of a row names some of its columns.
LEMMA OverRow ==
  ASSUME NEW r \in Rows, NEW to \in Phases, NEW upd,
         DOMAIN upd \subseteq {"id", "complete", "status"},
         "id" \in DOMAIN upd => upd.id \in Manifests,
         "complete" \in DOMAIN upd => upd.complete \in {"yes", "no", "unknown"},
         "status" \in DOMAIN upd => upd.status \in {"none", "pending", "passed", "failed"},
         NEW new, new = Over(Over(r, [phase |-> to]), upd)
  PROVE  /\ new \in Rows /\ new.phase = to /\ new.lkg = r.lkg /\ new.intent = r.intent
         /\ new.id = IF "id" \in DOMAIN upd THEN upd.id ELSE r.id
         /\ new.complete = IF "complete" \in DOMAIN upd THEN upd.complete ELSE r.complete
         /\ new.status = IF "status" \in DOMAIN upd THEN upd.status ELSE r.status
<1> DEFINE Columns == {"phase", "id", "complete", "status", "lkg", "intent"}
           moved == Over(r, [phase |-> to])
<1>1. DOMAIN r = Columns
  BY DEF Rows
<1>2. moved = [r EXCEPT !.phase = to]
  BY <1>1 DEF Over, Rows
<1>3. moved \in Rows /\ moved.phase = to /\ moved.id = r.id /\ moved.complete = r.complete
      /\ moved.status = r.status /\ moved.lkg = r.lkg /\ moved.intent = r.intent
  BY <1>2 DEF Rows
<1>4. DOMAIN moved = Columns
  BY <1>3 DEF Rows
<1>5. new = Over(moved, upd)
  OBVIOUS
<1> HIDE DEF moved
<1>6. new = [f \in Columns |-> IF f \in DOMAIN upd THEN upd[f] ELSE moved[f]]
  BY <1>4, <1>5 DEF Over
<1>7. /\ new["phase"] = to /\ new["lkg"] = r.lkg /\ new["intent"] = r.intent
      /\ new["id"] = IF "id" \in DOMAIN upd THEN upd.id ELSE r.id
      /\ new["complete"] = IF "complete" \in DOMAIN upd THEN upd.complete ELSE r.complete
      /\ new["status"] = IF "status" \in DOMAIN upd THEN upd.status ELSE r.status
  BY <1>3, <1>6
<1>8. new = [phase |-> new.phase, id |-> new.id, complete |-> new.complete,
             status |-> new.status, lkg |-> new.lkg, intent |-> new.intent]
  BY <1>6
<1>9. QED
  BY <1>7, <1>8 DEF Rows

\* A cycle changes only what the step names.
LEMMA WithFields ==
  ASSUME DOMAIN job = Cycles, NEW c \in Cycles, DOMAIN job[c] = Fields, NEW new, With(c, new)
  PROVE  /\ DOMAIN job' = Cycles /\ \A d \in Cycles \ {c} : job'[d] = job[d]
         /\ DOMAIN job'[c] = Fields
         /\ \A f \in Fields : job'[c][f] = IF f \in DOMAIN new THEN new[f] ELSE job[c][f]
BY DEF With, Over

LEMMA IdleFields == DOMAIN IdleJob = Fields
BY DEF IdleJob, Fields

-----------------------------------------------------------------------------
(* The rows.                                                               *)

\* What a writer has to see to.
Fits(k, mem, to, upd) ==
  /\ to \in Phases /\ DOMAIN upd \subseteq {"id", "complete", "status"}
  /\ "id" \in DOMAIN upd => upd.id = k[2]
  /\ "complete" \in DOMAIN upd => upd.complete = mem.complete
  /\ "status" \in DOMAIN upd => /\ upd.status \in {"pending", "passed", "failed"}
                                /\ upd.status = "passed" => k[2] \in proved
                                /\ to \notin Complete
  /\ to = "SOURCE_SCAN" => k[1] = "run" /\ k[2] \in Runs
  /\ to = "MANIFEST_COMMITTED" /\ mem.phase # "VERIFICATION" => "id" \in DOMAIN upd
  /\ to = "QUARANTINED" => "id" \in DOMAIN upd
  /\ to = "VERIFICATION" => mem.complete = "yes"
  /\ to = "CATALOG_COMMIT" => "status" \in DOMAIN upd /\ upd.status = "passed"

\* No row goes back behind what somebody may remember of it.
RowsGoOn ==
  \A k \in Keys : /\ row[k].id # NoId => row'[k].id # NoId
                  /\ row[k].phase \in Settling => row'[k].phase \in Settling
                  /\ row[k].phase \in Complete => row'[k].phase \in Complete
                  /\ row[k].phase # "none" => row'[k].phase # "none"

\* The mark goes to a run that succeeds, and from one that is given up.
Remarks(k, to) ==
  /\ row'[k].phase = to /\ \A j \in Keys \ {k} : row'[j].phase = row[j].phase
  /\ BestKeys' = IF row[k].phase # to /\ to = "SUCCESS" THEN {k}
                 ELSE IF row[k].phase # to /\ to \in {"LOST", "DELETED"} THEN BestKeys \ {k}
                 ELSE BestKeys

\* What an update makes of a row, or of what is remembered of it.
LEMMA Amended ==
  ASSUME NEW k \in Keys, NEW mem, Sound(k, mem), NEW to, NEW upd, Fits(k, mem, to, upd),
         Validate(mem.phase, to), proved' = proved, whole' = whole,
         NEW r, Sound(k, r), mem.id # NoId => r.id # NoId,
         to \in Complete => r.status = "passed",
         NEW new, new = Over(Over(r, [phase |-> to]), upd)
  PROVE  /\ Sound(k, new)' /\ new.phase = to /\ new.lkg = r.lkg
         /\ new.id = IF "id" \in DOMAIN upd THEN k[2] ELSE r.id
<1>1. r \in Rows /\ mem \in Rows /\ to \in Phases /\ k[2] \in Manifests /\ k[2] # NoId
  BY KeysAre, IdsAre DEF Sound, Fits
<1>2. /\ new \in Rows /\ new.phase = to /\ new.lkg = r.lkg
      /\ new.id = IF "id" \in DOMAIN upd THEN upd.id ELSE r.id
      /\ new.complete = IF "complete" \in DOMAIN upd THEN upd.complete ELSE r.complete
      /\ new.status = IF "status" \in DOMAIN upd THEN upd.status ELSE r.status
  <2>1. DOMAIN upd \subseteq {"id", "complete", "status"}
    BY DEF Fits
  <2>2. "id" \in DOMAIN upd => upd.id \in Manifests
    BY <1>1 DEF Fits
  <2>3. "complete" \in DOMAIN upd => upd.complete \in {"yes", "no", "unknown"}
    BY <1>1 DEF Fits, Rows
  <2>4. "status" \in DOMAIN upd => upd.status \in {"none", "pending", "passed", "failed"}
    BY DEF Fits
  <2>5. QED
    BY <1>1, <2>1, <2>2, <2>3, <2>4, OverRow
<1>3. new.id \in {NoId, k[2]} /\ (r.id # NoId => new.id # NoId)
  BY <1>1, <1>2 DEF Sound, Fits
<1>4. to \in Named => new.id # NoId
  BY <1>1, <1>2, WriterMeans DEF Sound, Fits
<1>5. to \in Verified => new.status = "passed"
  BY <1>2 DEF Fits, Verified, Complete
<1>6. new.status = "passed" => k[2] \in proved
  BY <1>2 DEF Sound, Fits
<1>7. new.complete = "yes" => k[2] \in whole
  BY <1>2 DEF Sound, Fits
<1>8. to \in Covered => k[2] \in whole
  BY WriterMeans DEF Sound, Fits
<1>9. to \notin Unattributed => k[1] = "run" /\ k[2] \in Runs
  BY WriterMeans DEF Sound, Fits
<1>10. new.id = IF "id" \in DOMAIN upd THEN k[2] ELSE r.id
  BY <1>2 DEF Fits
<1>11. QED
  BY <1>2, <1>3, <1>4, <1>5, <1>6, <1>7, <1>8, <1>9, <1>10 DEF Sound

\* A write of the journal: the rows stay sound, and go on.
LEMMA WriteKeeps ==
  ASSUME RowsSound, Marks, NEW k \in Keys, NEW mem, Sound(k, mem), Behind(k, mem),
         NEW to, NEW upd, Fits(k, mem, to, upd), Validate(mem.phase, to),
         AdvanceAllowed(row[k].phase, to), Advanced(k, to, upd),
         proved' = proved, whole' = whole,
         NEW m, m = Over(Over(mem, [phase |-> to]), upd)
  PROVE  /\ RowsSound' /\ Marks' /\ RowsGoOn /\ Sound(k, m)' /\ Behind(k, m)'
         /\ m.phase = to /\ Remarks(k, to)
<1> DEFINE moves == row[k].phase # to
           mark == IF moves /\ to = "SUCCESS" THEN TRUE
                   ELSE IF moves /\ to \in {"LOST", "DELETED"} THEN FALSE ELSE row[k].lkg
<1>0. PICK new : new = Over(Over(row[k], [phase |-> to]), upd)
  OBVIOUS
<1>1. Sound(k, row[k]) /\ row[k].phase # "none"
  <2>1. to \in Phases
    BY DEF Fits
  <2>2. "none" \notin Phases
    BY PathIs DEF Phases
  <2>3. QED
    BY <2>1, <2>2, JournalAllows DEF RowsSound
<1>2. to \in Complete => row[k].status = "passed"
  <2>1. CASE to = "SUCCESS"
    <3>1. row[k].phase \in Settling
      BY <2>1, WriterMeans DEF Behind, Settling, Complete
    <3>2. row[k].phase \in Verified
      BY <2>1, <3>1, JournalAllows, PathIs DEF Unfinished, Settling, Complete, Verified
    <3>3. QED
      BY <1>1, <3>2 DEF Sound
  <2>2. CASE to \in {"LOST", "DELETED"}
    BY <1>1, <2>2, JournalAllows DEF Sound, Complete, Verified
  <2>3. QED
    BY <2>1, <2>2 DEF Complete
<1>3. to \in Complete => mem.status = "passed"
  BY WriterMeans DEF Sound
<1>4. /\ Sound(k, new)' /\ new.phase = to /\ new.lkg = row[k].lkg
      /\ new.id = IF "id" \in DOMAIN upd THEN k[2] ELSE row[k].id
  <2>1. mem.id # NoId => row[k].id # NoId
    BY DEF Behind
  <2>2. PICK r : r = row[k]
    OBVIOUS
  <2>3. Sound(k, r) /\ (mem.id # NoId => r.id # NoId) /\ (to \in Complete => r.status = "passed")
        /\ new = Over(Over(r, [phase |-> to]), upd)
    BY <1>0, <1>1, <1>2, <2>1, <2>2
  <2>4. /\ Sound(k, new)' /\ new.phase = to /\ new.lkg = r.lkg
        /\ new.id = IF "id" \in DOMAIN upd THEN k[2] ELSE r.id
    BY <2>3, Amended
  <2>5. QED
    BY <2>2, <2>4
<1>5. Sound(k, m)' /\ m.phase = to /\ m.id = IF "id" \in DOMAIN upd THEN k[2] ELSE mem.id
  BY <1>3, Amended
<1>6. row' = [j \in Keys |-> IF j = k THEN [new EXCEPT !.lkg = mark]
                             ELSE IF moves /\ to = "SUCCESS" THEN [row[j] EXCEPT !.lkg = FALSE]
                             ELSE row[j]]
  BY <1>0, <1>4 DEF Advanced
<1>7. mark \in BOOLEAN /\ new \in Rows
  BY <1>1, <1>4 DEF Sound, Rows
<1>8. row'[k] = [new EXCEPT !.lkg = mark]
  BY <1>6
<1>9. Sound(k, row[k])' /\ row'[k].phase = to /\ row'[k].id = new.id /\ row'[k].lkg = mark
  <2>1. /\ row'[k] \in Rows /\ row'[k].phase = new.phase /\ row'[k].id = new.id
        /\ row'[k].status = new.status /\ row'[k].complete = new.complete
        /\ row'[k].lkg = mark
    BY <1>7, <1>8 DEF Rows
  <2>2. QED
    BY <1>4, <2>1 DEF Sound
<1>10. ASSUME NEW j \in Keys \ {k}
       PROVE  /\ Sound(j, row[j])' /\ row'[j].phase = row[j].phase /\ row'[j].id = row[j].id
              /\ row'[j].lkg = IF moves /\ to = "SUCCESS" THEN FALSE ELSE row[j].lkg
  <2>1. Sound(j, row[j])
    BY DEF RowsSound
  <2>2. CASE moves /\ to = "SUCCESS"
    <3>1. row'[j] = [row[j] EXCEPT !.lkg = FALSE]
      BY <1>6, <2>2
    <3>2. QED
      BY <2>1, <2>2, <3>1 DEF Sound, Rows
  <2>3. CASE ~(moves /\ to = "SUCCESS")
    <3>1. row'[j] = row[j]
      BY <1>6, <2>3
    <3>2. QED
      BY <2>1, <2>3, <3>1 DEF Sound
  <2>4. QED
    BY <2>2, <2>3
<1>11. RowsSound'
  <2>1. DOMAIN row' = Keys
    BY <1>6
  <2>2. \A j \in Keys : Sound(j, row[j])'
    BY <1>9, <1>10
  <2>3. row' \in [Keys -> Rows]
    BY <1>6, <2>2 DEF Sound
  <2>4. QED
    BY <2>2, <2>3 DEF RowsSound
<1> HIDE DEF moves, mark
<1>12. row[k].lkg => row[k].phase = "SUCCESS"
  BY DEF Marks
<1>13. mark => to = "SUCCESS"
  BY <1>12, JournalAllows DEF moves, mark, Complete
<1>14. ASSUME NEW j \in Keys, row'[j].lkg PROVE row'[j].phase = "SUCCESS"
  BY <1>9, <1>10, <1>13, <1>14 DEF Marks
<1>15. ASSUME NEW i \in Keys, NEW j \in Keys, row'[i].lkg, row'[j].lkg PROVE i = j
  <2>1. CASE moves /\ to = "SUCCESS"
    <3>1. \A h \in Keys \ {k} : row'[h].lkg = FALSE
      BY <1>10, <2>1
    <3>2. i = k /\ j = k
      BY <1>15, <3>1, Zenon
    <3>3. QED
      BY <3>2
  <2>2. CASE ~(moves /\ to = "SUCCESS")
    <3>1. row'[k].lkg => row[k].lkg
      BY <1>9, <2>2 DEF mark
    <3>2. row[i].lkg /\ row[j].lkg
      BY <1>10, <1>15, <2>2, <3>1
    <3>3. QED
      BY <3>2 DEF Marks
  <2>3. QED
    BY <2>1, <2>2
<1>16. Marks'
  BY <1>14, <1>15 DEF Marks
<1>17. RowsGoOn
  <2>0. row[k].id # NoId => row'[k].id # NoId
    BY <1>4, <1>9, KeysAre, IdsAre
  <2>1. row'[k].phase # "none"
    BY <1>9, PathIs DEF Fits, Phases
  <2>2. ASSUME NEW j \in Keys
        PROVE  /\ row[j].id # NoId => row'[j].id # NoId
               /\ row[j].phase \in Settling => row'[j].phase \in Settling
               /\ row[j].phase \in Complete => row'[j].phase \in Complete
               /\ row[j].phase # "none" => row'[j].phase # "none"
    <3>1. CASE j = k
      BY <1>9, <2>0, <2>1, <3>1, JournalAllows
    <3>2. CASE j # k
      BY <1>10, <3>2
    <3>3. QED
      BY <3>1, <3>2
  <2>3. QED
    BY <2>2 DEF RowsGoOn
<1>18. m.id # NoId => row'[k].id # NoId
  <2>1. k[2] # NoId
    BY KeysAre, IdsAre
  <2>2. QED
    BY <1>4, <1>5, <1>9, <2>1 DEF Behind
<1>19. Remarks(k, to)
  <2>1. BestKeys' = {j \in Keys : row'[j].lkg}
    BY DEF BestKeys
  <2>2. CASE moves /\ to = "SUCCESS"
    <3>1. row'[k].lkg = TRUE /\ \A j \in Keys \ {k} : row'[j].lkg = FALSE
      BY <1>9, <1>10, <2>2 DEF mark
    <3>2. BestKeys' = {k}
      BY <2>1, <3>1
    <3>3. QED
      BY <1>9, <1>10, <2>2, <3>2 DEF Remarks, moves
  <2>3. CASE moves /\ to \in {"LOST", "DELETED"}
    <3>1. row'[k].lkg = FALSE /\ \A j \in Keys \ {k} : row'[j].lkg = row[j].lkg
      BY <1>9, <1>10, <2>3 DEF mark
    <3>2. BestKeys' = BestKeys \ {k}
      BY <2>1, <3>1 DEF BestKeys
    <3>3. QED
      BY <1>9, <1>10, <2>3, <3>2 DEF Remarks, moves
  <2>4. CASE ~(moves /\ to \in {"SUCCESS", "LOST", "DELETED"})
    <3>1. \A j \in Keys : row'[j].lkg = row[j].lkg
      BY <1>9, <1>10, <2>4 DEF mark
    <3>2. BestKeys' = BestKeys
      BY <2>1, <3>1 DEF BestKeys
    <3>3. QED
      BY <1>9, <1>10, <2>4, <3>2 DEF Remarks, moves
  <2>5. QED
    BY <2>2, <2>3, <2>4
<1>20. QED
  BY <1>5, <1>9, <1>11, <1>16, <1>17, <1>18, <1>19 DEF Behind

-----------------------------------------------------------------------------
(* The steps of a cycle.                                                   *)

\* What was so of a remembered row stays so.
LEMMA RememberedStays ==
  ASSUME RowsGoOn, proved \subseteq proved', whole \subseteq whole',
         NEW k \in Keys, NEW r, Sound(k, r), Behind(k, r)
  PROVE  Sound(k, r)' /\ Behind(k, r)'
<1>1. Sound(k, r)'
  BY DEF Sound
<1>2. Behind(k, r)'
  BY DEF Behind, RowsGoOn
<1>3. QED
  BY <1>1, <1>2

LEMMA RemembersStays ==
  ASSUME RowsGoOn, proved \subseteq proved', whole \subseteq whole',
         NEW j, JobTyped(j), Remembers(j)
  PROVE  Remembers(j)'
<1>1. j.key \in Keys => Sound(j.key, j.mem)' /\ Behind(j.key, j.mem)'
  BY RememberedStays DEF Remembers
<1>2. \A k \in DOMAIN j.list : Sound(k, j.list[k])' /\ Behind(k, j.list[k])'
  <2>1. DOMAIN j.list \subseteq Keys
    BY DEF JobTyped
  <2>2. QED
    BY <2>1, RememberedStays DEF Remembers
<1>3. QED
  BY <1>1, <1>2 DEF Remembers

\* A step of a cycle that touches nothing but its own place and the rows.
LEMMA CycleKeeps ==
  ASSUME Inv, NEW c \in Cycles, UNCHANGED <<held, repo, pass, history>>,
         RowsSound', Marks', RowsGoOn,
         DOMAIN job' = Cycles, \A d \in Cycles \ {c} : job'[d] = job[d],
         JobTyped(job[c])', Remembers(job[c])',
         job'[c].pc \in Writing =>
           \/ job[c].pc \in Writing /\ job'[c].key = job[c].key
           \/ \E r \in Runs : /\ job'[c].key = Run(r) /\ row[Run(r)].phase = "none"
                              /\ row'[Run(r)].phase # "none"
  PROVE  Inv'
<1>1. /\ repo' = repo /\ pass' = pass /\ held' = held
      /\ whole' = whole /\ proved' = proved /\ removed' = removed /\ lost' = lost
  BY DEF history
<1>2. \A r \in Runs : Run(r) \in Keys /\ Run(r)[1] = "run" /\ Run(r)[2] = r
  BY KeysAre, IdsAre
<1>3. ASSUME NEW d \in Cycles PROVE Unwritten(job[d])'
  <2>1. Unwritten(job[d]) /\ (job[d].pc \in Writing => job[d].key \in Keys)
    BY DEF Inv, Jobs, JobTyped, Remembers, Holding, Writing
  <2>2. CASE job'[d].pc = job[d].pc /\ job'[d].key = job[d].key
    BY <1>1, <2>1, <2>2 DEF Unwritten, RowsGoOn
  <2>3. CASE job[d].pc \in Writing /\ job'[d].key = job[d].key
    BY <1>1, <2>1, <2>3 DEF Unwritten, RowsGoOn
  <2>4. CASE \E r \in Runs : /\ job'[d].key = Run(r) /\ row[Run(r)].phase = "none"
                             /\ row'[Run(r)].phase # "none"
    BY <1>1, <1>2, <2>4 DEF Unwritten, Inv, OneWriter
  <2>5. CASE job'[d].pc \notin Writing
    BY <2>5 DEF Unwritten
  <2>6. QED
    BY <2>2, <2>3, <2>4, <2>5
<1>4. Jobs'
  <2>1. ASSUME NEW d \in Cycles \ {c} PROVE JobTyped(job[d])' /\ Remembers(job[d])'
    <3>1. PICK j : j = job[d]
      OBVIOUS
    <3>2. JobTyped(j) /\ Remembers(j) /\ job'[d] = j
      BY <3>1 DEF Inv, Jobs
    <3>3. Remembers(j)' /\ JobTyped(j)'
      BY <1>1, <3>2, RemembersStays DEF JobTyped
    <3>4. QED
      BY <3>2, <3>3
  <2>2. QED
    BY <1>3, <2>1 DEF Jobs
<1>5. OneWriter'
  <2>1. ASSUME NEW d \in Cycles, job'[d].pc \in Writing, job'[c].pc \in Writing,
               job'[c].key = job'[d].key
        PROVE  c = d
    <3>1. SUFFICES ASSUME d # c PROVE FALSE
      OBVIOUS
    <3>2. job[d].pc \in Writing /\ job[d].key = job'[c].key
      BY <2>1, <3>1
    <3>3. CASE job[c].pc \in Writing /\ job'[c].key = job[c].key
      BY <3>1, <3>2, <3>3 DEF Inv, OneWriter
    <3>4. CASE \E r \in Runs : job'[c].key = Run(r) /\ row[Run(r)].phase = "none"
      BY <3>2, <3>4 DEF Inv, Jobs, Unwritten
    <3>5. QED
      BY <2>1, <3>3, <3>4
  <2>2. \A d, e \in Cycles : job'[d].pc \in Writing /\ job'[e].pc \in Writing
                             /\ job'[d].key = job'[e].key => d = e
    BY <2>1 DEF Inv, OneWriter
  <2>3. \A r \in Runs : r \in repo \cup proved => row'[Run(r)].phase # "none"
    BY <1>2 DEF Inv, OneWriter, RowsGoOn
  <2>4. QED
    BY <1>1, <2>2, <2>3 DEF OneWriter
<1>6. Deleting'
  BY <1>1, <1>2 DEF Inv, Deleting, RowsGoOn
<1>7. Stores'
  BY <1>1 DEF Inv, Stores
<1>8. QED
  BY <1>4, <1>5, <1>6, <1>7 DEF Inv

LEMMA SameRows == ASSUME UNCHANGED row, RowsSound, Marks, UNCHANGED history
                  PROVE  RowsSound' /\ Marks' /\ RowsGoOn
BY DEF RowsSound, Sound, Marks, RowsGoOn, history

LEMMA StopKeeps ==
  ASSUME Inv, NEW c \in Cycles, Stop(c), UNCHANGED <<row, held, repo, pass, history>>
  PROVE  Inv'
<1>1. RowsSound' /\ Marks' /\ RowsGoOn
  BY SameRows DEF Inv
<1>2. DOMAIN job' = Cycles /\ job'[c] = IdleJob /\ \A d \in Cycles \ {c} : job'[d] = job[d]
  BY DEF Stop, Inv, Jobs
<1>3. NoRow \in Rows
  BY DEF NoRow, Rows
<1>4. JobTyped(job[c])' /\ Remembers(job[c])' /\ job'[c].pc \notin Writing
  BY <1>2, <1>3, KeysAre DEF IdleJob, JobTyped, Remembers, Holding, Writing, Fields
<1>5. QED
  BY <1>1, <1>2, <1>4, CycleKeeps

\* What a cycle keeps of its list, and of its row in hand, is still so.
LEMMA ListStays ==
  ASSUME Inv, NEW c \in Cycles, RowsGoOn, proved \subseteq proved', whole \subseteq whole',
         job'[c].list = job[c].list
  PROVE  \A h \in DOMAIN job'[c].list : Sound(h, job[c].list[h])' /\ Behind(h, job[c].list[h])'
<1>1. PICK list : list = job[c].list
  OBVIOUS
<1>2. \A h \in DOMAIN list : h \in Keys /\ Sound(h, list[h]) /\ Behind(h, list[h])
  BY <1>1 DEF Inv, Jobs, JobTyped, Remembers
<1>3. \A h \in DOMAIN list : Sound(h, list[h])' /\ Behind(h, list[h])'
  BY <1>2, RememberedStays
<1>4. QED
  BY <1>1, <1>3

LEMMA MemStays ==
  ASSUME Inv, NEW c \in Cycles, RowsGoOn, proved \subseteq proved', whole \subseteq whole',
         job'[c].key = job[c].key, job'[c].mem = job[c].mem, job[c].key \in Keys
  PROVE  Sound(job[c].key, job[c].mem)' /\ Behind(job[c].key, job[c].mem)'
<1>0. PICK m : m = job[c].mem
  OBVIOUS
<1>1. PICK k \in Keys : k = job[c].key
  OBVIOUS
<1>2. Sound(k, m) /\ Behind(k, m)
  BY <1>0, <1>1 DEF Inv, Jobs, Remembers
<1>3. Sound(k, m)' /\ Behind(k, m)'
  BY <1>2, RememberedStays
<1>4. QED
  BY <1>0, <1>1, <1>3

\* Where a write leaves a cycle.
Carries(c, k, new) ==
  /\ DOMAIN new \subseteq Fields /\ "pc" \in DOMAIN new /\ new.pc # "sound"
  /\ "key" \in DOMAIN new <=> "mem" \in DOMAIN new
  /\ "key" \in DOMAIN new \/ new.pc \in Holding
  /\ "key" \in DOMAIN new => new.key = NoKey /\ new.mem = NoRow /\ new.pc \notin Holding
  /\ "todo" \in DOMAIN new => new.todo \subseteq job[c].todo
  /\ "present" \in DOMAIN new => new.present = {}
  /\ "list" \in DOMAIN new => /\ new.list = IdleJob.list
                              /\ "todo" \in DOMAIN new /\ new.todo = {}
  /\ job[c].pc \in {"attribute", "quarantine"} => new.pc \in {"attribute", "quarantine"}
  /\ new.pc \in Writing => job[c].pc \in Writing /\ job[c].key = k
  /\ new.pc # "idle" => {"doing", "present"} \cap DOMAIN new = {} /\ job[c].pc # "idle"
  /\ new.pc \in Reading => job[c].pc \in Reading \/ job[c].doing # "run"
  /\ new.pc = "finished" => "list" \notin DOMAIN new /\ job[c].pc = "finished"
  /\ new.pc # "repoint"

\* What a cycle read stays, as long as it is at it.
StaysPut(c) ==
  /\ job'[c].pc # "idle" => /\ job[c].pc # "idle" /\ job'[c].doing = job[c].doing
                           /\ job'[c].present = job[c].present
  /\ job'[c].pc \in Reading => job[c].pc \in Reading \/ job[c].doing # "run"
  /\ job'[c].pc \in Writing => job[c].pc \in Writing
  /\ job'[c].pc = "finished" => job[c].pc = "finished" /\ job'[c].list = job[c].list

\* What the one write of a cycle does to the rows.
Wrote(c) ==
  /\ UNCHANGED <<repo, pass, history>> /\ StaysPut(c) /\ job'[c].pc # "repoint"
  /\ \/ UNCHANGED row
     \/ \E k \in Keys, to \in Phases :
          /\ Remarks(k, to) /\ AdvanceAllowed(row[k].phase, to)
          /\ to \in {"LOST", "DELETED"} => job[c].pc = "finished" /\ k \in job[c].todo

LEMMA WriteStep ==
  ASSUME Inv, NEW c \in Cycles, NEW k \in Keys, NEW mem, Sound(k, mem), Behind(k, mem),
         NEW to, NEW upd, Validate(mem.phase, to) => Fits(k, mem, to, upd),
         to \in {"LOST", "DELETED"} => job[c].pc = "finished" /\ k \in job[c].todo,
         NEW new, Carries(c, k, new), Write(c, k, mem, to, upd, new)
  PROVE  Inv' /\ Wrote(c)
<1>0. UNCHANGED <<held, repo, pass, history>>
  BY DEF Write, Elsewhere
<1>1. CASE UNCHANGED row /\ Stop(c)
  <2>1. job'[c].pc = "idle"
    BY <1>1 DEF Stop, IdleJob, Inv, Jobs
  <2>2. Wrote(c)
    BY <1>0, <1>1, <2>1 DEF Wrote, StaysPut, Reading, Writing
  <2>3. QED
    BY <1>0, <1>1, <2>2, StopKeeps
<1>2. CASE /\ Validate(mem.phase, to) /\ AdvanceAllowed(row[k].phase, to)
           /\ Advanced(k, to, upd)
           /\ With(c, Over2([key |-> k, mem |-> Over(Over(mem, [phase |-> to]), upd)], new))
  <2>1. PICK m : m = Over(Over(mem, [phase |-> to]), upd)
    OBVIOUS
  <2>2. /\ RowsSound' /\ Marks' /\ RowsGoOn /\ Sound(k, m)' /\ Behind(k, m)'
        /\ Remarks(k, to)
    BY <1>0, <1>2, <2>1, WriteKeeps DEF Inv, history
  <2>3. PICK upon : upon = Over2([key |-> k, mem |-> m], new)
    OBVIOUS
  <2>4. DOMAIN upon = {"key", "mem"} \cup DOMAIN new
        /\ \A f \in DOMAIN upon : upon[f] = IF f \in DOMAIN new THEN new[f]
                                            ELSE IF f = "key" THEN k ELSE m
    BY <2>3 DEF Over2
  <2>5. DOMAIN job = Cycles /\ JobTyped(job[c]) /\ Remembers(job[c]) /\ Unwritten(job[c])
    BY DEF Inv, Jobs
  <2>6. /\ DOMAIN job' = Cycles /\ \A d \in Cycles \ {c} : job'[d] = job[d]
        /\ DOMAIN job'[c] = Fields
        /\ \A f \in Fields : job'[c][f] = IF f \in DOMAIN upon THEN upon[f] ELSE job[c][f]
    BY <1>2, <2>1, <2>3, <2>5, WithFields DEF JobTyped
  <2>7. \A f \in Fields : job'[c][f] = IF f \in DOMAIN new THEN new[f]
                                       ELSE IF f = "key" THEN k
                                       ELSE IF f = "mem" THEN m ELSE job[c][f]
    BY <2>4, <2>6
  <2>8. job'[c].pc = new.pc
    BY <2>7 DEF Fields, Carries
  <2>9. \/ job'[c].key = NoKey /\ job'[c].mem = NoRow /\ new.pc \notin Holding
        \/ job'[c].key = k /\ job'[c].mem = m /\ new.pc \in Holding
    BY <2>7 DEF Fields, Carries
  <2>10. /\ job'[c].todo \subseteq job[c].todo /\ job'[c].present \subseteq job[c].present
         /\ \/ job'[c].list = job[c].list
            \/ job'[c].list = IdleJob.list /\ job'[c].todo = {}
    BY <2>7 DEF Fields, Carries
  <2>11. DOMAIN IdleJob.list = {}
    BY DEF IdleJob
  <2>12. JobTyped(job[c])'
    <3>1. NoRow \in Rows /\ m \in Rows /\ k # NoKey
      BY <2>2, KeysAre DEF NoRow, Rows, Sound
    <3>2. QED
      BY <2>5, <2>6, <2>9, <2>10, <2>11, <3>1 DEF JobTyped
  <2>13. \A h \in DOMAIN job'[c].list : Sound(h, job[c].list[h])' /\ Behind(h, job[c].list[h])'
    <3>1. CASE job'[c].list = job[c].list
      BY <1>0, <2>2, <3>1, ListStays DEF history
    <3>2. CASE job'[c].list = IdleJob.list
      BY <2>11, <3>2
    <3>3. QED
      BY <2>10, <3>1, <3>2
  <2>14. Remembers(job[c])'
    <3>1. job'[c].key \in Keys => Sound(job[c].key, job[c].mem)' /\ Behind(job[c].key, job[c].mem)'
      BY <2>2, <2>9, KeysAre
    <3>2. job'[c].pc \in Holding <=> job'[c].key # NoKey
      BY <2>8, <2>9, KeysAre
    <3>3. job'[c].pc # "sound"
      BY <2>8 DEF Carries
    <3>4. job'[c].pc \notin {"attribute", "quarantine"} => job'[c].todo \subseteq DOMAIN job'[c].list
      BY <2>5, <2>8, <2>10 DEF Carries, Remembers
    <3>5. QED
      BY <2>13, <3>1, <3>2, <3>3, <3>4 DEF Remembers
  <2>15. job'[c].pc \in Writing => job[c].pc \in Writing /\ job'[c].key = job[c].key
    BY <2>8, <2>9 DEF Carries, Writing, Holding
  <2>16. StaysPut(c) /\ job'[c].pc # "repoint"
    BY <2>7, <2>8 DEF StaysPut, Carries, Fields
  <2>17. Wrote(c)
    BY <1>0, <1>2, <2>2, <2>16 DEF Wrote, Fits
  <2>18. QED
    BY <1>0, <2>2, <2>6, <2>12, <2>14, <2>15, <2>17, CycleKeeps
<1>3. QED
  BY <1>1, <1>2 DEF Write

LEMMA InHand ==
  ASSUME Inv, NEW c \in Cycles, job[c].pc \in Holding
  PROVE  job[c].key \in Keys /\ Sound(job[c].key, job[c].mem) /\ Behind(job[c].key, job[c].mem)
BY DEF Inv, Jobs, JobTyped, Remembers

LEMMA FromList ==
  ASSUME Inv, NEW c \in Cycles, job[c].pc \notin {"attribute", "quarantine"},
         NEW k \in job[c].todo
  PROVE  k \in Keys /\ Sound(k, job[c].list[k]) /\ Behind(k, job[c].list[k])
BY DEF Inv, Jobs, JobTyped, Remembers

LEMMA SettledCarries ==
  ASSUME NEW c, NEW k, job[c].pc \notin {"idle", "attribute", "quarantine"}
  PROVE  Carries(c, k, Settled(c))
<1>1. CASE job[c].doing = "run"
  <2>1. Settled(c) = IdleJob
    BY <1>1 DEF Settled
  <2>2. /\ DOMAIN IdleJob = Fields /\ IdleJob.pc = "idle" /\ IdleJob.key = NoKey
        /\ IdleJob.mem = NoRow /\ IdleJob.todo = {} /\ IdleJob.present = {}
    BY DEF IdleJob, Fields
  <2>3. QED
    BY <2>1, <2>2 DEF Carries, Fields, Holding, Writing, Reading
<1>2. CASE job[c].doing # "run"
  BY <1>2 DEF Settled, Carries, Fields, Holding, Writing, Reading
<1>3. QED
  BY <1>1, <1>2

LEMMA PlainCarries ==
  ASSUME NEW c, NEW k, NEW pc \in Holding, pc \notin {"sound", "attribute", "quarantine"},
         job[c].pc \notin {"idle", "attribute", "quarantine"}, pc # "repoint",
         pc \in Writing => job[c].pc \in Writing /\ job[c].key = k
  PROVE  Carries(c, k, [pc |-> pc])
BY DEF Carries, Fields, Holding, Reading

\* A write that names no column.
LEMMA NothingFits ==
  ASSUME NEW k, NEW mem, NEW to \in Phases, to \notin {"QUARANTINED", "CATALOG_COMMIT"},
         to = "SOURCE_SCAN" => k[1] = "run" /\ k[2] \in Runs,
         to = "MANIFEST_COMMITTED" => mem.phase = "VERIFICATION",
         to = "VERIFICATION" => mem.complete = "yes"
  PROVE  Fits(k, mem, to, Nothing)
<1>1. DOMAIN Nothing = {}
  BY DEF Nothing
<1>2. QED
  BY <1>1 DEF Fits

LEMMA AbandonKeeps == ASSUME Inv, NEW c \in Cycles, Abandon(c) PROVE Inv' /\ Wrote(c)
<1>1. PICK k \in job[c].todo : Write(c, k, job[c].list[k], "FAILED", Nothing, Rest(c, k))
  BY DEF Abandon
<1>2. job[c].pc = "unfinished"
  BY DEF Abandon, At
<1>3. Carries(c, k, Rest(c, k))
  BY <1>2 DEF Carries, Rest, Fields, Holding, Writing, Reading
<1>4. Fits(k, job[c].list[k], "FAILED", Nothing)
  BY NothingFits DEF Phases
<1>5. QED
  BY <1>1, <1>2, <1>3, <1>4, FromList, WriteStep

LEMMA AdoptKeeps == ASSUME Inv, NEW c \in Cycles, Adopt(c) PROVE Inv' /\ Wrote(c)
<1>1. PICK k \in job[c].todo :
        Write(c, k, job[c].list[k], "MANIFEST_COMMITTED", [id |-> k[2]],
              [pc |-> "reload", todo |-> job[c].todo \ {k},
               owned |-> job[c].owned \cup {<<k[2], k>>}])
  BY DEF Adopt
<1>2. job[c].pc = "unfinished"
  BY DEF Adopt, At
<1>3. Carries(c, k, [pc |-> "reload", todo |-> job[c].todo \ {k},
                     owned |-> job[c].owned \cup {<<k[2], k>>}])
  BY <1>2 DEF Carries, Fields, Holding, Writing, Reading
<1>4. Fits(k, job[c].list[k], "MANIFEST_COMMITTED", [id |-> k[2]])
  BY PathIs DEF Fits, Phases
<1>5. QED
  BY <1>1, <1>2, <1>3, <1>4, FromList, WriteStep

LEMMA ResolveFinishedKeeps == ASSUME Inv, NEW c \in Cycles, ResolveFinished(c) PROVE Inv' /\ Wrote(c)
<1>1. PICK k \in job[c].todo :
        Write(c, k, job[c].list[k], IF job[c].list[k].intent THEN "DELETED" ELSE "LOST", Nothing,
              [pc |-> "finished", key |-> NoKey, mem |-> NoRow, todo |-> job[c].todo \ {k}])
  BY DEF ResolveFinished
<1>2. job[c].pc = "finished"
  BY DEF ResolveFinished, At
<1>3. Carries(c, k, [pc |-> "finished", key |-> NoKey, mem |-> NoRow, todo |-> job[c].todo \ {k}])
  BY <1>2 DEF Carries, Fields, Holding, Writing, Reading
<1>4. \A to \in {"DELETED", "LOST"} : Fits(k, job[c].list[k], to, Nothing)
  BY NothingFits DEF Phases
<1>5. QED
  BY <1>1, <1>2, <1>3, <1>4, FromList, WriteStep

LEMMA CompleteCommitKeeps == ASSUME Inv, NEW c \in Cycles, CompleteCommit(c) PROVE Inv' /\ Wrote(c)
<1>1. job[c].pc = "complete"
  BY DEF CompleteCommit, At
<1>2. \A to \in {"FAILED", "SUCCESS"} : Fits(job[c].key, job[c].mem, to, Nothing)
  BY NothingFits, PathIs DEF Phases
<1>3. Carries(c, job[c].key, Settled(c))
  BY <1>1, SettledCarries
<1>4. QED
  BY <1>1, <1>2, <1>3, InHand, WriteStep DEF CompleteCommit, WriteInHand, Holding

LEMMA BeginVerificationKeeps == ASSUME Inv, NEW c \in Cycles, BeginVerification(c) PROVE Inv' /\ Wrote(c)
<1>1. job[c].pc = "unverified"
  BY DEF BeginVerification, At
<1>2. job[c].key \in Keys /\ Sound(job[c].key, job[c].mem) /\ Behind(job[c].key, job[c].mem)
  BY <1>1, InHand DEF Holding
<1>3. CASE WriteInHand(c, "FAILED", Nothing, Settled(c))
  <2>1. Fits(job[c].key, job[c].mem, "FAILED", Nothing)
    BY NothingFits DEF Phases
  <2>2. Carries(c, job[c].key, Settled(c))
    BY <1>1, SettledCarries
  <2>3. QED
    BY <1>2, <1>3, <2>1, <2>2, WriteStep DEF WriteInHand
<1>4. CASE job[c].mem.phase = "VERIFICATION"
           /\ WriteInHand(c, "MANIFEST_COMMITTED", Nothing, [pc |-> "unverified"])
  <2>1. Fits(job[c].key, job[c].mem, "MANIFEST_COMMITTED", Nothing)
    BY <1>4, NothingFits, PathIs DEF Phases
  <2>2. Carries(c, job[c].key, [pc |-> "unverified"])
    BY <1>1, PlainCarries DEF Writing, Holding
  <2>3. QED
    BY <1>2, <1>4, <2>1, <2>2, WriteStep DEF WriteInHand
<1>5. CASE job[c].mem.complete = "yes"
           /\ WriteInHand(c, "VERIFICATION", [status |-> "pending"], [pc |-> "verify"])
  <2>1. Fits(job[c].key, job[c].mem, "VERIFICATION", [status |-> "pending"])
    BY <1>5, PathIs DEF Fits, Phases, Complete
  <2>2. Carries(c, job[c].key, [pc |-> "verify"])
    BY <1>1, PlainCarries DEF Writing, Holding
  <2>3. QED
    BY <1>2, <1>5, <2>1, <2>2, WriteStep DEF WriteInHand
<1>6. QED
  BY <1>3, <1>4, <1>5 DEF BeginVerification, Doubtful

LEMMA RecordVerificationKeeps == ASSUME Inv, NEW c \in Cycles, RecordVerification(c) PROVE Inv' /\ Wrote(c)
<1>1. CASE /\ job[c].pc = "sound"
           /\ WriteInHand(c, "CATALOG_COMMIT", [status |-> "passed"], [pc |-> "commit"])
  <2>1. job[c].key[2] \in proved
    BY <1>1 DEF Inv, Jobs, Remembers
  <2>2. Fits(job[c].key, job[c].mem, "CATALOG_COMMIT", [status |-> "passed"])
    BY <2>1, PathIs DEF Fits, Phases, Complete
  <2>3. Carries(c, job[c].key, [pc |-> "commit"])
    BY <1>1, PlainCarries DEF Writing, Holding
  <2>4. QED
    BY <1>1, <2>2, <2>3, InHand, WriteStep DEF WriteInHand, Holding
<1>2. CASE /\ job[c].pc = "unsound"
           /\ WriteInHand(c, "FAILED", [status |-> "failed"], Settled(c))
  <2>1. Fits(job[c].key, job[c].mem, "FAILED", [status |-> "failed"])
    BY DEF Fits, Phases, Complete
  <2>2. Carries(c, job[c].key, Settled(c))
    BY <1>2, SettledCarries
  <2>3. QED
    BY <1>2, <2>1, <2>2, InHand, WriteStep DEF WriteInHand, Holding
<1>3. QED
  BY <1>1, <1>2 DEF RecordVerification, At

LEMMA CommitKeeps == ASSUME Inv, NEW c \in Cycles, Commit(c) PROVE Inv' /\ Wrote(c)
<1>1. job[c].pc = "commit"
  BY DEF Commit, At
<1>2. Fits(job[c].key, job[c].mem, "SUCCESS", Nothing)
  BY NothingFits, PathIs DEF Phases
<1>3. Carries(c, job[c].key, Settled(c))
  BY <1>1, SettledCarries
<1>4. QED
  BY <1>1, <1>2, <1>3, InHand, WriteStep DEF Commit, WriteInHand, Holding

LEMMA QuarantineKeeps == ASSUME Inv, NEW c \in Cycles, Quarantine(c) PROVE Inv' /\ Wrote(c)
<1>1. job[c].pc = "quarantine"
  BY DEF Quarantine, At
<1>2. Fits(job[c].key, job[c].mem, "QUARANTINED", [id |-> job[c].key[2]])
  BY DEF Fits, Phases
<1>3. Carries(c, job[c].key, [pc |-> "attribute", key |-> NoKey, mem |-> NoRow])
  BY <1>1 DEF Carries, Fields, Holding, Writing, Reading
<1>4. QED
  BY <1>1, <1>2, <1>3, InHand, WriteStep DEF Quarantine, WriteInHand, Holding

LEMMA ScanKeeps == ASSUME Inv, NEW c \in Cycles, Scan(c) PROVE Inv' /\ Wrote(c)
<1>1. job[c].pc = "scan"
  BY DEF Scan, At
<1>2. job[c].key[1] = "run" /\ job[c].key[2] \in Runs
  BY <1>1 DEF Inv, Jobs, Unwritten, Writing
<1>3. Fits(job[c].key, job[c].mem, "SOURCE_SCAN", Nothing)
  BY <1>2, NothingFits, PathIs DEF Phases
<1>4. Carries(c, job[c].key, [pc |-> "open"])
  BY <1>1, PlainCarries DEF Writing, Holding
<1>5. QED
  BY <1>1, <1>3, <1>4, InHand, WriteStep DEF Scan, WriteInHand, Holding

LEMMA OpenTreeKeeps == ASSUME Inv, NEW c \in Cycles, OpenTree(c) PROVE Inv' /\ Wrote(c)
<1>1. job[c].pc = "open"
  BY DEF OpenTree, At
<1>2. Fits(job[c].key, job[c].mem, "SNAPSHOT_WRITE", Nothing)
      /\ Fits(job[c].key, job[c].mem, "FAILED", Nothing)
  BY NothingFits, PathIs DEF Phases
<1>3. Carries(c, job[c].key, [pc |-> "write"])
  BY <1>1, PlainCarries DEF Writing, Holding
<1>4. Carries(c, job[c].key, IdleJob)
  BY <1>1 DEF Carries, IdleJob, Fields, Holding, Writing, Reading
<1>5. QED
  BY <1>1, <1>2, <1>3, <1>4, InHand, WriteStep DEF OpenTree, WriteInHand, Holding

LEMMA RecordManifestKeeps == ASSUME Inv, NEW c \in Cycles, RecordManifest(c) PROVE Inv' /\ Wrote(c)
<1>1. CASE /\ job[c].pc = "record"
           /\ WriteInHand(c, "MANIFEST_COMMITTED",
                          [id |-> job[c].key[2], complete |-> job[c].mem.complete],
                          [pc |-> "unverified"])
  <2>1. Fits(job[c].key, job[c].mem, "MANIFEST_COMMITTED",
             [id |-> job[c].key[2], complete |-> job[c].mem.complete])
    BY PathIs DEF Fits, Phases
  <2>2. Carries(c, job[c].key, [pc |-> "unverified"])
    BY <1>1, PlainCarries DEF Writing, Holding
  <2>3. QED
    BY <1>1, <2>1, <2>2, InHand, WriteStep DEF WriteInHand, Holding
<1>2. CASE job[c].pc = "failed" /\ WriteInHand(c, "FAILED", Nothing, IdleJob)
  <2>1. Fits(job[c].key, job[c].mem, "FAILED", Nothing)
    BY NothingFits DEF Phases
  <2>2. Carries(c, job[c].key, IdleJob)
    BY <1>2 DEF Carries, IdleJob, Fields, Holding, Writing, Reading
  <2>3. QED
    BY <1>2, <2>1, <2>2, InHand, WriteStep DEF WriteInHand, Holding
<1>3. QED
  BY <1>1, <1>2 DEF RecordManifest, At

-----------------------------------------------------------------------------
(* The steps of a cycle that only read, or begin a row.                    *)

\* A cycle that changes its place: what it has then, and that the rest goes on.
LEMMA PlaceKeeps ==
  ASSUME Inv, NEW c \in Cycles, UNCHANGED <<held, repo, pass, history>>,
         RowsSound', Marks', RowsGoOn, NEW new, DOMAIN new \subseteq Fields, With(c, new),
         job'[c].pc \notin Writing \cup {"sound"},
         job'[c].key \in Keys \cup {NoKey}, job'[c].mem \in Rows,
         job'[c].key = NoKey => job'[c].mem = NoRow,
         job'[c].pc \in Holding => job'[c].key # NoKey,
         job'[c].pc \notin Holding \cup {"begin"} => job'[c].key = NoKey,
         job'[c].key \in Keys => Sound(job[c].key, job[c].mem)' /\ Behind(job[c].key, job[c].mem)',
         DOMAIN job'[c].list \subseteq Keys, job'[c].todo \subseteq Keys,
         job'[c].present \subseteq Manifests,
         \A h \in DOMAIN job'[c].list : Sound(h, job[c].list[h])' /\ Behind(h, job[c].list[h])',
         job'[c].pc \notin {"attribute", "quarantine"} => job'[c].todo \subseteq DOMAIN job'[c].list
  PROVE  Inv'
<1>1. /\ DOMAIN job' = Cycles /\ \A d \in Cycles \ {c} : job'[d] = job[d]
      /\ DOMAIN job'[c] = Fields
  BY WithFields DEF Inv, Jobs, JobTyped
<1>2. JobTyped(job[c])'
  BY <1>1 DEF JobTyped
<1>3. Remembers(job[c])'
  BY DEF Remembers
<1>4. QED
  BY <1>1, <1>2, <1>3, CycleKeeps

LEMMA Fields8 ==
  ASSUME Inv, NEW c \in Cycles, NEW new, With(c, new)
  PROVE  /\ job'[c].pc = IF "pc" \in DOMAIN new THEN new.pc ELSE job[c].pc
         /\ job'[c].doing = IF "doing" \in DOMAIN new THEN new.doing ELSE job[c].doing
         /\ job'[c].key = IF "key" \in DOMAIN new THEN new.key ELSE job[c].key
         /\ job'[c].mem = IF "mem" \in DOMAIN new THEN new.mem ELSE job[c].mem
         /\ job'[c].present = IF "present" \in DOMAIN new THEN new.present ELSE job[c].present
         /\ job'[c].list = IF "list" \in DOMAIN new THEN new.list ELSE job[c].list
         /\ job'[c].todo = IF "todo" \in DOMAIN new THEN new.todo ELSE job[c].todo
BY WithFields DEF Inv, Jobs, JobTyped, Fields

LEMMA JobIs ==
  ASSUME Inv, NEW c \in Cycles
  PROVE  /\ job[c].key \in Keys \cup {NoKey} /\ job[c].mem \in Rows
         /\ job[c].key = NoKey => job[c].mem = NoRow
         /\ job[c].pc \in Holding => job[c].key # NoKey
         /\ job[c].pc \notin Holding \cup {"begin"} => job[c].key = NoKey
         /\ DOMAIN job[c].list \subseteq Keys /\ job[c].todo \subseteq Keys
         /\ job[c].present \subseteq Manifests
         /\ job[c].pc \notin {"attribute", "quarantine"} => job[c].todo \subseteq DOMAIN job[c].list
BY DEF Inv, Jobs, JobTyped, Remembers

\* A step that only moves on, and may read the repository or the claims.
LEMMA MoveOnKeeps ==
  ASSUME Inv, NEW c \in Cycles, UNCHANGED <<row, held, repo, pass, history>>,
         NEW new, DOMAIN new \subseteq {"pc", "doing", "present", "owned"}, "pc" \in DOMAIN new,
         "present" \in DOMAIN new => new.present \subseteq Manifests,
         With(c, new), new.pc \notin Writing \cup {"sound"},
         new.pc \in Holding => job[c].pc \in Holding,
         new.pc \in Holding \cup {"begin"} \/ job[c].pc \notin Holding \cup {"begin"},
         job[c].pc \notin {"attribute", "quarantine"} \/ job[c].todo = {}
  PROVE  Inv'
<1>1. RowsSound' /\ Marks' /\ RowsGoOn
  BY SameRows DEF Inv
<1>2. /\ job'[c].pc = new.pc /\ job'[c].key = job[c].key /\ job'[c].mem = job[c].mem
      /\ job'[c].list = job[c].list /\ job'[c].todo = job[c].todo
      /\ job'[c].present \in {job[c].present, new.present}
      /\ "present" \notin DOMAIN new => job'[c].present = job[c].present
  BY Fields8
<1>3. \A h \in DOMAIN job'[c].list : Sound(h, job[c].list[h])' /\ Behind(h, job[c].list[h])'
  BY <1>1, <1>2, ListStays DEF history
<1>4. job'[c].key \in Keys => Sound(job[c].key, job[c].mem)' /\ Behind(job[c].key, job[c].mem)'
  BY <1>1, <1>2, MemStays DEF history
<1>5. DOMAIN new \subseteq Fields
  BY DEF Fields
<1>6. QED
  BY <1>1, <1>2, <1>3, <1>4, <1>5, JobIs, PlaceKeeps

LEMMA ListRepositoryKeeps == ASSUME Inv, NEW c \in Cycles, ListRepository(c) PROVE Inv'
<1>1. UNCHANGED <<row, held, repo, pass, history>> /\ job[c].pc = "idle"
  BY DEF ListRepository, Elsewhere, At
<1>2. PICK new : new = [pc |-> "owned", doing |-> "reconcile", present |-> repo]
  OBVIOUS
<1>3. With(c, new)
  BY <1>2 DEF ListRepository
<1>4. QED
  BY <1>1, <1>2, <1>3, MoveOnKeeps DEF Writing, Holding, Inv, Stores

LEMMA ReadOwnedKeeps == ASSUME Inv, NEW c \in Cycles, ReadOwned(c) PROVE Inv'
<1>1. UNCHANGED <<row, held, repo, pass, history>> /\ job[c].pc = "owned"
  BY DEF ReadOwned, Elsewhere, At
<1>2. PICK new : new = [pc |-> "worklist",
                        owned |-> {claim \in Manifests \X Keys : Claims(claim[2], claim[1])}]
  OBVIOUS
<1>3. With(c, new)
  BY <1>2 DEF ReadOwned
<1>4. QED
  BY <1>1, <1>2, <1>3, MoveOnKeeps DEF Writing, Holding

\* A step that reads rows of the journal as they are.
LEMMA ReadRowsKeeps ==
  ASSUME Inv, NEW c \in Cycles, UNCHANGED <<row, held, repo, pass, history>>,
         job[c].pc \notin Holding \cup {"begin"}, NEW S \in SUBSET Keys, NEW pc,
         pc \notin Holding \cup {"sound"},
         With(c, [pc |-> pc, list |-> [k \in S |-> row[k]], todo |-> S])
  PROVE  Inv'
<1>1. RowsSound' /\ Marks' /\ RowsGoOn
  BY SameRows DEF Inv
<1>2. PICK new : new = [pc |-> pc, list |-> [k \in S |-> row[k]], todo |-> S]
  OBVIOUS
<1>3. /\ job'[c].pc = pc /\ job'[c].key = job[c].key /\ job'[c].mem = job[c].mem
      /\ job'[c].list = [k \in S |-> row[k]] /\ job'[c].todo = S
      /\ job'[c].present = job[c].present
  BY <1>2, Fields8
<1>4. \A h \in DOMAIN job'[c].list : Sound(h, job[c].list[h])' /\ Behind(h, job[c].list[h])'
  <2>1. ASSUME NEW h \in S
        PROVE job'[c].list[h] = row'[h] /\ Sound(h, row[h])' /\ Behind(h, row[h])'
    <3>1. job'[c].list[h] = row'[h]
      BY <1>3
    <3>2. h \in Keys
      OBVIOUS
    <3>3. Sound(h, row[h])'
      BY <1>1, <3>2 DEF RowsSound
    <3>4. Behind(h, row[h])'
      BY DEF Behind
    <3>5. QED
      BY <3>1, <3>3, <3>4
  <2>2. DOMAIN job'[c].list = S
    BY <1>3
  <2>3. QED
    BY <2>1, <2>2
<1>5. job'[c].key \in Keys => Sound(job[c].key, job[c].mem)' /\ Behind(job[c].key, job[c].mem)'
  BY <1>1, <1>3, MemStays DEF history
<1>6. DOMAIN new \subseteq Fields /\ With(c, new) /\ DOMAIN job'[c].list = S
  BY <1>2, <1>3 DEF Fields
<1>7. pc \notin Writing
  BY DEF Writing, Holding
<1>8. QED
  BY <1>1, <1>3, <1>4, <1>5, <1>6, <1>7, JobIs, PlaceKeeps

LEMMA ReadUnfinishedKeeps == ASSUME Inv, NEW c \in Cycles, ReadUnfinished(c) PROVE Inv'
<1>1. UNCHANGED <<row, held, repo, pass, history>> /\ job[c].pc = "worklist"
  BY DEF ReadUnfinished, Elsewhere, At
<1>2. UnfinishedKeys \in SUBSET Keys
  BY DEF UnfinishedKeys
<1>3. With(c, [pc |-> "unfinished", list |-> [k \in UnfinishedKeys |-> row[k]],
               todo |-> UnfinishedKeys])
  BY DEF ReadUnfinished
<1>4. QED
  BY <1>1, <1>2, <1>3, ReadRowsKeeps DEF Holding

LEMMA ReadHistoryKeeps == ASSUME Inv, NEW c \in Cycles, ReadHistory(c) PROVE Inv'
<1>1. UNCHANGED <<row, held, repo, pass, history>> /\ job[c].pc = "unfinished"
  BY DEF ReadHistory, Elsewhere, At
<1>2. PICK S : S = {k \in Keys : Overdue(c, k)}
  OBVIOUS
<1>3. S \in SUBSET Keys
  BY <1>2
<1>4. With(c, [pc |-> "finished", list |-> [k \in S |-> row[k]], todo |-> S])
  BY <1>2 DEF ReadHistory
<1>5. QED
  BY <1>1, <1>3, <1>4, ReadRowsKeeps DEF Holding

LEMMA ReloadKeeps == ASSUME Inv, NEW c \in Cycles, Reload(c) PROVE Inv'
<1>1. UNCHANGED <<row, held, repo, pass, history>> /\ job[c].pc = "reload"
  BY DEF Reload, Elsewhere, At
<1>2. RowsSound' /\ Marks' /\ RowsGoOn
  BY <1>1, SameRows DEF Inv
<1>3. PICK new : new = [pc |-> "unverified", mem |-> row[job[c].key]]
  OBVIOUS
<1>4. With(c, new) /\ DOMAIN new \subseteq Fields
  BY <1>3 DEF Reload, Fields
<1>5. /\ job'[c].pc = "unverified" /\ job'[c].key = job[c].key /\ job'[c].mem = row[job[c].key]
      /\ job'[c].list = job[c].list /\ job'[c].todo = job[c].todo
      /\ job'[c].present = job[c].present
  BY <1>3, <1>4, Fields8
<1>6. job[c].key \in Keys
  BY <1>1, InHand DEF Holding
<1>7. Sound(job[c].key, job[c].mem)' /\ Behind(job[c].key, job[c].mem)'
  <2>1. job'[c].mem = row'[job'[c].key]
    BY <1>1, <1>5
  <2>2. Sound(job[c].key, row[job[c].key])'
    BY <1>2, <1>5, <1>6 DEF RowsSound
  <2>3. QED
    BY <2>1, <2>2 DEF Behind
<1>8. \A h \in DOMAIN job'[c].list : Sound(h, job[c].list[h])' /\ Behind(h, job[c].list[h])'
  BY <1>1, <1>2, <1>5, ListStays DEF history
<1>9. job'[c].mem \in Rows
  BY <1>5, <1>6 DEF Inv, RowsSound
<1>10. QED
  BY <1>1, <1>2, <1>4, <1>5, <1>6, <1>7, <1>8, <1>9, JobIs, KeysAre, PlaceKeeps
     DEF Writing, Holding

LEMMA TakeUpKeeps == ASSUME Inv, NEW c \in Cycles, TakeUp(c) PROVE Inv'
<1>1. UNCHANGED <<row, held, repo, pass, history>> /\ job[c].pc = "unfinished"
  BY DEF TakeUp, Elsewhere, At
<1>2. RowsSound' /\ Marks' /\ RowsGoOn
  BY <1>1, SameRows DEF Inv
<1>3. PICK k \in job[c].todo :
        With(c, [pc |-> IF job[c].list[k].phase = "CATALOG_COMMIT" THEN "complete"
                        ELSE "unverified",
                 key |-> k, mem |-> job[c].list[k], todo |-> job[c].todo \ {k}])
  BY DEF TakeUp
<1>4. PICK new : new = [pc |-> IF job[c].list[k].phase = "CATALOG_COMMIT" THEN "complete"
                               ELSE "unverified",
                        key |-> k, mem |-> job[c].list[k], todo |-> job[c].todo \ {k}]
  OBVIOUS
<1>5. With(c, new) /\ DOMAIN new \subseteq Fields
  BY <1>3, <1>4 DEF Fields
<1>6. /\ job'[c].pc \in {"complete", "unverified"} /\ job'[c].key = k
      /\ job'[c].mem = job[c].list[k]
      /\ job'[c].list = job[c].list /\ job'[c].todo = job[c].todo \ {k}
      /\ job'[c].present = job[c].present
  BY <1>4, <1>5, Fields8
<1>7. k \in Keys /\ Sound(k, job[c].list[k]) /\ Behind(k, job[c].list[k])
  BY <1>1, FromList
<1>8. Sound(job[c].key, job[c].mem)' /\ Behind(job[c].key, job[c].mem)'
  <2>1. PICK m : m = job[c].list[k]
    OBVIOUS
  <2>2. Sound(k, m)' /\ Behind(k, m)'
    BY <1>1, <1>2, <1>7, <2>1, RememberedStays DEF history
  <2>3. QED
    BY <1>6, <2>1, <2>2
<1>9. \A h \in DOMAIN job'[c].list : Sound(h, job[c].list[h])' /\ Behind(h, job[c].list[h])'
  BY <1>1, <1>2, <1>6, ListStays DEF history
<1>10. job'[c].mem \in Rows
  BY <1>6, <1>7 DEF Sound
<1>11. QED
  BY <1>1, <1>2, <1>5, <1>6, <1>7, <1>8, <1>9, <1>10, JobIs, KeysAre, PlaceKeeps
     DEF Writing, Holding

LEMMA AttributeKeeps == ASSUME Inv, NEW c \in Cycles, Attribute(c) PROVE Inv'
<1>1. UNCHANGED <<row, held, repo, pass, history>> /\ job[c].pc = "finished"
  BY DEF Attribute, Elsewhere, At
<1>2. RowsSound' /\ Marks' /\ RowsGoOn
  BY <1>1, SameRows DEF Inv
<1>3. PICK S : S = {Found(m) : m \in {n \in job[c].present :
                                        \A claim \in job[c].owned : claim[1] # n}}
  OBVIOUS
<1>4. S \subseteq Keys
  BY <1>3, JobIs, KeysAre
<1>5. PICK new : new = [pc |-> "attribute", list |-> IdleJob.list, todo |-> S]
  OBVIOUS
<1>6. With(c, new) /\ DOMAIN new \subseteq Fields
  BY <1>3, <1>5 DEF Attribute, Fields
<1>7. /\ job'[c].pc = "attribute" /\ job'[c].key = job[c].key /\ job'[c].mem = job[c].mem
      /\ job'[c].list = IdleJob.list /\ job'[c].todo = S /\ job'[c].present = job[c].present
  BY <1>5, <1>6, Fields8
<1>8. DOMAIN job'[c].list = {}
  BY <1>7 DEF IdleJob
<1>9. job'[c].key \in Keys => Sound(job[c].key, job[c].mem)' /\ Behind(job[c].key, job[c].mem)'
  BY <1>1, <1>2, <1>7, MemStays DEF history
<1>10. QED
  BY <1>1, <1>2, <1>4, <1>6, <1>7, <1>8, <1>9, JobIs, PlaceKeeps DEF Writing, Holding

\* A row that is begun was not there.
LEMMA BegunKeeps ==
  ASSUME RowsSound, Marks, NEW k \in Keys, row[k] = NoRow, Begun(k), UNCHANGED history
  PROVE  /\ RowsSound' /\ Marks' /\ RowsGoOn /\ row'[k].phase # "none"
         /\ \A m : m = [NoRow EXCEPT !.phase = "PENDING"] => Sound(k, m)' /\ Behind(k, m)'
<1> DEFINE pending == [NoRow EXCEPT !.phase = "PENDING"]
<1>1. /\ pending \in Rows /\ pending.phase = "PENDING" /\ pending.id = NoId
      /\ pending.complete = "unknown" /\ pending.status = "none" /\ pending.lkg = FALSE
  BY PathIs DEF NoRow, Rows, Phases
<1>2. /\ row' \in [Keys -> Rows] /\ row'[k] = pending
      /\ \A j \in Keys \ {k} : row'[j] = row[j]
  BY <1>1 DEF Begun, RowsSound
<1>3. row[k].id = NoId /\ row[k].phase = "none" /\ row[k].lkg = FALSE
  BY DEF NoRow
<1> HIDE DEF pending
<1>4. Sound(k, pending)' /\ Behind(k, pending)'
  BY <1>1, PathIs DEF Sound, Behind, Named, Phases, Verified, Covered, Unattributed, Settling,
     Complete
<1>5. \A j \in Keys : Sound(j, row[j])'
  <2>1. Sound(k, row[k])'
    BY <1>2, <1>4 DEF Sound
  <2>2. ASSUME NEW j \in Keys \ {k} PROVE Sound(j, row[j])'
    BY <1>2 DEF Sound, RowsSound, history
  <2>3. QED
    BY <2>1, <2>2
<1>6. RowsSound'
  BY <1>2, <1>5 DEF RowsSound
<1>7. Marks'
  BY <1>1, <1>2 DEF Marks
<1>8. RowsGoOn
  BY <1>1, <1>2, <1>3 DEF RowsGoOn, Settling, Complete
<1>9. \A m : m = pending => Sound(k, m)' /\ Behind(k, m)'
  <2>1. ASSUME NEW m, m = pending PROVE Sound(k, m)' /\ Behind(k, m)'
    BY <1>4, <2>1
  <2>2. QED
    BY <2>1
<1>10. QED
  BY <1>1, <1>2, <1>6, <1>7, <1>8, <1>9 DEF pending

LEMMA BeginQuarantineKeeps == ASSUME Inv, NEW c \in Cycles, BeginQuarantine(c) PROVE Inv'
<1>1. UNCHANGED <<held, repo, pass, history>> /\ job[c].pc = "attribute"
  BY DEF BeginQuarantine, Elsewhere, At
<1>2. PICK k \in job[c].todo :
        \/ /\ row[k] = NoRow
           /\ Begun(k)
           /\ With(c, [pc |-> "quarantine", key |-> k, mem |-> [NoRow EXCEPT !.phase = "PENDING"],
                       todo |-> job[c].todo \ {k}])
        \/ /\ row[k] # NoRow
           /\ With(c, [todo |-> job[c].todo \ {k}]) /\ UNCHANGED row
  BY DEF BeginQuarantine
<1>3. k \in Keys /\ k # NoKey
  BY JobIs, KeysAre
<1>4. CASE /\ row[k] = NoRow
           /\ Begun(k)
           /\ With(c, [pc |-> "quarantine", key |-> k, mem |-> [NoRow EXCEPT !.phase = "PENDING"],
                       todo |-> job[c].todo \ {k}])
  <2>1. PICK m : m = [NoRow EXCEPT !.phase = "PENDING"]
    OBVIOUS
  <2>2. RowsSound' /\ Marks' /\ RowsGoOn /\ Sound(k, m)' /\ Behind(k, m)'
    BY <1>1, <1>3, <1>4, <2>1, BegunKeeps DEF Inv
  <2>3. PICK new : new = [pc |-> "quarantine", key |-> k, mem |-> m, todo |-> job[c].todo \ {k}]
    OBVIOUS
  <2>4. With(c, new) /\ DOMAIN new \subseteq Fields
    BY <1>4, <2>1, <2>3 DEF Fields
  <2>5. /\ job'[c].pc = "quarantine" /\ job'[c].key = k /\ job'[c].mem = m
        /\ job'[c].list = job[c].list /\ job'[c].todo = job[c].todo \ {k}
        /\ job'[c].present = job[c].present
    BY <2>3, <2>4, Fields8
  <2>6. Sound(job[c].key, job[c].mem)' /\ Behind(job[c].key, job[c].mem)'
    BY <2>2, <2>5
  <2>7. \A h \in DOMAIN job'[c].list : Sound(h, job[c].list[h])' /\ Behind(h, job[c].list[h])'
    BY <1>1, <2>2, <2>5, ListStays DEF history
  <2>8. m \in Rows
    BY <2>2 DEF Sound
  <2>9. QED
    BY <1>1, <1>3, <2>2, <2>4, <2>5, <2>6, <2>7, <2>8, JobIs, PlaceKeeps DEF Writing, Holding
<1>5. CASE With(c, [todo |-> job[c].todo \ {k}]) /\ UNCHANGED row
  <2>1. RowsSound' /\ Marks' /\ RowsGoOn
    BY <1>1, <1>5, SameRows DEF Inv
  <2>2. PICK new : new = [todo |-> job[c].todo \ {k}]
    OBVIOUS
  <2>3. With(c, new) /\ DOMAIN new \subseteq Fields
    BY <1>5, <2>2 DEF Fields
  <2>4. /\ job'[c].pc = "attribute" /\ job'[c].key = job[c].key /\ job'[c].mem = job[c].mem
        /\ job'[c].list = job[c].list /\ job'[c].todo = job[c].todo \ {k}
        /\ job'[c].present = job[c].present
    BY <1>1, <2>2, <2>3, Fields8
  <2>5. job'[c].key \in Keys => Sound(job[c].key, job[c].mem)' /\ Behind(job[c].key, job[c].mem)'
    BY <1>1, <2>1, <2>4, MemStays DEF history
  <2>6. \A h \in DOMAIN job'[c].list : Sound(h, job[c].list[h])' /\ Behind(h, job[c].list[h])'
    BY <1>1, <2>1, <2>4, ListStays DEF history
  <2>7. QED
    BY <1>1, <2>1, <2>3, <2>4, <2>5, <2>6, JobIs, PlaceKeeps DEF Writing, Holding
<1>6. QED
  BY <1>2, <1>4, <1>5

LEMMA LookForRestorePointKeeps ==
  ASSUME Inv, NEW c \in Cycles, LookForRestorePoint(c) PROVE Inv'
<1>1. UNCHANGED <<row, held, repo, pass, history>> /\ job[c].pc = "attribute" /\ job[c].todo = {}
  BY DEF LookForRestorePoint, Elsewhere, At
<1>2. CASE With(c, [pc |-> "begin"])
  BY <1>1, <1>2, MoveOnKeeps DEF Writing, Holding
<1>3. CASE Restorables(c) # {} /\ With(c, [pc |-> "repoint", key |-> Run(Newest(Restorables(c)))])
  <2>1. PICK k : k = Run(Newest(Restorables(c)))
    OBVIOUS
  <2>2. k \in Keys /\ k # NoKey
    <3>1. Restorables(c) \subseteq Runs
      BY DEF Restorables
    <3>2. Newest(Restorables(c)) \in Runs
      BY <1>3, <3>1, NewestIs
    <3>3. QED
      BY <2>1, <3>2, KeysAre, IdsAre
  <2>3. RowsSound' /\ Marks' /\ RowsGoOn
    BY <1>1, SameRows DEF Inv
  <2>4. PICK new : new = [pc |-> "repoint", key |-> k]
    OBVIOUS
  <2>5. With(c, new) /\ DOMAIN new \subseteq Fields
    BY <1>3, <2>1, <2>4 DEF Fields
  <2>6. /\ job'[c].pc = "repoint" /\ job'[c].key = k /\ job'[c].mem = job[c].mem
        /\ job'[c].list = job[c].list /\ job'[c].todo = job[c].todo
        /\ job'[c].present = job[c].present
    BY <2>4, <2>5, Fields8
  <2>7. job'[c].mem = NoRow
    BY <1>1, <2>6, JobIs DEF Holding
  <2>8. Sound(job[c].key, job[c].mem)' /\ Behind(job[c].key, job[c].mem)'
    <3>1. /\ NoRow \in Rows /\ NoRow.id = NoId /\ NoRow.phase = "none"
          /\ NoRow.status = "none" /\ NoRow.complete = "unknown"
      BY DEF NoRow, Rows
    <3>2. "none" \notin Phases
      BY PathIs DEF Phases
    <3>3. QED
      BY <2>7, <3>1, <3>2 DEF Sound, Behind, Named, Verified, Covered, Unattributed, Settling,
         Complete
  <2>9. \A h \in DOMAIN job'[c].list : Sound(h, job[c].list[h])' /\ Behind(h, job[c].list[h])'
    BY <1>1, <2>3, <2>6, ListStays DEF history
  <2>10. QED
    BY <1>1, <2>2, <2>3, <2>5, <2>6, <2>8, <2>9, JobIs, PlaceKeeps DEF Writing, Holding
<1>4. QED
  BY <1>2, <1>3 DEF LookForRestorePoint

LEMMA RepointedKeeps ==
  ASSUME RowsSound, Marks, NEW k \in Keys, row[k].phase = "SUCCESS", Repointed(k),
         UNCHANGED history
  PROVE  RowsSound' /\ Marks' /\ RowsGoOn
<1>1. \A j \in Keys : /\ row'[j] = [row[j] EXCEPT !.lkg = (j = k)]
                      /\ row[j] \in Rows
  BY DEF Repointed, RowsSound, Sound
<1>2. ASSUME NEW j \in Keys
      PROVE  /\ row'[j] \in Rows /\ row'[j].id = row[j].id
             /\ row'[j].phase = row[j].phase /\ row'[j].status = row[j].status
             /\ row'[j].complete = row[j].complete /\ row'[j].lkg = (j = k)
  <2>1. PICK r \in Rows, b \in BOOLEAN : r = row[j] /\ b = (j = k)
    BY <1>1
  <2>2. row'[j] = [r EXCEPT !.lkg = b]
    BY <1>1, <2>1
  <2>3. /\ row'[j] \in Rows /\ row'[j].id = r.id /\ row'[j].phase = r.phase
        /\ row'[j].status = r.status /\ row'[j].complete = r.complete /\ row'[j].lkg = b
    BY <2>2 DEF Rows
  <2>4. QED
    BY <2>1, <2>3
<1>3. row' \in [Keys -> Rows]
  BY <1>2 DEF Repointed
<1>4. ASSUME NEW j \in Keys PROVE Sound(j, row[j])'
  BY <1>2 DEF RowsSound, Sound, history
<1>5. Marks'
  BY <1>2 DEF Marks
<1>6. RowsGoOn
  BY <1>2 DEF RowsGoOn
<1>7. QED
  BY <1>3, <1>4, <1>5, <1>6 DEF RowsSound

LEMMA RepointKeeps == ASSUME Inv, NEW c \in Cycles, Repoint(c) PROVE Inv'
<1>1. UNCHANGED <<held, repo, pass, history>> /\ job[c].pc = "repoint"
  BY DEF Repoint, Elsewhere, At
<1>2. CASE UNCHANGED row /\ Stop(c)
  BY <1>1, <1>2, StopKeeps
<1>3. CASE MayRepoint(job[c].key) /\ Repointed(job[c].key) /\ With(c, [pc |-> "begin"])
  <2>1. job[c].key \in Keys
    BY <1>1, InHand DEF Holding
  <2>2. RowsSound' /\ Marks' /\ RowsGoOn
    BY <1>1, <1>3, <2>1, RepointedKeeps DEF Inv, MayRepoint
  <2>3. PICK new : new = [pc |-> "begin"]
    OBVIOUS
  <2>4. With(c, new) /\ DOMAIN new \subseteq Fields
    BY <1>3, <2>3 DEF Fields
  <2>5. /\ job'[c].pc = "begin" /\ job'[c].key = job[c].key /\ job'[c].mem = job[c].mem
        /\ job'[c].list = job[c].list /\ job'[c].todo = job[c].todo
        /\ job'[c].present = job[c].present
    BY <2>3, <2>4, Fields8
  <2>6. Sound(job[c].key, job[c].mem)' /\ Behind(job[c].key, job[c].mem)'
    BY <1>1, <2>1, <2>2, <2>5, MemStays DEF history
  <2>7. \A h \in DOMAIN job'[c].list : Sound(h, job[c].list[h])' /\ Behind(h, job[c].list[h])'
    BY <1>1, <2>2, <2>5, ListStays DEF history
  <2>8. QED
    BY <1>1, <2>1, <2>2, <2>4, <2>5, <2>6, <2>7, JobIs, PlaceKeeps DEF Writing, Holding
<1>4. QED
  BY <1>2, <1>3 DEF Repoint

LEMMA BeginKeeps == ASSUME Inv, NEW c \in Cycles, Begin(c) PROVE Inv'
<1>1. UNCHANGED <<held, repo, pass, history>>
  BY DEF Begin, Elsewhere
<1>2. CASE UNCHANGED row /\ Stop(c)
  BY <1>1, <1>2, StopKeeps
<1>3. CASE /\ Unstarted # {}
           /\ LET r == CHOOSE s \in Unstarted : \A other \in Unstarted : s <= other IN
              /\ Begun(Run(r))
              /\ job' = [job EXCEPT ![c] = [IdleJob EXCEPT !.pc = "scan", !.doing = "run",
                                              !.key = Run(r), !.mem.phase = "PENDING"]]
  <2>1. PICK r \in Unstarted :
          /\ Begun(Run(r))
          /\ job' = [job EXCEPT ![c] = [IdleJob EXCEPT !.pc = "scan", !.doing = "run",
                                          !.key = Run(r), !.mem.phase = "PENDING"]]
    BY <1>3, OldestIs DEF Unstarted
  <2>2. r \in Runs /\ Run(r) \in Keys /\ Run(r) # NoKey /\ row[Run(r)] = NoRow
    BY KeysAre, IdsAre DEF Unstarted
  <2>3. PICK m : m = [NoRow EXCEPT !.phase = "PENDING"]
    OBVIOUS
  <2>4. /\ RowsSound' /\ Marks' /\ RowsGoOn /\ row'[Run(r)].phase # "none"
        /\ Sound(Run(r), m)' /\ Behind(Run(r), m)'
    BY <1>1, <2>1, <2>2, <2>3, BegunKeeps DEF Inv
  <2>5. DOMAIN job' = Cycles /\ \A d \in Cycles \ {c} : job'[d] = job[d]
    BY <2>1 DEF Inv, Jobs
  <2>6. /\ DOMAIN job'[c] = Fields /\ job'[c].pc = "scan" /\ job'[c].key = Run(r)
        /\ job'[c].mem = m /\ job'[c].present = {} /\ job'[c].todo = {}
        /\ job'[c].list = IdleJob.list
    BY <2>1, <2>3 DEF Inv, Jobs, IdleJob, Fields
  <2>7. DOMAIN job'[c].list = {}
    BY <2>6 DEF IdleJob
  <2>8. JobTyped(job[c])'
    BY <2>2, <2>4, <2>6, <2>7 DEF JobTyped, Sound
  <2>9. Remembers(job[c])'
    BY <2>2, <2>4, <2>6, <2>7 DEF Remembers, Holding
  <2>10. row[Run(r)].phase = "none"
    BY <2>2 DEF NoRow
  <2>11. QED
    BY <1>1, <2>2, <2>4, <2>5, <2>6, <2>8, <2>9, <2>10, CycleKeeps
<1>4. QED
  BY <1>2, <1>3 DEF Begin

-----------------------------------------------------------------------------
(* The steps of a cycle at the repository.                                 *)

\* Manifests that come to be stored or proved are nobody's to write.
LEMMA WorldKeeps ==
  ASSUME Inv, NEW c \in Cycles, UNCHANGED <<row, held, pass, removed, lost>>, Stores',
         proved \subseteq proved', whole \subseteq whole',
         DOMAIN job' = Cycles, \A d \in Cycles \ {c} : job'[d] = job[d],
         JobTyped(job[c])', Remembers(job[c])', job'[c].pc \notin Writing,
         \A r \in (repo' \cup proved') \ (repo \cup proved) :
           r \in Runs => /\ row[Run(r)].phase # "none"
                         /\ \A d \in Cycles \ {c} : job[d].pc \in Writing => job[d].key # Run(r),
         pass.pc = "record" => pass.run \notin repo'
  PROVE  Inv'
<1>1. RowsSound' /\ Marks' /\ RowsGoOn
  <2>1. \A k \in Keys : Sound(k, row[k])'
    BY DEF Inv, RowsSound, Sound
  <2>2. QED
    BY <2>1 DEF Inv, RowsSound, Marks, RowsGoOn
<1>2. ASSUME NEW d \in Cycles PROVE JobTyped(job[d])' /\ Remembers(job[d])'
  <2>1. CASE d = c
    BY <2>1
  <2>2. CASE d # c
    <3>1. PICK j : j = job[d]
      OBVIOUS
    <3>2. JobTyped(j) /\ Remembers(j) /\ job'[d] = j
      BY <2>2, <3>1 DEF Inv, Jobs
    <3>3. Remembers(j)' /\ JobTyped(j)'
      BY <1>1, <3>2, RemembersStays DEF JobTyped
    <3>4. QED
      BY <3>2, <3>3
  <2>3. QED
    BY <2>1, <2>2
<1>3. ASSUME NEW d \in Cycles PROVE Unwritten(job[d])'
  <2>1. CASE d = c
    BY <2>1 DEF Unwritten
  <2>2. CASE d # c
    <3>1. SUFFICES ASSUME job[d].pc \in Writing
                   PROVE  /\ job[d].key[1] = "run" /\ job[d].key[2] \in Runs
                          /\ row[job[d].key].phase # "none"
                          /\ job[d].key[2] \notin repo' \cup proved'
      BY <2>2 DEF Unwritten
    <3>2. /\ job[d].key[1] = "run" /\ job[d].key[2] \in Runs
          /\ row[job[d].key].phase # "none" /\ job[d].key[2] \notin repo \cup proved
      BY <3>1 DEF Inv, Jobs, Unwritten
    <3>3. job[d].key = Run(job[d].key[2])
      BY <3>1, InHand, KeysAre, <3>2 DEF Holding, Writing
    <3>4. QED
      BY <2>2, <3>1, <3>2, <3>3
  <2>3. QED
    BY <2>1, <2>2
<1>4. OneWriter'
  <2>1. \A r \in Runs : r \in repo' \cup proved' => row[Run(r)].phase # "none"
    BY DEF Inv, OneWriter
  <2>2. \A d, e \in Cycles : job'[d].pc \in Writing /\ job'[e].pc \in Writing
                             /\ job'[d].key = job'[e].key => d = e
    BY DEF Inv, OneWriter
  <2>3. QED
    BY <2>1, <2>2 DEF OneWriter
<1>5. Deleting'
  BY DEF Inv, Deleting
<1>6. Jobs'
  BY <1>2, <1>3 DEF Jobs
<1>7. QED
  BY <1>1, <1>4, <1>5, <1>6 DEF Inv

LEMMA VerifyKeeps == ASSUME Inv, NEW c \in Cycles, Verify(c) PROVE Inv'
<1>1. UNCHANGED <<row, held, repo, pass, whole, removed, lost>> /\ job[c].pc = "verify"
  BY DEF Verify, catalogVars, At
<1>2. /\ job[c].key \in Keys /\ Sound(job[c].key, job[c].mem) /\ Behind(job[c].key, job[c].mem)
  BY <1>1, InHand DEF Holding
<1>3. CASE With(c, [pc |-> "unsound"]) /\ UNCHANGED proved
  BY <1>1, <1>3, MoveOnKeeps DEF history, Writing, Holding
<1>4. CASE /\ job[c].mem.id \in repo
           /\ proved' = proved \cup {job[c].mem.id}
           /\ With(c, [pc |-> "sound"])
  <2>1. repo \subseteq Manifests /\ job[c].mem.id = job[c].key[2]
    BY <1>2, <1>4, IdsAre DEF Inv, Stores, Sound
  <2>2. PICK new : new = [pc |-> "sound"]
    OBVIOUS
  <2>3. /\ job'[c].pc = "sound" /\ job'[c].key = job[c].key /\ job'[c].mem = job[c].mem
        /\ job'[c].list = job[c].list /\ job'[c].todo = job[c].todo
        /\ job'[c].present = job[c].present
    BY <1>4, <2>2, Fields8
  <2>4. /\ DOMAIN job' = Cycles /\ \A d \in Cycles \ {c} : job'[d] = job[d]
        /\ DOMAIN job'[c] = Fields
    BY <1>4, WithFields DEF Inv, Jobs, JobTyped
  <2>5. RowsGoOn /\ whole \subseteq whole' /\ proved \subseteq proved'
    BY <1>1, <1>4 DEF RowsGoOn
  <2>6. Sound(job[c].key, job[c].mem)' /\ Behind(job[c].key, job[c].mem)'
    BY <1>2, <2>3, <2>5, MemStays
  <2>7. \A h \in DOMAIN job'[c].list : Sound(h, job[c].list[h])' /\ Behind(h, job[c].list[h])'
    BY <2>3, <2>5, ListStays
  <2>8. JobTyped(job[c])'
    BY <2>3, <2>4, JobIs DEF JobTyped
  <2>9. Remembers(job[c])'
    BY <1>1, <1>4, <2>1, <2>3, <2>6, <2>7, JobIs DEF Remembers, Holding
  <2>10. Stores'
    BY <1>1, <1>4, <2>1 DEF Inv, Stores
  <2>11. (repo' \cup proved') \ (repo \cup proved) = {}
    BY <1>1, <1>4
  <2>12. pass.pc = "record" => pass.run \notin repo'
    BY <1>1 DEF Inv, Deleting
  <2>13. job'[c].pc \notin Writing
    BY <2>3 DEF Writing
  <2>14. QED
    BY <1>1, <2>4, <2>5, <2>8, <2>9, <2>10, <2>11, <2>12, <2>13, WorldKeeps
<1>5. QED
  BY <1>3, <1>4 DEF Verify

\* What a completed row says was proved.
LEMMA CompleteProved ==
  ASSUME Inv, NEW k \in Keys, row[k].phase \in Complete
  PROVE  k[2] \in proved /\ k[2] \in whole /\ k = Run(k[2]) /\ k[2] \in Runs /\ row[k].id = k[2]
<1>1. Sound(k, row[k])
  BY DEF Inv, RowsSound
<1>2. /\ row[k].phase \in Named /\ row[k].phase \in Verified /\ row[k].phase \in Covered
      /\ row[k].phase \notin Unattributed
  BY PathIs DEF Named, Phases, Verified, Covered, Unattributed, Complete
<1>3. QED
  BY <1>1, <1>2, KeysAre DEF Sound

LEMMA SnapshotTreeKeeps == ASSUME Inv, NEW c \in Cycles, SnapshotTree(c) PROVE Inv'
<1>1. UNCHANGED <<row, held, pass, proved, removed, lost>> /\ job[c].pc = "write"
  BY DEF SnapshotTree, catalogVars, At
<1>2. PICK m : m = job[c].key[2]
  OBVIOUS
<1>3. PICK covered \in BOOLEAN :
        LET stored == /\ repo' = repo \cup {m}
                      /\ whole' = IF covered THEN whole \cup {m} ELSE whole IN
        \/ /\ stored
           /\ With(c, [pc |-> "record",
                       mem |-> [job[c].mem EXCEPT !.complete = IF covered THEN "yes" ELSE "no"]])
        \/ With(c, [pc |-> "failed"]) /\ UNCHANGED <<repo, whole>>
        \/ stored /\ With(c, [pc |-> "failed"])
  BY <1>2 DEF SnapshotTree
<1>4. /\ job[c].key[1] = "run" /\ m \in Runs /\ row[job[c].key].phase # "none"
      /\ m \notin repo \cup proved
  BY <1>1, <1>2 DEF Inv, Jobs, Unwritten, Writing
<1>5. /\ job[c].key \in Keys /\ Sound(job[c].key, job[c].mem) /\ Behind(job[c].key, job[c].mem)
  BY <1>1, InHand DEF Holding
<1>6. job[c].key = Run(m) /\ m \in Manifests
  BY <1>2, <1>4, <1>5, KeysAre
<1>7. CASE With(c, [pc |-> "failed"]) /\ UNCHANGED <<repo, whole>>
  BY <1>1, <1>7, MoveOnKeeps DEF history, Writing, Holding
<1>8. CASE /\ repo' = repo \cup {m}
           /\ whole' = IF covered THEN whole \cup {m} ELSE whole
           /\ \/ With(c, [pc |-> "record",
                          mem |-> [job[c].mem EXCEPT !.complete =
                                     IF covered THEN "yes" ELSE "no"]])
              \/ With(c, [pc |-> "failed"])
  <2>1. RowsGoOn /\ whole \subseteq whole' /\ proved \subseteq proved'
    BY <1>1, <1>8 DEF RowsGoOn
  <2>2. PICK k, r : k = job[c].key
                    /\ r = [job[c].mem EXCEPT !.complete = IF covered THEN "yes" ELSE "no"]
    OBVIOUS
  <2>3. Sound(k, r)' /\ Behind(k, r)'
    <3>1. /\ r \in Rows /\ r.id = job[c].mem.id /\ r.phase = job[c].mem.phase
          /\ r.status = job[c].mem.status /\ (r.complete = "yes" => covered)
      BY <1>5, <2>2 DEF Sound, Rows
    <3>2. covered => k[2] \in whole'
      BY <1>2, <1>8, <2>2
    <3>3. Sound(k, r)'
      BY <1>1, <1>5, <2>1, <2>2, <3>1, <3>2 DEF Sound
    <3>4. Behind(k, r)'
      BY <1>1, <1>5, <2>2, <3>1 DEF Behind
    <3>5. QED
      BY <3>3, <3>4
  <2>4. /\ job'[c].pc \in {"record", "failed"} /\ job'[c].key = k
        /\ job'[c].list = job[c].list /\ job'[c].todo = job[c].todo
        /\ job'[c].present = job[c].present
        /\ job'[c].mem \in {job[c].mem, r}
    <3>1. CASE With(c, [pc |-> "record", mem |-> r])
      <4>1. PICK new : new = [pc |-> "record", mem |-> r]
        OBVIOUS
      <4>2. With(c, new) /\ DOMAIN new = {"pc", "mem"} /\ new.pc = "record" /\ new.mem = r
        BY <3>1, <4>1
      <4>3. QED
        BY <2>2, <4>2, Fields8
    <3>2. CASE With(c, [pc |-> "failed"])
      <4>1. PICK new : new = [pc |-> "failed"]
        OBVIOUS
      <4>2. With(c, new) /\ DOMAIN new = {"pc"} /\ new.pc = "failed"
        BY <3>2, <4>1
      <4>3. QED
        BY <2>2, <4>2, Fields8
    <3>3. QED
      BY <1>8, <2>2, <3>1, <3>2
  <2>5. /\ DOMAIN job' = Cycles /\ \A d \in Cycles \ {c} : job'[d] = job[d]
        /\ DOMAIN job'[c] = Fields
    BY <1>8, WithFields DEF Inv, Jobs, JobTyped
  <2>6. Sound(job[c].key, job[c].mem)' /\ Behind(job[c].key, job[c].mem)'
    <3>1. CASE job'[c].mem = r
      BY <2>3, <2>4, <3>1
    <3>2. CASE job'[c].mem = job[c].mem
      BY <1>5, <2>1, <2>2, <2>4, <3>2, MemStays
    <3>3. QED
      BY <2>4, <3>1, <3>2
  <2>7. \A h \in DOMAIN job'[c].list : Sound(h, job[c].list[h])' /\ Behind(h, job[c].list[h])'
    BY <2>1, <2>4, ListStays
  <2>8. k \in Keys /\ k # NoKey /\ r \in Rows
    BY <1>5, <2>2, <2>3, KeysAre DEF Sound
  <2>9. JobTyped(job[c])'
    BY <2>4, <2>5, <2>8, JobIs DEF JobTyped
  <2>10. Remembers(job[c])'
    BY <1>1, <2>4, <2>6, <2>7, <2>8, JobIs DEF Remembers, Holding
  <2>11. Stores'
    BY <1>1, <1>6, <1>8 DEF Inv, Stores
  <2>12. ASSUME NEW d \in Cycles \ {c}, job[d].pc \in Writing PROVE job[d].key # Run(m)
    BY <1>1, <1>6, <2>12 DEF Inv, OneWriter, Writing
  <2>13. (repo' \cup proved') \ (repo \cup proved) \subseteq {m}
    BY <1>1, <1>8
  <2>14. pass.pc = "record" => pass.run \notin repo'
    <3>1. SUFFICES ASSUME pass.pc = "record" PROVE pass.run \notin repo \cup {m}
      BY <1>8
    <3>2. /\ pass.run \in Runs /\ row[Run(pass.run)].phase \in Complete
          /\ pass.run \notin repo
      BY <3>1 DEF Inv, Deleting
    <3>3. pass.run \in proved
      BY <3>2, CompleteProved, KeysAre, IdsAre
    <3>4. QED
      BY <1>4, <3>2, <3>3
  <2>15. job'[c].pc \notin Writing
    BY <2>4 DEF Writing
  <2>16. \A x \in (repo' \cup proved') \ (repo \cup proved) :
           x \in Runs => /\ row[Run(x)].phase # "none"
                         /\ \A d \in Cycles \ {c} : job[d].pc \in Writing => job[d].key # Run(x)
    BY <1>4, <1>6, <2>12, <2>13
  <2>17. QED
    BY <1>1, <2>1, <2>5, <2>9, <2>10, <2>11, <2>14, <2>15, <2>16, WorldKeeps
<1>9. QED
  BY <1>3, <1>7, <1>8

-----------------------------------------------------------------------------
(* Retention, the operator and the surroundings.                           *)

\* A step that leaves the cycles alone, and stores no run.
LEMMA OthersKeep ==
  ASSUME Inv, UNCHANGED <<job, whole, proved>>, RowsSound', Marks', RowsGoOn,
         repo' \cap Runs \subseteq repo, Deleting', Stores'
  PROVE  Inv'
<1>1. ASSUME NEW d \in Cycles PROVE JobTyped(job[d])' /\ Remembers(job[d])' /\ Unwritten(job[d])'
  <2>1. PICK j : j = job[d]
    OBVIOUS
  <2>2. JobTyped(j) /\ Remembers(j) /\ job'[d] = j /\ Unwritten(j)
    BY <2>1 DEF Inv, Jobs
  <2>3. Remembers(j)' /\ JobTyped(j)'
    BY <2>2, RemembersStays DEF JobTyped
  <2>4. j.pc \in Writing => j.key \in Keys
    BY <2>1, InHand DEF Writing, Holding
  <2>5. Unwritten(j)'
    BY <2>2, <2>4 DEF Unwritten, RowsGoOn
  <2>6. QED
    BY <2>2, <2>3, <2>5
<1>2. Jobs'
  BY <1>1 DEF Inv, Jobs
<1>3. OneWriter'
  <2>1. \A r \in Runs : r \in repo' \cup proved' => row'[Run(r)].phase # "none"
    BY KeysAre, IdsAre DEF Inv, OneWriter, RowsGoOn
  <2>2. QED
    BY <2>1 DEF Inv, OneWriter
<1>4. QED
  BY <1>2, <1>3 DEF Inv

\* An intent is set or withdrawn.
LEMMA IntentKeeps ==
  ASSUME RowsSound, Marks, NEW k \in Keys, NEW b \in BOOLEAN,
         row' = [row EXCEPT ![k].intent = b], UNCHANGED <<whole, proved>>
  PROVE  /\ RowsSound' /\ Marks' /\ RowsGoOn
         /\ \A j \in Keys : /\ row'[j].phase = row[j].phase /\ row'[j].lkg = row[j].lkg
                            /\ row'[j].id = row[j].id
<1>1. \A j \in Keys : row[j] \in Rows
  BY DEF RowsSound
<1>2. /\ row' \in [Keys -> Rows]
      /\ \A j \in Keys : /\ row'[j].id = row[j].id /\ row'[j].phase = row[j].phase
                         /\ row'[j].status = row[j].status /\ row'[j].lkg = row[j].lkg
                         /\ row'[j].complete = row[j].complete
  <2>1. row'[k] = [row[k] EXCEPT !.intent = b] /\ \A j \in Keys \ {k} : row'[j] = row[j]
    BY DEF RowsSound
  <2>2. /\ row'[k] \in Rows /\ row'[k].id = row[k].id /\ row'[k].phase = row[k].phase
        /\ row'[k].status = row[k].status /\ row'[k].lkg = row[k].lkg
        /\ row'[k].complete = row[k].complete
    BY <1>1, <2>1 DEF Rows
  <2>3. row' \in [Keys -> Rows]
    BY <1>1, <2>1, <2>2 DEF RowsSound
  <2>4. QED
    BY <2>1, <2>2, <2>3
<1>3. ASSUME NEW j \in Keys PROVE Sound(j, row[j])'
  BY <1>2 DEF RowsSound, Sound
<1>4. Marks'
  BY <1>2 DEF Marks
<1>5. RowsGoOn
  BY <1>2 DEF RowsGoOn
<1>6. QED
  BY <1>2, <1>3, <1>4, <1>5 DEF RowsSound

\* Where a pass goes when it has settled what it had in hand.
LEMMA GoingOn ==
  ASSUME NEW new \in Passes, Going(new)
  PROVE  pass' \in Passes /\ (new.pc = "apply" => pass'.pc \in {"idle", "apply"})
BY DEF Going, Passes, IdlePass

LEMMA PlanKeeps == ASSUME Inv, Plan PROVE Inv'
<1>1. UNCHANGED <<row, held, job, whole, proved, lost, repo, removed>>
  BY DEF Plan, BesidePass
<1>2. PICK tiers \in SUBSET Scope :
        LET kept == tiers \cup (held \cap Scope)
                      \cup (IF Protect /\ Scope # {} THEN {Newest(Scope)} ELSE {})
            doomed == {r \in Scope \ kept : ~MarkedBest(r)} IN
        Going([pc |-> "apply", delete |-> IF Unconfirmed THEN {} ELSE doomed,
               keep |-> {r \in kept : row[Run(r)].intent}, run |-> 0])
  BY DEF Plan
<1>3. Scope \subseteq Runs /\ tiers \subseteq Runs
  BY DEF Scope
<1>4. Scope # {} => Newest(Scope) \in Runs
  BY <1>3, NewestIs
<1>5. PICK delete \in SUBSET Runs :
        \E keep \in SUBSET Runs : Going([pc |-> "apply", delete |-> delete, keep |-> keep, run |-> 0])
  <2> DEFINE kept == tiers \cup (held \cap Scope)
                       \cup (IF Protect /\ Scope # {} THEN {Newest(Scope)} ELSE {})
             doomed == {r \in Scope \ kept : ~MarkedBest(r)}
             delete == IF Unconfirmed THEN {} ELSE doomed
             keep == {r \in kept : row[Run(r)].intent}
  <2>1. kept \subseteq Runs
    BY <1>3, <1>4
  <2>2. delete \in SUBSET Runs /\ keep \in SUBSET Runs
    BY <1>3, <2>1
  <2>3. Going([pc |-> "apply", delete |-> delete, keep |-> keep, run |-> 0])
    BY <1>2
  <2> HIDE DEF delete, keep
  <2>4. QED
    BY <2>2, <2>3
<1>6. PICK keep \in SUBSET Runs : Going([pc |-> "apply", delete |-> delete, keep |-> keep, run |-> 0])
  BY <1>5
<1>7. PICK new : new = [pc |-> "apply", delete |-> delete, keep |-> keep, run |-> 0]
  OBVIOUS
<1>8. new \in Passes /\ new.pc = "apply" /\ Going(new)
  BY <1>6, <1>7 DEF Passes
<1>9. pass' \in Passes /\ pass'.pc \in {"idle", "apply"}
  BY <1>8, GoingOn
<1>10. Deleting'
  BY <1>9 DEF Deleting
<1>11. RowsSound' /\ Marks' /\ RowsGoOn
  BY <1>1 DEF Inv, RowsSound, Sound, Marks, RowsGoOn
<1>12. Stores'
  BY <1>1 DEF Inv, Stores
<1>13. QED
  BY <1>1, <1>10, <1>11, <1>12, OthersKeep

LEMMA WithdrawIntentKeeps == ASSUME Inv, NEW r \in Runs, WithdrawIntent(r) PROVE Inv'
<1>1. UNCHANGED <<held, job, whole, proved, lost, repo, removed>>
  BY DEF WithdrawIntent, BesidePass
<1>2. Run(r) \in Keys
  BY KeysAre, IdsAre
<1>3. RowsSound' /\ Marks' /\ RowsGoOn
  <2>1. CASE row' = [row EXCEPT ![Run(r)].intent = FALSE]
    BY <1>1, <1>2, <2>1, IntentKeeps DEF Inv
  <2>2. CASE UNCHANGED row
    BY <1>1, <2>2 DEF Inv, RowsSound, Sound, Marks, RowsGoOn
  <2>3. QED
    BY <2>1, <2>2 DEF WithdrawIntent, Cleared
<1>4. PICK new : new = [pass EXCEPT !.keep = @ \ {r}]
  OBVIOUS
<1>5. new \in Passes /\ new.pc = "apply" /\ Going(new)
  BY <1>4 DEF WithdrawIntent, Turn, Inv, Deleting, Passes
<1>6. Deleting'
  BY <1>5, GoingOn DEF Deleting
<1>7. Stores'
  BY <1>1 DEF Inv, Stores
<1>8. QED
  BY <1>1, <1>3, <1>6, <1>7, OthersKeep

LEMMA RecheckKeeps == ASSUME Inv, NEW r \in Runs, Recheck(r) PROVE Inv'
<1>1. UNCHANGED <<row, held, job, whole, proved, lost, repo, removed>> /\ pass.pc = "apply"
  BY DEF Recheck, BesidePass, Turn
<1>2. Deleting'
  <2>1. CASE \/ Going([pass EXCEPT !.delete = {}])
             \/ Going([pass EXCEPT !.delete = @ \ {r}])
    <3>1. PICK new : /\ Going(new)
                     /\ \/ new = [pass EXCEPT !.delete = {}]
                        \/ new = [pass EXCEPT !.delete = @ \ {r}]
      BY <2>1
    <3>2. new \in Passes /\ new.pc = "apply"
      BY <1>1, <3>1 DEF Inv, Deleting, Passes
    <3>3. QED
      BY <3>1, <3>2, GoingOn DEF Deleting
  <2>2. CASE /\ ~RefusesNow(r)
             /\ pass' = [pass EXCEPT !.pc = "mark", !.run = r, !.delete = @ \ {r}]
    <3>1. row[Run(r)].phase \in Complete
      BY <2>2 DEF RefusesNow, InScope, Complete
    <3>2. pass' \in Passes /\ pass'.pc = "mark" /\ pass'.run = r
      BY <2>2 DEF Inv, Deleting, Passes
    <3>3. QED
      BY <1>1, <3>1, <3>2 DEF Deleting
  <2>3. QED
    BY <2>1, <2>2 DEF Recheck
<1>3. RowsSound' /\ Marks' /\ RowsGoOn
  BY <1>1 DEF Inv, RowsSound, Sound, Marks, RowsGoOn
<1>4. Stores'
  BY <1>1 DEF Inv, Stores
<1>5. QED
  BY <1>1, <1>2, <1>3, <1>4, OthersKeep

LEMMA MarkKeeps == ASSUME Inv, Mark PROVE Inv'
<1>1. UNCHANGED <<held, job, whole, proved, lost, repo, removed>> /\ pass.pc = "mark"
  BY DEF Mark, BesidePass
<1>2. pass.run \in Runs /\ Run(pass.run) \in Keys /\ row[Run(pass.run)].phase \in Complete
      /\ pass \in Passes
  BY <1>1, KeysAre, IdsAre DEF Inv, Deleting
<1>3. CASE Marked(Run(pass.run)) /\ pass' = [pass EXCEPT !.pc = "delete"]
  <2>1. /\ RowsSound' /\ Marks' /\ RowsGoOn
        /\ \A j \in Keys : row'[j].phase = row[j].phase
    BY <1>1, <1>2, <1>3, IntentKeeps DEF Inv, Marked
  <2>2. pass' \in Passes /\ pass'.pc = "delete" /\ pass'.run = pass.run
    BY <1>2, <1>3 DEF Passes
  <2>3. Deleting'
    BY <1>2, <2>1, <2>2 DEF Deleting
  <2>4. Stores'
    BY <1>1 DEF Inv, Stores
  <2>5. QED
    BY <1>1, <2>1, <2>3, <2>4, OthersKeep
<1>4. CASE UNCHANGED row /\ Going(On)
  <2>1. RowsSound' /\ Marks' /\ RowsGoOn
    BY <1>1, <1>4 DEF Inv, RowsSound, Sound, Marks, RowsGoOn
  <2>2. On \in Passes /\ On.pc = "apply"
    BY <1>2 DEF On, Passes
  <2>3. Deleting'
    BY <1>4, <2>2, GoingOn DEF Deleting
  <2>4. Stores'
    BY <1>1 DEF Inv, Stores
  <2>5. QED
    BY <1>1, <2>1, <2>3, <2>4, OthersKeep
<1>5. QED
  BY <1>3, <1>4 DEF Mark

LEMMA DeleteManifestKeeps == ASSUME Inv, DeleteManifest PROVE Inv'
<1>1. UNCHANGED <<row, held, job, whole, proved, lost>> /\ pass.pc = "delete"
  BY DEF DeleteManifest, BesidePass
<1>2. pass.run \in Runs /\ row[Run(pass.run)].phase \in Complete /\ pass \in Passes
  BY <1>1 DEF Inv, Deleting
<1>3. /\ repo' \subseteq repo /\ removed' \subseteq removed \cup repo
      /\ \/ pass' = [pass EXCEPT !.pc = "record"] /\ repo' = repo \ {pass.run}
         \/ Going(On)
  BY DEF DeleteManifest
<1>4. Deleting'
  <2>1. CASE pass' = [pass EXCEPT !.pc = "record"] /\ repo' = repo \ {pass.run}
    <3>1. pass' \in Passes /\ pass'.pc = "record" /\ pass'.run = pass.run
      BY <1>2, <2>1 DEF Passes
    <3>2. QED
      BY <1>1, <1>2, <2>1, <3>1 DEF Deleting
  <2>2. CASE Going(On)
    <3>1. On \in Passes /\ On.pc = "apply"
      BY <1>2 DEF On, Passes
    <3>2. QED
      BY <2>2, <3>1, GoingOn DEF Deleting
  <2>3. QED
    BY <1>3, <2>1, <2>2
<1>5. RowsSound' /\ Marks' /\ RowsGoOn
  BY <1>1 DEF Inv, RowsSound, Sound, Marks, RowsGoOn
<1>6. Stores'
  BY <1>1, <1>3 DEF Inv, Stores
<1>7. QED
  BY <1>1, <1>3, <1>4, <1>5, <1>6, OthersKeep

\* The write of retention: the row as it is is what it goes by.
LEMMA DeletedKeeps ==
  ASSUME RowsSound, Marks, NEW k \in Keys, row[k].phase \in Complete,
         Advanced(k, "DELETED", Nothing), AdvanceAllowed(row[k].phase, "DELETED"),
         UNCHANGED <<whole, proved>>
  PROVE  RowsSound' /\ Marks' /\ RowsGoOn /\ Remarks(k, "DELETED")
<1>1. PICK mem : mem = row[k]
  OBVIOUS
<1>2. Sound(k, mem) /\ Behind(k, mem)
  BY <1>1 DEF RowsSound, Behind
<1>3. Validate(mem.phase, "DELETED")
  BY <1>1 DEF Complete, Validate, Edges
<1>4. Fits(k, mem, "DELETED", Nothing)
  BY NothingFits DEF Phases
<1>5. PICK m : m = Over(Over(mem, [phase |-> "DELETED"]), Nothing)
  OBVIOUS
<1>6. QED
  BY <1>2, <1>3, <1>4, <1>5, WriteKeeps

LEMMA RecordDeletedKeeps == ASSUME Inv, RecordDeleted PROVE Inv'
<1>1. UNCHANGED <<held, job, whole, proved, lost, repo, removed>> /\ pass.pc = "record"
  BY DEF RecordDeleted, BesidePass
<1>2. pass.run \in Runs /\ Run(pass.run) \in Keys /\ row[Run(pass.run)].phase \in Complete
      /\ pass \in Passes
  BY <1>1, KeysAre, IdsAre DEF Inv, Deleting
<1>3. RowsSound' /\ Marks' /\ RowsGoOn
  <2>1. CASE AdvanceAllowed(row[Run(pass.run)].phase, "DELETED")
             /\ Advanced(Run(pass.run), "DELETED", Nothing)
    BY <1>1, <1>2, <2>1, DeletedKeeps DEF Inv
  <2>2. CASE UNCHANGED row
    BY <1>1, <2>2 DEF Inv, RowsSound, Sound, Marks, RowsGoOn
  <2>3. QED
    BY <2>1, <2>2 DEF RecordDeleted
<1>4. PICK new : Going(new) /\ (new = On \/ new = [On EXCEPT !.delete = {}])
  BY DEF RecordDeleted
<1>5. new \in Passes /\ new.pc = "apply"
  BY <1>2, <1>4 DEF On, Passes
<1>6. Deleting'
  BY <1>4, <1>5, GoingOn DEF Deleting
<1>7. Stores'
  BY <1>1 DEF Inv, Stores
<1>8. QED
  BY <1>1, <1>3, <1>6, <1>7, OthersKeep

LEMMA RetentionKeeps == ASSUME Inv, Retention PROVE Inv'
BY PlanKeeps, WithdrawIntentKeeps, RecheckKeeps, MarkKeeps, DeleteManifestKeeps,
   RecordDeletedKeeps DEF Retention

LEMMA OperatorKeeps == ASSUME Inv, Operator PROVE Inv'
<1>1. UNCHANGED <<row, repo, job, pass, whole, proved, removed, lost>> /\ held' \subseteq Runs
  BY DEF Operator, PlaceHold, ReleaseHold, history, Inv, Stores
<1>2. RowsSound' /\ Marks' /\ RowsGoOn
  BY <1>1 DEF Inv, RowsSound, Sound, Marks, RowsGoOn
<1>3. Deleting' /\ Stores'
  BY <1>1 DEF Inv, Deleting, Stores
<1>4. QED
  BY <1>1, <1>2, <1>3, OthersKeep

LEMMA SurroundingsKeep == ASSUME Inv, Surroundings PROVE Inv'
<1>1. CASE Crash
  <2>1. UNCHANGED <<row, held, repo, history>>
    BY <1>1 DEF Crash, catalogVars
  <2>2. CASE \E c \in Cycles : Stop(c) /\ UNCHANGED pass
    BY <2>1, <2>2, StopKeeps
  <2>3. CASE pass' = IdlePass /\ UNCHANGED job
    <3>1. RowsSound' /\ Marks' /\ RowsGoOn
      BY <2>1 DEF Inv, RowsSound, Sound, Marks, RowsGoOn, history
    <3>2. IdlePass \in Passes /\ IdlePass.pc = "idle"
      BY DEF IdlePass, Passes
    <3>3. Deleting' /\ Stores'
      BY <2>1, <2>3, <3>2 DEF Inv, Deleting, Stores, history
    <3>4. QED
      BY <2>1, <2>3, <3>1, <3>3, OthersKeep DEF history
  <2>4. QED
    BY <1>1, <2>2, <2>3 DEF Crash
<1>2. ASSUME NEW m \in Manifests, Lose(m) \/ PutForeign(m) PROVE Inv'
  <2>1. UNCHANGED <<row, held, job, pass, whole, proved, removed>>
    BY <1>2 DEF Lose, PutForeign, catalogVars, history
  <2>2. /\ repo' \subseteq Manifests /\ lost' \subseteq Manifests /\ repo' \cap Runs \subseteq repo
    BY <1>2, CatalogAssumption DEF Lose, PutForeign, history, Inv, Stores
  <2>3. RowsSound' /\ Marks' /\ RowsGoOn
    BY <2>1 DEF Inv, RowsSound, Sound, Marks, RowsGoOn
  <2>4. Deleting' /\ Stores'
    BY <2>1, <2>2 DEF Inv, Deleting, Stores
  <2>5. QED
    BY <2>1, <2>2, <2>3, <2>4, OthersKeep
<1>3. QED
  BY <1>1, <1>2 DEF Surroundings

-----------------------------------------------------------------------------
(* The types.                                                              *)

LEMMA InitInv == Init => Inv
<1> SUFFICES ASSUME Init PROVE Inv
  OBVIOUS
<1>1. /\ NoRow \in Rows /\ NoRow.phase = "none" /\ NoRow.id = NoId /\ NoRow.lkg = FALSE
      /\ NoRow.complete = "unknown" /\ NoRow.status = "none" /\ "none" \notin Phases
  BY PathIs DEF NoRow, Rows, Phases
<1>2. \A k \in Keys : row[k] = NoRow
  BY DEF Init, CatalogInit
<1>3. RowsSound
  <2>1. \A k \in Keys : Sound(k, row[k])
    BY <1>1, <1>2 DEF Sound, Named, Verified, Covered, Unattributed
  <2>2. QED
    BY <1>1, <2>1 DEF RowsSound, Init, CatalogInit
<1>4. Marks
  BY <1>1, <1>2 DEF Marks
<1>5. Jobs
  <2>1. ASSUME NEW c \in Cycles
        PROVE JobTyped(job[c]) /\ Remembers(job[c]) /\ Unwritten(job[c])
    <3>1. job[c] = IdleJob
      BY DEF Init
    <3>2. QED
      BY <1>1, <3>1, KeysAre DEF IdleJob, JobTyped, Remembers, Unwritten, Holding, Writing, Fields
  <2>2. QED
    BY <2>1 DEF Jobs, Init
<1>6. OneWriter
  BY DEF OneWriter, Init, IdleJob, Writing
<1>7. Deleting
  BY DEF Deleting, Init, IdlePass, Passes
<1>8. Stores
  BY DEF Stores, Init, CatalogInit
<1>9. QED
  BY <1>3, <1>4, <1>5, <1>6, <1>7, <1>8 DEF Inv

LEMMA CycleStepKeeps == ASSUME Inv, NEW c \in Cycles, CycleStep(c) PROVE Inv'
BY ListRepositoryKeeps, ReadOwnedKeeps, ReadUnfinishedKeeps, AbandonKeeps, AdoptKeeps,
   ReloadKeeps, TakeUpKeeps, CompleteCommitKeeps, ReadHistoryKeeps, ResolveFinishedKeeps,
   AttributeKeeps, BeginQuarantineKeeps, QuarantineKeeps, LookForRestorePointKeeps, RepointKeeps,
   BeginKeeps, ScanKeeps, OpenTreeKeeps, SnapshotTreeKeeps, RecordManifestKeeps,
   BeginVerificationKeeps, VerifyKeeps, RecordVerificationKeeps, CommitKeeps, Zenon
   DEF CycleStep, Reconcile, TakeSnapshot

LEMMA StutterKeeps == ASSUME Inv, UNCHANGED vars PROVE Inv'
<1>1. RowsSound' /\ Marks' /\ RowsGoOn
  BY DEF vars, catalogVars, history, Inv, RowsSound, Sound, Marks, RowsGoOn
<1>2. Deleting' /\ Stores'
  BY DEF vars, catalogVars, history, Inv, Deleting, Stores
<1>3. QED
  BY <1>1, <1>2, OthersKeep DEF vars, catalogVars, history

LEMMA NextKeeps == Inv /\ [Next]_vars => Inv'
BY CycleStepKeeps, RetentionKeeps, OperatorKeeps, SurroundingsKeep, StutterKeeps DEF Next

LEMMA InvTyped == Inv => TypeOK
<1> SUFFICES ASSUME Inv PROVE TypeOK
  OBVIOUS
<1>1. CatalogTypeOK
  BY DEF Inv, RowsSound, Sound, Stores, CatalogTypeOK, Named, Verified
<1>2. \A c \in Cycles : job[c].key \in Keys \cup {NoKey} /\ job[c].mem \in Rows
  BY JobIs
<1>3. pass.delete \subseteq Runs /\ pass.keep \subseteq Runs
  BY DEF Inv, Deleting, Passes
<1>4. QED
  BY <1>1, <1>2, <1>3 DEF TypeOK, Inv, Stores, history

\* The rows, the places of the cycles and of the retention pass, and the repository have
\* their types, and who is past the write of a manifest names one
\* (internal/state/snapshots.go), for any number of cycles.
THEOREM SnapshotTypes == Spec => []TypeOK
<1>1. Spec => []Inv
  BY InitInv, NextKeeps, PTL DEF Spec
<1>2. QED
  BY <1>1, InvTyped, PTL

-----------------------------------------------------------------------------
(* One cycle, retention beside it.                                         *)

\* A step of what is advertised, or none.
promised == <<repo, proved \cap whole, lost, Best>>
Refines == Promise!Next \/ UNCHANGED promised
Onward(c) == Kept' /\ Present(job[c])' /\ Refines

\* What is advertised is the one marked row, which was proved good.
BestKnown ==
  /\ BestKeys = {} => Best = NoId
  /\ \A k \in BestKeys : /\ BestKeys = {k} /\ Best = k[2] /\ row[k].phase = "SUCCESS"
                         /\ k \in Keys /\ k = Run(k[2]) /\ k[2] \in Runs
                         /\ k[2] \in Manifests /\ k[2] \in proved \cap whole

CompleteKnown ==
  \A k \in Keys : row[k].phase \in Complete =>
     k[2] \in proved /\ k[2] \in whole /\ k = Run(k[2]) /\ k[2] \in Runs

LEMMA Known == Inv => BestKnown /\ CompleteKnown
<1> SUFFICES ASSUME Inv PROVE BestKnown /\ CompleteKnown
  OBVIOUS
<1>1. BestKeys = {} => Best = NoId
  BY DEF Best
<1>2. ASSUME NEW k \in BestKeys
      PROVE  /\ BestKeys = {k} /\ Best = k[2] /\ row[k].phase = "SUCCESS"
             /\ k \in Keys /\ k = Run(k[2]) /\ k[2] \in Runs
             /\ k[2] \in Manifests /\ k[2] \in proved \cap whole
  <2>1. BestKeys = {k} /\ k \in Keys /\ row[k].phase = "SUCCESS"
    BY DEF BestKeys, Inv, Marks
  <2>2. k[2] \in proved /\ k[2] \in whole /\ k = Run(k[2]) /\ k[2] \in Runs /\ row[k].id = k[2]
    BY <2>1, CompleteProved DEF Complete
  <2>3. Best = k[2]
    <3>1. (CHOOSE j \in BestKeys : TRUE) = k
      BY <2>1
    <3>2. QED
      BY <2>1, <2>2, <3>1 DEF Best
  <2>4. QED
    BY <2>1, <2>2, <2>3, IdsAre
<1>3. BestKnown
  BY <1>1, <1>2 DEF BestKnown
<1>4. CompleteKnown
  BY CompleteProved DEF CompleteKnown
<1>5. QED
  BY <1>3, <1>4

LEMMA KnownAfter == Inv' => BestKnown' /\ CompleteKnown'
BY Known, PTL

\* The same mark, the same manifest.
LEMMA SameBest == Inv /\ Inv' /\ BestKeys' = BestKeys => Best' = Best
BY Known, KnownAfter DEF BestKnown

\* What keeps the promise when the mark stays where it is.
LEMMA KeptStays ==
  ASSUME Kept, lost \subseteq lost', BestKeys' = BestKeys, proved' \subseteq proved \cup repo',
         \A k \in Keys : /\ row[k].phase \in Complete => row'[k].phase \in Complete
                         /\ row'[k].phase = "SUCCESS" => row[k].phase = "SUCCESS",
         lost' = {} =>
           /\ \A r \in repo \ repo' : r \in Runs => row[Run(r)].phase \in Complete
                                                    /\ Run(r) \notin BestKeys
           /\ pass'.pc \in {"mark", "delete"} => Run(pass'.run) \in Keys \ BestKeys
           /\ \A c \in Cycles : job'[c].pc # "repoint",
         \A k \in BestKeys : k[2] \in Runs /\ k = Run(k[2])
  PROVE  Kept'
<1> SUFFICES ASSUME lost' = {}
             PROVE  /\ \A r \in Runs : r \in proved' /\ row'[Run(r)].phase \notin Complete
                                         => r \in repo'
                    /\ \A k \in Keys : row'[k].phase = "SUCCESS" => BestKeys' # {}
                    /\ \A k \in BestKeys' : k[2] \in repo'
                    /\ pass'.pc \in {"mark", "delete"} => ~row'[Run(pass'.run)].lkg
                    /\ \A c \in Cycles : job'[c].pc # "repoint"
  BY DEF Kept
<1>1. /\ \A r \in Runs : r \in proved /\ row[Run(r)].phase \notin Complete => r \in repo
      /\ \A k \in Keys : row[k].phase = "SUCCESS" => BestKeys # {}
      /\ \A k \in BestKeys : k[2] \in repo
  BY DEF Kept
<1>2. ASSUME NEW r \in Runs, r \in proved', row'[Run(r)].phase \notin Complete PROVE r \in repo'
  <2>1. Run(r) \in Keys
    BY KeysAre, IdsAre
  <2>2. QED
    BY <1>1, <1>2, <2>1
<1>3. \A k \in BestKeys' : k[2] \in repo'
  BY <1>1
<1>4. pass'.pc \in {"mark", "delete"} => ~row'[Run(pass'.run)].lkg
  <2>1. BestKeys = {k \in Keys : row'[k].lkg}
    BY DEF BestKeys
  <2>2. QED
    BY <2>1
<1>5. QED
  BY <1>1, <1>2, <1>3, <1>4

\* A step that leaves the rows and the repository alone.
LEMMA ReadStep ==
  ASSUME OneInv, Inv', UNCHANGED <<row, repo, pass, history>>,
         lost = {} => \A c \in Cycles : job'[c].pc # "repoint"
  PROVE  Kept' /\ Refines
<1>1. Inv /\ Kept /\ BestKeys' = BestKeys
  BY DEF OneInv, BestKeys
<1>2. /\ repo' = repo /\ pass' = pass /\ whole' = whole /\ proved' = proved /\ lost' = lost
  BY DEF history
<1>3. \A k \in BestKeys : k[2] \in Runs /\ k = Run(k[2])
  BY <1>1, Known DEF BestKnown
<1>4. lost' = {} => (pass'.pc \in {"mark", "delete"} => Run(pass'.run) \in Keys \ BestKeys)
  <2>1. pass.pc \in {"mark", "delete"} => Run(pass.run) \in Keys
    BY <1>1, KeysAre, IdsAre DEF Inv, Deleting
  <2>2. QED
    BY <1>1, <1>2, <2>1 DEF Kept, BestKeys
<1>5. Kept'
  BY <1>1, <1>2, <1>3, <1>4, KeptStays
<1>6. Refines
  BY <1>1, <1>2, SameBest DEF Refines, promised
<1>7. QED
  BY <1>5, <1>6

\* What a cycle read stays true when it goes on and nothing is stored.
LEMMA PresentStays ==
  ASSUME NEW c \in Cycles, Present(job[c]), StaysPut(c), repo' \cap Runs \subseteq repo
  PROVE  Present(job[c])'
<1>1. job'[c].pc # "idle" /\ job'[c].doing # "run" => repo' \cap Runs \subseteq job'[c].present
  BY DEF Present, StaysPut
<1>2. job'[c].pc \in Reading => job'[c].doing # "run"
  BY DEF Present, StaysPut, Reading
<1>3. job'[c].pc \in Writing => job'[c].doing = "run"
  BY DEF Present, StaysPut, Writing
<1>4. job'[c].pc = "finished"
        => \A k \in DOMAIN job'[c].list : job'[c].list[k].id \in Manifests \ job'[c].present
  BY DEF Present, StaysPut
<1>5. QED
  BY <1>1, <1>2, <1>3, <1>4 DEF Present

\* A step that only moves on.
LEMMA MovesOn ==
  ASSUME Inv, NEW c \in Cycles, NEW new, With(c, new), {"doing", "present"} \cap DOMAIN new = {},
         job[c].pc # "idle", "pc" \in DOMAIN new,
         new.pc \in Reading => job[c].pc \in Reading,
         new.pc \in Writing => job[c].pc \in Writing, new.pc # "finished"
  PROVE  StaysPut(c) /\ job'[c].pc = new.pc
BY Fields8 DEF StaysPut

LEMMA StopsThere ==
  ASSUME Inv, NEW c \in Cycles, Stop(c)
  PROVE  StaysPut(c) /\ job'[c].pc = "idle"
<1>1. job'[c].pc = "idle"
  BY DEF Stop, IdleJob, Inv, Jobs
<1>2. QED
  BY <1>1 DEF StaysPut, Reading, Writing

-----------------------------------------------------------------------------
(* The steps that move the mark.                                           *)

LEMMA RemarkStep ==
  ASSUME OneInv, Inv', UNCHANGED <<repo, history>>, NEW k \in Keys, NEW to,
         Remarks(k, to), AdvanceAllowed(row[k].phase, to),
         to \in {"LOST", "DELETED"} => k[2] \notin repo,
         pass'.pc \in {"mark", "delete"} => pass' = pass,
         lost = {} => \A c \in Cycles : job'[c].pc # "repoint"
  PROVE  Kept' /\ Refines
<1>1. /\ repo' = repo /\ whole' = whole /\ proved' = proved /\ lost' = lost
      /\ Inv /\ Kept /\ BestKnown /\ CompleteKnown /\ BestKnown' /\ CompleteKnown'
  BY Known, KnownAfter DEF history, OneInv
<1>2. row'[k].phase = to /\ \A j \in Keys \ {k} : row'[j].phase = row[j].phase
  BY DEF Remarks
<1>3. pass.pc \in {"mark", "delete"} =>
        /\ Run(pass.run) \in Keys /\ row[Run(pass.run)].phase \in Complete
        /\ lost = {} => Run(pass.run) \notin BestKeys
  BY <1>1, KeysAre, IdsAre DEF Inv, Deleting, Kept, BestKeys
<1>4. \A j \in BestKeys : j[2] \in Runs /\ j = Run(j[2])
  BY <1>1 DEF BestKnown
<1>5. CASE row[k].phase # to /\ to = "SUCCESS"
  <2>1. BestKeys' = {k} /\ row[k].phase \notin Complete
    BY <1>5, JournalAllows, PathIs DEF Remarks, Unfinished, Complete
  <2>2. k[2] \in proved /\ k[2] \in whole /\ k = Run(k[2]) /\ k[2] \in Runs
    BY <1>1, <1>2, <1>5 DEF CompleteKnown, Complete
  <2>3. Kept'
    <3>1. SUFFICES ASSUME lost = {}
                   PROVE  /\ \A r \in Runs : r \in proved /\ row'[Run(r)].phase \notin Complete
                                               => r \in repo
                          /\ \A j \in Keys : row'[j].phase = "SUCCESS" => BestKeys' # {}
                          /\ \A j \in BestKeys' : j[2] \in repo
                          /\ pass'.pc \in {"mark", "delete"} => ~row'[Run(pass'.run)].lkg
                          /\ \A c \in Cycles : job'[c].pc # "repoint"
      BY <1>1 DEF Kept
    <3>2. \A r \in Runs : r \in proved /\ row[Run(r)].phase \notin Complete => r \in repo
      BY <1>1, <3>1 DEF Kept
    <3>3. ASSUME NEW r \in Runs, r \in proved, row'[Run(r)].phase \notin Complete PROVE r \in repo
      <4>1. Run(r) \in Keys
        BY KeysAre, IdsAre
      <4>2. row[Run(r)].phase \notin Complete
        BY <1>2, <1>5, <3>3, <4>1 DEF Complete
      <4>3. QED
        BY <3>2, <3>3, <4>2
    <3>4. \A j \in BestKeys' : j[2] \in repo
      BY <2>1, <2>2, <3>2
    <3>5. pass'.pc \in {"mark", "delete"} => ~row'[Run(pass'.run)].lkg
      <4>1. BestKeys' = {j \in Keys : row'[j].lkg}
        BY DEF BestKeys
      <4>2. QED
        BY <1>3, <2>1, <4>1
    <3>6. QED
      BY <2>1, <3>1, <3>3, <3>4, <3>5
  <2>4. Best' = k[2] /\ k[2] \in Manifests
    BY <1>1, <2>1 DEF BestKnown
  <2>5. Promise!Advertise(k[2])
    BY <1>1, <2>2, <2>4 DEF Promise!Advertise
  <2>6. QED
    BY <2>3, <2>4, <2>5 DEF Refines, Promise!Next
<1>6. CASE BestKeys' = BestKeys
  <2>1. \A j \in Keys : /\ row[j].phase \in Complete => row'[j].phase \in Complete
                        /\ row'[j].phase = "SUCCESS" => row[j].phase = "SUCCESS"
    <3>1. row[k].phase # to => to # "SUCCESS" \/ BestKeys = {k}
      BY <1>6 DEF Remarks
    <3>2. BestKeys = {k} => row[k].phase = "SUCCESS"
      BY <1>1 DEF BestKnown
    <3>3. row[k].phase \in Complete => to \in Complete
      BY JournalAllows
    <3>4. QED
      BY <1>2, <3>1, <3>2, <3>3
  <2>2. lost' = {} => (pass'.pc \in {"mark", "delete"} => Run(pass'.run) \in Keys \ BestKeys)
    BY <1>1, <1>3
  <2>3. Kept'
    BY <1>1, <1>4, <1>6, <2>1, <2>2, KeptStays
  <2>4. Refines
    BY <1>1, <1>6, SameBest DEF Refines, promised
  <2>5. QED
    BY <2>3, <2>4
<1>7. CASE row[k].phase # to /\ to \in {"LOST", "DELETED"} /\ k \in BestKeys
  <2>1. BestKeys = {k} /\ Best = k[2] /\ BestKeys' = {}
    BY <1>1, <1>7 DEF Remarks, BestKnown
  <2>2. Best' = NoId /\ Best \notin repo
    BY <1>1, <1>7, <2>1 DEF BestKnown
  <2>3. Promise!Withdraw
    BY <1>1, <2>2 DEF Promise!Withdraw
  <2>4. Kept'
    <3>1. lost # {}
      BY <1>1, <1>7 DEF Kept
    <3>2. QED
      BY <1>1, <3>1 DEF Kept
  <2>5. QED
    BY <2>3, <2>4 DEF Refines, Promise!Next
<1>8. BestKeys' = BestKeys \/ (row[k].phase # to /\ to = "SUCCESS")
      \/ (row[k].phase # to /\ to \in {"LOST", "DELETED"} /\ k \in BestKeys)
  BY DEF Remarks
<1>9. QED
  BY <1>5, <1>6, <1>7, <1>8

LEMMA WroteOn ==
  ASSUME NEW c, Cycles = {c}, OneInv, Inv' /\ Wrote(c)
  PROVE  Onward(c)
<1>1. UNCHANGED <<repo, pass, history>> /\ StaysPut(c) /\ job'[c].pc # "repoint"
  BY DEF Wrote
<1>2. Present(job[c])'
  BY <1>1, PresentStays DEF OneInv
<1>3. CASE UNCHANGED row
  BY <1>1, <1>2, <1>3, ReadStep DEF Onward
<1>4. ASSUME NEW k \in Keys, NEW to \in Phases, Remarks(k, to), AdvanceAllowed(row[k].phase, to),
             to \in {"LOST", "DELETED"} => job[c].pc = "finished" /\ k \in job[c].todo
      PROVE  Onward(c)
  <2>1. to \in {"LOST", "DELETED"} => k[2] \notin repo
    <3>1. SUFFICES ASSUME to \in {"LOST", "DELETED"} PROVE k[2] \notin repo
      OBVIOUS
    <3>2. job[c].pc = "finished" /\ k \in job[c].todo /\ Inv /\ Present(job[c])
      BY <1>4, <3>1 DEF OneInv
    <3>3. k[2] \in Runs
      BY <1>4, <3>1, <3>2, JournalAllows, CompleteProved
    <3>4. k \in DOMAIN job[c].list /\ Sound(k, job[c].list[k])
      BY <3>2, JobIs, FromList
    <3>5. job[c].list[k].id \in Manifests \ job[c].present
      BY <3>2, <3>4 DEF Present
    <3>6. job[c].list[k].id = k[2]
      BY <3>4, <3>5, IdsAre DEF Sound
    <3>7. repo \cap Runs \subseteq job[c].present
      BY <3>2 DEF Present, Reading
    <3>8. QED
      BY <3>3, <3>5, <3>6, <3>7
  <2>2. Kept' /\ Refines
    BY <1>1, <1>4, <2>1, RemarkStep
  <2>3. QED
    BY <1>2, <2>2 DEF Onward
<1>5. QED
  BY <1>3, <1>4 DEF Wrote

\* A cycle that reads and goes on.
LEMMA ReadsOn ==
  ASSUME NEW c, Cycles = {c}, OneInv, Inv', UNCHANGED <<row, Elsewhere>>, StaysPut(c),
         lost = {} => job'[c].pc # "repoint"
  PROVE  Onward(c)
<1>1. UNCHANGED <<row, repo, pass, history>>
  BY DEF Elsewhere
<1>2. Present(job[c])'
  BY <1>1, PresentStays DEF OneInv
<1>3. QED
  BY <1>1, <1>2, ReadStep DEF Onward

LEMMA ListRepositoryOn ==
  ASSUME NEW c, Cycles = {c}, OneInv, Inv', ListRepository(c) PROVE Onward(c)
<1>1. UNCHANGED <<row, repo, pass, history>> /\ Inv
  BY DEF ListRepository, Elsewhere, OneInv
<1>2. PICK new : new = [pc |-> "owned", doing |-> "reconcile", present |-> repo]
  OBVIOUS
<1>3. With(c, new)
  BY <1>2 DEF ListRepository
<1>4. job'[c].pc = "owned" /\ job'[c].doing = "reconcile" /\ job'[c].present = repo
  BY <1>1, <1>2, <1>3, Fields8
<1>5. Present(job[c])'
  BY <1>1, <1>4 DEF Present, Reading, Writing
<1>6. QED
  BY <1>1, <1>4, <1>5, ReadStep DEF Onward

LEMMA ReadOwnedOn ==
  ASSUME NEW c, Cycles = {c}, OneInv, Inv', ReadOwned(c) PROVE Onward(c)
<1>1. PICK new : new = [pc |-> "worklist",
                        owned |-> {claim \in Manifests \X Keys : Claims(claim[2], claim[1])}]
  OBVIOUS
<1>2. With(c, new) /\ UNCHANGED <<row, Elsewhere>> /\ job[c].pc = "owned" /\ Inv
  BY <1>1 DEF ReadOwned, At, OneInv
<1>3. StaysPut(c) /\ job'[c].pc = "worklist"
  BY <1>1, <1>2, MovesOn DEF Reading, Writing
<1>4. QED
  BY <1>2, <1>3, ReadsOn

LEMMA ReadUnfinishedOn ==
  ASSUME NEW c, Cycles = {c}, OneInv, Inv', ReadUnfinished(c) PROVE Onward(c)
<1>1. PICK new : new = [pc |-> "unfinished", list |-> [k \in UnfinishedKeys |-> row[k]],
                        todo |-> UnfinishedKeys]
  OBVIOUS
<1>2. With(c, new) /\ UNCHANGED <<row, Elsewhere>> /\ job[c].pc = "worklist" /\ Inv
  BY <1>1 DEF ReadUnfinished, At, OneInv
<1>3. StaysPut(c) /\ job'[c].pc = "unfinished"
  BY <1>1, <1>2, MovesOn DEF Reading, Writing
<1>4. QED
  BY <1>2, <1>3, ReadsOn

LEMMA ReloadOn ==
  ASSUME NEW c, Cycles = {c}, OneInv, Inv', Reload(c) PROVE Onward(c)
<1>1. PICK new : new = [pc |-> "unverified", mem |-> row[job[c].key]]
  OBVIOUS
<1>2. With(c, new) /\ UNCHANGED <<row, Elsewhere>> /\ job[c].pc = "reload" /\ Inv
  BY <1>1 DEF Reload, At, OneInv
<1>3. StaysPut(c) /\ job'[c].pc = "unverified"
  BY <1>1, <1>2, MovesOn DEF Reading, Writing
<1>4. QED
  BY <1>2, <1>3, ReadsOn

LEMMA TakeUpOn ==
  ASSUME NEW c, Cycles = {c}, OneInv, Inv', TakeUp(c) PROVE Onward(c)
<1>1. PICK new :
        /\ With(c, new) /\ DOMAIN new = {"pc", "key", "mem", "todo"}
        /\ new.pc \in {"complete", "unverified"}
  <2>1. PICK k \in job[c].todo :
          With(c, [pc |-> IF job[c].list[k].phase = "CATALOG_COMMIT" THEN "complete"
                          ELSE "unverified",
                   key |-> k, mem |-> job[c].list[k], todo |-> job[c].todo \ {k}])
    BY DEF TakeUp
  <2>2. QED
    BY <2>1
<1>2. UNCHANGED <<row, Elsewhere>> /\ job[c].pc = "unfinished" /\ Inv
  BY DEF TakeUp, At, OneInv
<1>3. StaysPut(c) /\ job'[c].pc \in {"complete", "unverified"}
  BY <1>1, <1>2, MovesOn DEF Reading, Writing
<1>4. QED
  BY <1>2, <1>3, ReadsOn

LEMMA ReadHistoryOn ==
  ASSUME NEW c, Cycles = {c}, OneInv, Inv', ReadHistory(c) PROVE Onward(c)
<1>1. UNCHANGED <<row, repo, pass, history>> /\ job[c].pc = "unfinished" /\ Inv /\ Present(job[c])
  BY DEF ReadHistory, Elsewhere, At, OneInv
<1>2. PICK S : S = {k \in Keys : Overdue(c, k)}
  OBVIOUS
<1>3. PICK new : new = [pc |-> "finished", list |-> [k \in S |-> row[k]], todo |-> S]
  OBVIOUS
<1>4. With(c, new)
  BY <1>2, <1>3 DEF ReadHistory
<1>5. /\ job'[c].pc = "finished" /\ job'[c].doing = job[c].doing
      /\ job'[c].present = job[c].present /\ job'[c].list = [k \in S |-> row[k]]
  BY <1>1, <1>3, <1>4, Fields8
<1>6. \A k \in S : row[k].id \in Manifests \ job[c].present
  BY <1>2 DEF Overdue
<1>7. job[c].doing # "run" /\ repo \cap Runs \subseteq job[c].present
  BY <1>1 DEF Present, Reading
<1>8. Present(job[c])'
  BY <1>1, <1>5, <1>6, <1>7 DEF Present, Writing
<1>9. QED
  BY <1>1, <1>5, <1>8, ReadStep DEF Onward

LEMMA AttributeOn ==
  ASSUME NEW c, Cycles = {c}, OneInv, Inv', Attribute(c) PROVE Onward(c)
<1>1. PICK new : /\ With(c, new) /\ DOMAIN new = {"pc", "list", "todo"}
                 /\ new.pc = "attribute"
  BY DEF Attribute
<1>2. UNCHANGED <<row, Elsewhere>> /\ job[c].pc = "finished" /\ Inv
  BY DEF Attribute, At, OneInv
<1>3. StaysPut(c) /\ job'[c].pc = "attribute"
  BY <1>1, <1>2, MovesOn DEF Reading, Writing
<1>4. QED
  BY <1>2, <1>3, ReadsOn

\* A row is begun, without a mark.
LEMMA BegunStep ==
  ASSUME OneInv, Inv', UNCHANGED <<repo, pass, history>>, NEW k \in Keys, row[k] = NoRow,
         Begun(k), \A c \in Cycles : job'[c].pc # "repoint"
  PROVE  Kept' /\ Refines
<1>1. /\ repo' = repo /\ pass' = pass /\ whole' = whole /\ proved' = proved /\ lost' = lost
      /\ Inv /\ Kept /\ BestKnown
  BY Known DEF history, OneInv
<1>2. /\ row[k].phase = "none" /\ row[k].lkg = FALSE
      /\ row'[k].phase = "PENDING" /\ row'[k].lkg = FALSE
      /\ \A j \in Keys \ {k} : row'[j] = row[j]
  BY <1>1 DEF Begun, NoRow, Inv, RowsSound
<1>3. BestKeys' = BestKeys
  BY <1>2 DEF BestKeys
<1>4. \A j \in Keys : /\ row[j].phase \in Complete => row'[j].phase \in Complete
                      /\ row'[j].phase = "SUCCESS" => row[j].phase = "SUCCESS"
  BY <1>2 DEF Complete
<1>5. lost' = {} => (pass'.pc \in {"mark", "delete"} => Run(pass'.run) \in Keys \ BestKeys)
  BY <1>1, KeysAre, IdsAre DEF Inv, Deleting, Kept, BestKeys
<1>6. \A j \in BestKeys : j[2] \in Runs /\ j = Run(j[2])
  BY <1>1 DEF BestKnown
<1>7. Kept'
  BY <1>1, <1>3, <1>4, <1>5, <1>6, KeptStays
<1>8. QED
  BY <1>1, <1>3, <1>7, SameBest DEF Refines, promised

LEMMA BeginQuarantineOn ==
  ASSUME NEW c, Cycles = {c}, OneInv, Inv', BeginQuarantine(c) PROVE Onward(c)
<1>1. UNCHANGED <<repo, pass, history>> /\ UNCHANGED Elsewhere /\ job[c].pc = "attribute" /\ Inv
  BY DEF BeginQuarantine, Elsewhere, At, OneInv
<1>2. PICK k \in job[c].todo :
        \/ /\ row[k] = NoRow
           /\ Begun(k)
           /\ With(c, [pc |-> "quarantine", key |-> k, mem |-> [NoRow EXCEPT !.phase = "PENDING"],
                       todo |-> job[c].todo \ {k}])
        \/ /\ row[k] # NoRow
           /\ With(c, [todo |-> job[c].todo \ {k}]) /\ UNCHANGED row
  BY DEF BeginQuarantine
<1>3. CASE /\ row[k] = NoRow /\ Begun(k)
           /\ With(c, [pc |-> "quarantine", key |-> k, mem |-> [NoRow EXCEPT !.phase = "PENDING"],
                       todo |-> job[c].todo \ {k}])
  <2>1. PICK new : /\ With(c, new) /\ DOMAIN new = {"pc", "key", "mem", "todo"}
                   /\ new.pc = "quarantine"
    BY <1>3
  <2>2. StaysPut(c) /\ job'[c].pc = "quarantine"
    BY <1>1, <2>1, MovesOn DEF Reading, Writing
  <2>3. Present(job[c])'
    BY <1>1, <2>2, PresentStays DEF OneInv
  <2>4. k \in Keys
    BY <1>1, JobIs
  <2>5. Kept' /\ Refines
    BY <1>1, <1>3, <2>2, <2>4, BegunStep
  <2>6. QED
    BY <2>3, <2>5 DEF Onward
<1>4. CASE With(c, [todo |-> job[c].todo \ {k}]) /\ UNCHANGED row
  <2>1. PICK new : With(c, new) /\ DOMAIN new = {"todo"}
    BY <1>4
  <2>2. StaysPut(c) /\ job'[c].pc = "attribute"
    BY <1>1, <2>1, Fields8 DEF StaysPut, Reading, Writing
  <2>3. QED
    BY <1>1, <1>4, <2>2, ReadsOn
<1>5. QED
  BY <1>2, <1>3, <1>4

LEMMA LookForRestorePointOn ==
  ASSUME NEW c, Cycles = {c}, OneInv, Inv', LookForRestorePoint(c) PROVE Onward(c)
<1>1. UNCHANGED <<row, Elsewhere>> /\ job[c].pc = "attribute" /\ Inv /\ Kept
  BY DEF LookForRestorePoint, At, OneInv
<1>2. PICK new : /\ With(c, new) /\ DOMAIN new \subseteq {"pc", "key"} /\ "pc" \in DOMAIN new
                 /\ \/ new.pc = "begin"
                    \/ new.pc = "repoint" /\ BestKeys = {} /\ Restorables(c) # {}
  BY DEF LookForRestorePoint
<1>3. StaysPut(c) /\ job'[c].pc = new.pc
  BY <1>1, <1>2, MovesOn DEF Reading, Writing
<1>4. BestKeys = {} /\ Restorables(c) # {} => lost # {}
  BY <1>1, KeysAre, IdsAre DEF Kept, Restorables
<1>5. QED
  BY <1>1, <1>2, <1>3, <1>4, ReadsOn

LEMMA RepointOn ==
  ASSUME NEW c, Cycles = {c}, OneInv, Inv', Repoint(c) PROVE Onward(c)
<1>1. /\ UNCHANGED <<repo, pass, history>> /\ UNCHANGED Elsewhere /\ job[c].pc = "repoint"
      /\ Inv /\ Kept /\ BestKnown' /\ CompleteKnown
  BY Known, KnownAfter DEF Repoint, Elsewhere, At, OneInv
<1>2. CASE UNCHANGED row /\ Stop(c)
  BY <1>1, <1>2, StopsThere, ReadsOn
<1>3. CASE MayRepoint(job[c].key) /\ Repointed(job[c].key) /\ With(c, [pc |-> "begin"])
  <2>1. PICK new : With(c, new) /\ DOMAIN new = {"pc"} /\ new.pc = "begin"
    BY <1>3
  <2>2. StaysPut(c) /\ job'[c].pc = "begin"
    BY <1>1, <2>1, MovesOn DEF Reading, Writing
  <2>3. Present(job[c])'
    BY <1>1, <2>2, PresentStays DEF OneInv
  <2>4. PICK k \in Keys : k = job[c].key
    BY <1>1, InHand DEF Holding
  <2>5. k[2] \in proved /\ k[2] \in whole
    BY <1>1, <1>3, <2>4 DEF CompleteKnown, MayRepoint, Complete
  <2>6. k \in BestKeys'
    <3>1. row'[k] = [row[k] EXCEPT !.lkg = (k = k)] /\ row[k] \in Rows
      BY <1>1, <1>3, <2>4 DEF Repointed, Inv, RowsSound
    <3>2. row'[k].lkg
      BY <3>1 DEF Rows
    <3>3. QED
      BY <3>2 DEF BestKeys
  <2>7. Best' = k[2] /\ k[2] \in Manifests
    BY <1>1, <2>6 DEF BestKnown
  <2>8. /\ repo' = repo /\ whole' = whole /\ proved' = proved /\ lost' = lost
    BY <1>1 DEF history
  <2>9. Promise!Advertise(k[2])
    BY <2>5, <2>7, <2>8 DEF Promise!Advertise
  <2>10. Kept'
    BY <1>1, <2>8 DEF Kept
  <2>11. QED
    BY <2>3, <2>7, <2>9, <2>10 DEF Onward, Refines, Promise!Next
<1>4. QED
  BY <1>2, <1>3 DEF Repoint

LEMMA BeginOn ==
  ASSUME NEW c, Cycles = {c}, OneInv, Inv', Begin(c) PROVE Onward(c)
<1>1. UNCHANGED <<repo, pass, history>> /\ UNCHANGED Elsewhere /\ Inv
  BY DEF Begin, Elsewhere, OneInv
<1>2. CASE UNCHANGED row /\ Stop(c)
  BY <1>1, <1>2, StopsThere, ReadsOn
<1>3. CASE /\ Unstarted # {}
           /\ LET r == CHOOSE s \in Unstarted : \A other \in Unstarted : s <= other IN
              /\ Begun(Run(r))
              /\ job' = [job EXCEPT ![c] = [IdleJob EXCEPT !.pc = "scan", !.doing = "run",
                                              !.key = Run(r), !.mem.phase = "PENDING"]]
  <2>1. PICK r \in Unstarted :
          /\ Begun(Run(r))
          /\ job' = [job EXCEPT ![c] = [IdleJob EXCEPT !.pc = "scan", !.doing = "run",
                                          !.key = Run(r), !.mem.phase = "PENDING"]]
    BY <1>3, OldestIs DEF Unstarted
  <2>2. Run(r) \in Keys /\ row[Run(r)] = NoRow
    BY KeysAre, IdsAre DEF Unstarted
  <2>3. job'[c].pc = "scan" /\ job'[c].doing = "run"
    BY <1>1, <2>1 DEF Inv, Jobs, IdleJob
  <2>4. Present(job[c])'
    BY <2>3 DEF Present, Reading
  <2>5. Kept' /\ Refines
    BY <1>1, <2>1, <2>2, <2>3, BegunStep
  <2>6. QED
    BY <2>4, <2>5 DEF Onward
<1>4. QED
  BY <1>2, <1>3 DEF Begin

LEMMA VerifyOn ==
  ASSUME NEW c, Cycles = {c}, OneInv, Inv', Verify(c) PROVE Onward(c)
<1>1. /\ UNCHANGED <<row, repo, pass>> /\ whole' = whole /\ removed' = removed /\ lost' = lost
      /\ job[c].pc = "verify" /\ Inv /\ Kept /\ BestKnown
  BY Known DEF Verify, catalogVars, At, OneInv
<1>2. PICK new : /\ With(c, new) /\ DOMAIN new = {"pc"} /\ new.pc \in {"sound", "unsound"}
                 /\ \/ UNCHANGED proved
                    \/ job[c].mem.id \in repo /\ proved' = proved \cup {job[c].mem.id}
  BY DEF Verify
<1>3. StaysPut(c) /\ job'[c].pc = new.pc
  BY <1>1, <1>2, MovesOn DEF Reading, Writing
<1>4. Present(job[c])'
  BY <1>1, <1>3, PresentStays DEF OneInv
<1>5. BestKeys' = BestKeys
  BY <1>1 DEF BestKeys
<1>6. Best' = Best
  BY <1>1, <1>5, SameBest
<1>7. \A k \in BestKeys : k[2] \in Runs /\ k = Run(k[2])
  BY <1>1 DEF BestKnown
<1>8. lost' = {} => (pass'.pc \in {"mark", "delete"} => Run(pass'.run) \in Keys \ BestKeys)
  BY <1>1, KeysAre, IdsAre DEF Inv, Deleting, Kept, BestKeys
<1>9. proved' \subseteq proved \cup repo' /\ job'[c].pc # "repoint"
  BY <1>1, <1>2, <1>3
<1>10. Kept'
  BY <1>1, <1>5, <1>7, <1>8, <1>9, KeptStays
<1>11. Refines
  <2>1. CASE proved' \cap whole' = proved \cap whole
    BY <1>1, <1>6, <2>1 DEF Refines, promised
  <2>2. CASE proved' \cap whole' # proved \cap whole
    <3>1. PICK m : m = job[c].mem.id
      OBVIOUS
    <3>2. m \in repo /\ proved' \cap whole' = (proved \cap whole) \cup {m}
      BY <1>1, <1>2, <2>2, <3>1
    <3>3. m \in Manifests
      BY <1>1, <3>2 DEF Inv, Stores
    <3>4. Promise!Prove(m)
      BY <1>1, <1>6, <3>2 DEF Promise!Prove
    <3>5. QED
      BY <3>3, <3>4 DEF Refines, Promise!Next
  <2>3. QED
    BY <2>1, <2>2
<1>12. QED
  BY <1>4, <1>10, <1>11 DEF Onward

LEMMA SnapshotTreeOn ==
  ASSUME NEW c, Cycles = {c}, OneInv, Inv', SnapshotTree(c) PROVE Onward(c)
<1>1. /\ UNCHANGED <<row, pass>> /\ proved' = proved /\ removed' = removed /\ lost' = lost
      /\ job[c].pc = "write" /\ Inv /\ Kept /\ BestKnown
  BY Known DEF SnapshotTree, catalogVars, At, OneInv
<1>2. PICK m : m = job[c].key[2]
  OBVIOUS
<1>3. m \in Runs /\ m \in Manifests /\ m \notin proved
  BY <1>1, <1>2, IdsAre DEF Inv, Jobs, Unwritten, Writing
<1>4. PICK new :
        /\ With(c, new) /\ DOMAIN new \subseteq {"pc", "mem"} /\ "pc" \in DOMAIN new
        /\ new.pc \in {"record", "failed"}
        /\ \/ UNCHANGED <<repo, whole>>
           \/ repo' = repo \cup {m} /\ whole' \in {whole, whole \cup {m}}
  BY <1>2 DEF SnapshotTree
<1>5. StaysPut(c) /\ job'[c].pc = new.pc
  BY <1>1, <1>4, MovesOn DEF Reading, Writing
<1>6. job[c].doing = "run"
  BY <1>1 DEF OneInv, Present, Writing
<1>7. Present(job[c])'
  BY <1>1, <1>4, <1>5, <1>6 DEF StaysPut, Present, Reading, Writing
<1>8. BestKeys' = BestKeys
  BY <1>1 DEF BestKeys
<1>9. Best' = Best
  BY <1>1, <1>8, SameBest
<1>10. \A k \in BestKeys : k[2] \in Runs /\ k = Run(k[2])
  BY <1>1 DEF BestKnown
<1>11. lost' = {} => (pass'.pc \in {"mark", "delete"} => Run(pass'.run) \in Keys \ BestKeys)
  BY <1>1, KeysAre, IdsAre DEF Inv, Deleting, Kept, BestKeys
<1>12. repo \subseteq repo' /\ job'[c].pc # "repoint"
  BY <1>4, <1>5
<1>13. Kept'
  BY <1>1, <1>8, <1>10, <1>11, <1>12, KeptStays
<1>14. proved' \cap whole' = proved \cap whole
  BY <1>1, <1>3, <1>4
<1>15. CASE UNCHANGED repo
  BY <1>1, <1>7, <1>9, <1>13, <1>14, <1>15 DEF Onward, Refines, promised
<1>16. CASE repo' = repo \cup {m}
  <2>1. Promise!Store(m)
    BY <1>1, <1>9, <1>14, <1>16 DEF Promise!Store
  <2>2. QED
    BY <1>3, <1>7, <1>13, <2>1 DEF Onward, Refines, Promise!Next
<1>17. QED
  BY <1>4, <1>15, <1>16

LEMMA CycleStepOn ==
  ASSUME NEW c, Cycles = {c}, OneInv, Inv', CycleStep(c) PROVE Onward(c)
<1>1. Inv /\ c \in Cycles
  BY DEF OneInv
<1>2. CASE \/ Abandon(c) \/ Adopt(c) \/ CompleteCommit(c) \/ ResolveFinished(c) \/ Quarantine(c)
           \/ Scan(c) \/ OpenTree(c) \/ RecordManifest(c)
           \/ BeginVerification(c) \/ RecordVerification(c) \/ Commit(c)
  <2>1. Wrote(c)
    BY <1>1, <1>2, AbandonKeeps, AdoptKeeps, CompleteCommitKeeps, ResolveFinishedKeeps,
       QuarantineKeeps, ScanKeeps, OpenTreeKeeps, RecordManifestKeeps, BeginVerificationKeeps,
       RecordVerificationKeeps, CommitKeeps, Zenon
  <2>2. QED
    BY <2>1, WroteOn
<1>3. CASE \/ ListRepository(c) \/ ReadOwned(c) \/ ReadUnfinished(c) \/ Reload(c) \/ TakeUp(c)
           \/ ReadHistory(c) \/ Attribute(c) \/ BeginQuarantine(c) \/ LookForRestorePoint(c)
           \/ Repoint(c) \/ Begin(c) \/ SnapshotTree(c) \/ Verify(c)
  BY <1>3, ListRepositoryOn, ReadOwnedOn, ReadUnfinishedOn, ReloadOn, TakeUpOn, ReadHistoryOn,
     AttributeOn, BeginQuarantineOn, LookForRestorePointOn, RepointOn, BeginOn, SnapshotTreeOn,
     VerifyOn, Zenon
<1>4. QED
  BY <1>2, <1>3, Zenon DEF CycleStep, Reconcile, TakeSnapshot

-----------------------------------------------------------------------------
(* The steps beside the cycle.                                             *)

LEMMA PresentBeside ==
  ASSUME NEW c \in Cycles, Present(job[c]), UNCHANGED job, repo' \cap Runs \subseteq repo
  PROVE  Present(job[c])'
<1>1. StaysPut(c)
  BY DEF StaysPut
<1>2. QED
  BY <1>1, PresentStays

\* A step of the pass, or of somebody else, that leaves marks and phases alone.
LEMMA BesideStep ==
  ASSUME NEW c, Cycles = {c}, OneInv, Inv', UNCHANGED <<repo, history, job>>,
         \A k \in Keys : row'[k].phase = row[k].phase /\ row'[k].lkg = row[k].lkg,
         lost = {} => (pass'.pc \in {"mark", "delete"} => Run(pass'.run) \in Keys \ BestKeys)
  PROVE  Onward(c)
<1>1. /\ repo' = repo /\ whole' = whole /\ proved' = proved /\ lost' = lost
      /\ Inv /\ Kept /\ BestKnown /\ Present(job[c])
  BY Known DEF history, OneInv
<1>2. BestKeys' = BestKeys
  BY DEF BestKeys
<1>3. \A k \in BestKeys : k[2] \in Runs /\ k = Run(k[2])
  BY <1>1 DEF BestKnown
<1>4. lost' = {} => \A d \in Cycles : job'[d].pc # "repoint"
  BY <1>1 DEF Kept
<1>5. Kept'
  BY <1>1, <1>2, <1>3, <1>4, KeptStays
<1>6. Refines
  BY <1>1, <1>2, SameBest DEF Refines, promised
<1>7. Present(job[c])'
  BY <1>1, PresentBeside
<1>8. QED
  BY <1>5, <1>6, <1>7 DEF Onward

\* What a pass has in hand to remove is not what is advertised.
LEMMA InHandUnmarked ==
  ASSUME OneInv, lost = {}, pass.pc \in {"mark", "delete"}
  PROVE  Run(pass.run) \in Keys \ BestKeys
BY KeysAre, IdsAre DEF OneInv, Inv, Deleting, Kept, BestKeys

LEMMA GoingIs ==
  ASSUME NEW new, Going(new), new.pc = "apply" PROVE pass'.pc \in {"idle", "apply"}
BY DEF Going, IdlePass

LEMMA PlanOn == ASSUME NEW c, Cycles = {c}, OneInv, Inv', Plan PROVE Onward(c)
<1>1. UNCHANGED <<row, repo, history, job>>
  BY DEF Plan, BesidePass, history
<1>2. PICK new : Going(new) /\ new.pc = "apply"
  BY DEF Plan
<1>3. pass'.pc \in {"idle", "apply"}
  BY <1>2, GoingIs
<1>4. QED
  BY <1>1, <1>3, BesideStep

LEMMA WithdrawIntentOn ==
  ASSUME NEW c, Cycles = {c}, OneInv, Inv', NEW r \in Runs, WithdrawIntent(r) PROVE Onward(c)
<1>1. UNCHANGED <<repo, history, job>> /\ RowsSound /\ Marks /\ Run(r) \in Keys
      /\ UNCHANGED <<whole, proved>> /\ pass \in Passes
  BY KeysAre, IdsAre DEF WithdrawIntent, BesidePass, history, OneInv, Inv, Deleting
<1>2. \A k \in Keys : row'[k].phase = row[k].phase /\ row'[k].lkg = row[k].lkg
  <2>1. CASE row' = [row EXCEPT ![Run(r)].intent = FALSE]
    BY <1>1, <2>1, IntentKeeps
  <2>2. CASE UNCHANGED row
    BY <2>2
  <2>3. QED
    BY <2>1, <2>2 DEF WithdrawIntent, Cleared
<1>3. PICK new : new = [pass EXCEPT !.keep = @ \ {r}]
  OBVIOUS
<1>4. Going(new) /\ new.pc = "apply"
  BY <1>1, <1>3 DEF WithdrawIntent, Turn, Passes
<1>5. pass'.pc \in {"idle", "apply"}
  BY <1>4, GoingIs
<1>6. QED
  BY <1>1, <1>2, <1>5, BesideStep

LEMMA RecheckOn ==
  ASSUME NEW c, Cycles = {c}, Protect, OneInv, Inv', NEW r \in Runs, Recheck(r) PROVE Onward(c)
<1>1. UNCHANGED <<row, repo, history, job>> /\ pass.pc = "apply" /\ pass \in Passes
  BY DEF Recheck, BesidePass, Turn, history, OneInv, Inv, Deleting
<1>2. CASE \/ Going([pass EXCEPT !.delete = {}])
           \/ Going([pass EXCEPT !.delete = @ \ {r}])
  <2>1. PICK new : /\ Going(new)
                   /\ \/ new = [pass EXCEPT !.delete = {}]
                      \/ new = [pass EXCEPT !.delete = @ \ {r}]
    BY <1>2
  <2>2. new.pc = "apply"
    BY <1>1, <2>1 DEF Passes
  <2>3. pass'.pc \in {"idle", "apply"}
    BY <2>1, <2>2, GoingIs
  <2>4. QED
    BY <1>1, <2>3, BesideStep
<1>3. CASE /\ ~RefusesNow(r)
           /\ pass' = [pass EXCEPT !.pc = "mark", !.run = r, !.delete = @ \ {r}]
  <2>1. ~row[Run(r)].lkg
    BY <1>3 DEF RefusesNow, MarkedBest
  <2>2. Run(r) \in Keys \ BestKeys
    BY <2>1, KeysAre, IdsAre DEF BestKeys
  <2>3. pass'.run = r
    BY <1>1, <1>3 DEF Passes
  <2>4. QED
    BY <1>1, <2>2, <2>3, BesideStep
<1>4. QED
  BY <1>2, <1>3 DEF Recheck

LEMMA MarkOn == ASSUME NEW c, Cycles = {c}, OneInv, Inv', Mark PROVE Onward(c)
<1>1. UNCHANGED <<repo, history, job>> /\ RowsSound /\ Marks /\ UNCHANGED <<whole, proved>>
      /\ pass \in Passes /\ pass.pc = "mark" /\ Run(pass.run) \in Keys
  BY KeysAre, IdsAre DEF Mark, BesidePass, history, OneInv, Inv, Deleting
<1>2. CASE Marked(Run(pass.run)) /\ pass' = [pass EXCEPT !.pc = "delete"]
  <2>1. \A k \in Keys : row'[k].phase = row[k].phase /\ row'[k].lkg = row[k].lkg
    BY <1>1, <1>2, IntentKeeps DEF Marked
  <2>2. pass'.run = pass.run
    BY <1>1, <1>2 DEF Passes
  <2>3. QED
    BY <1>1, <2>1, <2>2, InHandUnmarked, BesideStep
<1>3. CASE UNCHANGED row /\ Going(On)
  <2>1. pass'.pc \in {"idle", "apply"}
    BY <1>1, <1>3, GoingIs DEF On, Passes
  <2>2. QED
    BY <1>1, <1>3, <2>1, BesideStep
<1>4. QED
  BY <1>2, <1>3 DEF Mark

LEMMA DeleteManifestOn ==
  ASSUME NEW c, Cycles = {c}, OneInv, Inv', DeleteManifest PROVE Onward(c)
<1>1. /\ UNCHANGED <<row, job>> /\ whole' = whole /\ proved' = proved /\ lost' = lost
      /\ pass.pc = "delete" /\ pass \in Passes /\ pass.run \in Runs
      /\ row[Run(pass.run)].phase \in Complete /\ Inv /\ Kept /\ BestKnown /\ Present(job[c])
  BY Known DEF DeleteManifest, BesidePass, OneInv, Inv, Deleting
<1>2. /\ repo' \in {repo, repo \ {pass.run}}
      /\ pass'.pc \notin {"mark", "delete"}
  <2>1. CASE Going(On)
    <3>1. pass'.pc \in {"idle", "apply"}
      BY <1>1, <2>1, GoingIs DEF On, Passes
    <3>2. QED
      BY <3>1 DEF DeleteManifest
  <2>2. CASE pass' = [pass EXCEPT !.pc = "record"]
    <3>1. pass'.pc = "record"
      BY <1>1, <2>2 DEF Passes
    <3>2. QED
      BY <3>1 DEF DeleteManifest
  <2>3. QED
    BY <2>1, <2>2 DEF DeleteManifest
<1>3. BestKeys' = BestKeys
  BY <1>1 DEF BestKeys
<1>4. Best' = Best
  BY <1>1, <1>3, SameBest
<1>5. lost = {} => Run(pass.run) \notin BestKeys
  BY <1>1, InHandUnmarked
<1>6. lost = {} => Best # pass.run
  <2>1. SUFFICES ASSUME lost = {}, Best = pass.run PROVE FALSE
    OBVIOUS
  <2>2. BestKeys # {}
    BY <1>1, <2>1, IdsAre DEF BestKnown
  <2>3. Run(pass.run) \in BestKeys
    BY <1>1, <2>1, <2>2 DEF BestKnown
  <2>4. QED
    BY <1>5, <2>1, <2>3
<1>7. \A k \in BestKeys : k[2] \in Runs /\ k = Run(k[2])
  BY <1>1 DEF BestKnown
<1>8. lost' = {} => \A d \in Cycles : job'[d].pc # "repoint"
  BY <1>1 DEF Kept
<1>9. lost' = {} => \A r \in repo \ repo' : r \in Runs => row[Run(r)].phase \in Complete
                                                         /\ Run(r) \notin BestKeys
  BY <1>1, <1>2, <1>5
<1>10. Kept'
  BY <1>1, <1>2, <1>3, <1>7, <1>8, <1>9, KeptStays
<1>11. Present(job[c])'
  BY <1>1, <1>2, PresentBeside
<1>12. Refines
  <2>1. CASE repo' = repo
    BY <1>1, <1>4, <2>1 DEF Refines, promised
  <2>2. CASE repo' = repo \ {pass.run}
    <3>1. Promise!Remove(pass.run)
      BY <1>1, <1>4, <1>6, <2>2 DEF Promise!Remove
    <3>2. pass.run \in Manifests
      BY <1>1, IdsAre
    <3>3. QED
      BY <3>1, <3>2 DEF Refines, Promise!Next
  <2>3. QED
    BY <1>2, <2>1, <2>2
<1>13. QED
  BY <1>10, <1>11, <1>12 DEF Onward

LEMMA RecordDeletedOn ==
  ASSUME NEW c, Cycles = {c}, OneInv, Inv', RecordDeleted PROVE Onward(c)
<1>1. /\ UNCHANGED <<repo, history, job>> /\ UNCHANGED <<whole, proved>> /\ pass \in Passes
      /\ pass.pc = "record" /\ pass.run \in Runs /\ pass.run \notin repo
      /\ row[Run(pass.run)].phase \in Complete /\ Inv /\ Kept /\ Present(job[c])
  BY DEF RecordDeleted, BesidePass, history, OneInv, Inv, Deleting
<1>2. Run(pass.run) \in Keys /\ Run(pass.run)[2] = pass.run
  BY <1>1, KeysAre, IdsAre
<1>3. pass'.pc \in {"idle", "apply"}
  <2>1. PICK new : Going(new) /\ (new = On \/ new = [On EXCEPT !.delete = {}])
    BY DEF RecordDeleted
  <2>2. new.pc = "apply"
    BY <1>1, <2>1 DEF On, Passes
  <2>3. QED
    BY <2>1, <2>2, GoingIs
<1>4. CASE UNCHANGED row
  BY <1>1, <1>3, <1>4, BesideStep
<1>5. CASE /\ AdvanceAllowed(row[Run(pass.run)].phase, "DELETED")
           /\ Advanced(Run(pass.run), "DELETED", Nothing)
  <2>1. Remarks(Run(pass.run), "DELETED")
    BY <1>1, <1>2, <1>5, DeletedKeeps DEF Inv
  <2>2. Present(job[c])'
    BY <1>1, PresentBeside
  <2>3. lost = {} => \A d \in Cycles : job'[d].pc # "repoint"
    BY <1>1 DEF Kept
  <2>4. Kept' /\ Refines
    BY <1>1, <1>2, <1>3, <1>5, <2>1, <2>3, RemarkStep
  <2>5. QED
    BY <2>2, <2>4 DEF Onward
<1>6. QED
  BY <1>4, <1>5 DEF RecordDeleted

LEMMA RetentionOn ==
  ASSUME NEW c, Cycles = {c}, Protect, OneInv, Inv', Retention PROVE Onward(c)
BY PlanOn, WithdrawIntentOn, RecheckOn, MarkOn, DeleteManifestOn, RecordDeletedOn DEF Retention

LEMMA OperatorOn == ASSUME NEW c, Cycles = {c}, OneInv, Inv', Operator PROVE Onward(c)
<1>1. UNCHANGED <<row, repo, history, job>> /\ UNCHANGED pass
  BY DEF Operator, PlaceHold, ReleaseHold, history
<1>2. QED
  BY <1>1, InHandUnmarked, BesideStep

LEMMA SurroundingsOn == ASSUME NEW c, Cycles = {c}, OneInv, Inv', Surroundings PROVE Onward(c)
<1>0. Inv /\ Kept /\ BestKnown /\ Present(job[c])
  BY Known DEF OneInv
<1>1. CASE Crash
  <2>1. UNCHANGED <<row, repo, history>> /\ UNCHANGED catalogVars
    BY <1>1 DEF Crash, catalogVars
  <2>2. CASE Stop(c) /\ UNCHANGED pass
    <3>1. StaysPut(c) /\ job'[c].pc = "idle"
      BY <1>0, <2>2, StopsThere
    <3>2. Present(job[c])'
      BY <1>0, <2>1, <3>1, PresentStays
    <3>3. QED
      BY <2>1, <2>2, <3>1, <3>2, ReadStep DEF Onward
  <2>3. CASE pass' = IdlePass /\ UNCHANGED job
    <3>1. pass'.pc = "idle"
      BY <2>3 DEF IdlePass
    <3>2. QED
      BY <2>1, <2>3, <3>1, BesideStep
  <2>4. QED
    BY <1>1, <2>2, <2>3 DEF Crash
<1>2. ASSUME NEW m \in Manifests, Lose(m) \/ PutForeign(m) PROVE Onward(c)
  <2>1. UNCHANGED <<row, job, pass>> /\ whole' = whole /\ proved' = proved
    BY <1>2 DEF Lose, PutForeign, catalogVars, history
  <2>2. BestKeys' = BestKeys
    BY <2>1 DEF BestKeys
  <2>3. Best' = Best
    BY <1>0, <2>2, SameBest
  <2>4. repo' \cap Runs \subseteq repo
    BY <1>2, CatalogAssumption DEF Lose, PutForeign
  <2>5. Present(job[c])'
    BY <1>0, <2>1, <2>4, PresentBeside
  <2>6. CASE Lose(m)
    <3>1. repo' = repo \ {m} /\ lost' = lost \cup {m}
      BY <2>6 DEF Lose
    <3>2. Kept'
      BY <3>1 DEF Kept
    <3>3. Promise!Lose(m)
      BY <2>1, <2>3, <3>1 DEF Promise!Lose
    <3>4. QED
      BY <2>5, <3>2, <3>3 DEF Onward, Refines, Promise!Next
  <2>7. CASE PutForeign(m)
    <3>1. repo' = repo \cup {m} /\ lost' = lost
      BY <2>7 DEF PutForeign, history
    <3>2. \A k \in BestKeys : k[2] \in Runs /\ k = Run(k[2])
      BY <1>0 DEF BestKnown
    <3>3. lost' = {} => (pass'.pc \in {"mark", "delete"} => Run(pass'.run) \in Keys \ BestKeys)
      BY <2>1, <3>1, InHandUnmarked
    <3>4. lost' = {} => \A d \in Cycles : job'[d].pc # "repoint"
      BY <1>0, <2>1, <3>1 DEF Kept
    <3>5. Kept'
      BY <1>0, <2>1, <2>2, <3>1, <3>2, <3>3, <3>4, KeptStays
    <3>6. Promise!Store(m)
      BY <2>1, <2>3, <3>1 DEF Promise!Store
    <3>7. QED
      BY <2>5, <3>5, <3>6 DEF Onward, Refines, Promise!Next
  <2>8. QED
    BY <1>2, <2>6, <2>7
<1>3. QED
  BY <1>1, <1>2 DEF Surroundings

LEMMA StutterOn == ASSUME NEW c, Cycles = {c}, OneInv, Inv', UNCHANGED vars PROVE Onward(c)
<1>1. UNCHANGED <<row, repo, history, job>> /\ UNCHANGED pass
  BY DEF vars, catalogVars
<1>2. QED
  BY <1>1, InHandUnmarked, BesideStep

LEMMA OneStep ==
  ASSUME NEW c, Cycles = {c}, Protect, OneInv, [Next]_vars
  PROVE  OneInv' /\ [Promise!Next]_promised
<1>1. Inv'
  BY NextKeeps DEF OneInv
<1>2. Onward(c)
  BY <1>1, CycleStepOn, RetentionOn, OperatorOn, SurroundingsOn, StutterOn DEF Next
<1>3. QED
  BY <1>1, <1>2 DEF OneInv, Onward, Refines

LEMMA InitOne == Init => OneInv /\ Promise!Init
<1> SUFFICES ASSUME Init PROVE OneInv /\ Promise!Init
  OBVIOUS
<1>1. Inv /\ BestKnown
  BY InitInv, Known
<1>2. BestKeys = {}
  BY DEF Init, CatalogInit, NoRow, BestKeys
<1>3. Kept
  BY <1>2 DEF Kept, Init, CatalogInit, NoRow, IdlePass, IdleJob
<1>4. \A c \in Cycles : Present(job[c])
  BY DEF Present, Init, IdleJob, Reading, Writing
<1>5. Promise!Init
  BY <1>1, <1>2 DEF Promise!Init, Init, BestKnown
<1>6. QED
  BY <1>1, <1>3, <1>4, <1>5 DEF OneInv

\* The last known good snapshot was verified and covered its source, it is withdrawn
\* only for a newer one or because it is gone, and retention does not remove it while
\* nobody else removes any (reconcile.go, prune.go), for one cycle at a time and with
\* protect_last_known_good, however many runs there are.
THEOREM PromiseIsKept ==
  ASSUME NEW c, Cycles = {c}, Protect
  PROVE  Spec => KeepsPromise
<1>1. OneInv /\ [Next]_vars => OneInv' /\ [Promise!Next]_promised
  BY OneStep
<1>2. QED
  BY <1>1, InitOne, PTL DEF Spec, KeepsPromise, Promise!Spec, promised

=============================================================================
