--------------------------- MODULE OwnershipStore ---------------------------
(***************************************************************************)
(* The file store of a repository's maintenance record, as                 *)
(* internal/backupengine/maintenanceowner.go has it.  Every revision of    *)
(* the record is a file whose name carries the revision; the record is the *)
(* highest one.  A revision is published by linking a complete file to its *)
(* name, which fails when the name is taken; lower revisions are removed   *)
(* afterwards, best effort.  There is no lock: Load, Create and            *)
(* CompareAndSwap are sequences of calls to the directory, and those of    *)
(* several processes interleave.                                           *)
(*                                                                         *)
(* A listing of the directory is one step: the files of a deployment's     *)
(* repositories fit one read of it.  MaxRevision is a bound of the model:  *)
(* beyond it a link fails, as on a full disk.                              *)
(***************************************************************************)
EXTENDS Integers

CONSTANTS
  Writers,      \* the goroutines that use the store
  Owners,       \* the names of the instances
  NoFile,       \* there is no file of a revision
  MaxRevision,  \* bound on the revisions of a behaviour
  MaxErrors     \* bound on the directory calls that fail

ASSUME StoreAssumption ==
  /\ MaxRevision \in Nat \ {0}
  /\ MaxErrors \in Nat

VARIABLES
  files,   \* the record file of each revision
  call,    \* what each writer has asked of the store, and how far it is
  errors   \* directory calls that failed so far

storeVars == <<files, call, errors>>

Revisions == 1 .. MaxRevision
Records == [owner : Owners, lastQuick : Nat, lastFull : Nat, nextEligible : Nat]
ASSUME NoFileAssumption == NoFile \notin Records
LoadAttempts == 4

Unasked == [op |-> "none", at |-> "idle", rec |-> NoFile, rev |-> 0, tries |-> 0]

StoreInit ==
  /\ files = [r \in Revisions |-> NoFile]
  /\ call = [w \in Writers |-> Unasked]
  /\ errors = 0

\* newest: the highest revision there is a file of, 0 for none.
Newest ==
  LET found == {r \in Revisions : files[r] # NoFile}
  IN IF found = {} THEN 0 ELSE CHOOSE r \in found : \A q \in found : q <= r

\* The record, as a Load that nobody disturbs returns it.
Stored == IF Newest = 0 THEN NoFile ELSE files[Newest]

Asking(w, op, at) == call[w].op = op /\ call[w].at = at
CallGoes(w, at) == call' = [call EXCEPT ![w].at = at]

Answers == {"ok", "absent", "exists", "stale", "failed"}
Answered(w, answer) == call[w].at = answer

\* Beginning a call, and taking its answer.  Who has an answer may call again.
Begin(w, op, at, rec, rev) ==
  /\ call[w].at \in Answers \cup {"idle"}
  /\ call' = [call EXCEPT ![w] = [Unasked EXCEPT !.op = op, !.at = at, !.rec = rec, !.rev = rev]]
  /\ UNCHANGED <<files, errors>>
BeginLoad(w) == Begin(w, "load", "list", NoFile, 0)
BeginCreate(w, rec) == Begin(w, "create", "check", rec, 0)
BeginSwap(w, rec, rev) == Begin(w, "swap", "check", rec, rev)
TakeAnswer(w) == call' = [call EXCEPT ![w] = Unasked] /\ UNCHANGED <<files, errors>>

-----------------------------------------------------------------------------
(* Load: choose the newest revision, then read it.                         *)

LoadList(w) ==
  /\ Asking(w, "load", "list")
  /\ call' = [call EXCEPT ![w].at = IF Newest = 0 THEN "absent" ELSE "read",
                          ![w].rev = Newest]
  /\ UNCHANGED <<files, errors>>

\* A file superseded in between is not there to be read: choose again, a
\* bounded number of times.
LoadRead(w) ==
  LET found == files[call[w].rev]
      tried == call[w].tries + 1
  IN /\ Asking(w, "load", "read")
     /\ call' = [call EXCEPT
          ![w].at = IF found # NoFile THEN "ok"
                    ELSE IF tried < LoadAttempts THEN "list" ELSE "failed",
          ![w].rec = found,
          ![w].tries = tried]
     /\ UNCHANGED <<files, errors>>

-----------------------------------------------------------------------------
(* Create and CompareAndSwap.                                              *)

\* The look at the newest revision that only ever refuses.
CreateCheck(w) ==
  /\ Asking(w, "create", "check")
  /\ CallGoes(w, IF Newest = 0 THEN "link" ELSE "exists")
  /\ UNCHANGED <<files, errors>>

SwapCheck(w) ==
  /\ Asking(w, "swap", "check")
  /\ CallGoes(w, IF Newest = 0 THEN "absent"
                 ELSE IF Newest # call[w].rev THEN "stale" ELSE "link")
  /\ UNCHANGED <<files, errors>>

\* publish: link the complete file to the name of the next revision.  The name
\* may be taken.
Link(w) ==
  LET next == call[w].rev + 1
      taken == IF call[w].op = "create" THEN "exists" ELSE "stale"
  IN /\ call[w].at = "link"
     /\ \/ /\ next \in Revisions /\ files[next] # NoFile
           /\ CallGoes(w, taken)
           /\ UNCHANGED files
        \/ /\ next \in Revisions /\ files[next] = NoFile
           /\ files' = [files EXCEPT ![next] = call[w].rec]
           /\ call' = [call EXCEPT ![w].at = "forget", ![w].rev = next]
        \/ /\ next \notin Revisions
           /\ CallGoes(w, "failed")
           /\ UNCHANGED files
     /\ UNCHANGED errors

\* forget: remove the revisions below the published one.  Any of the removals may
\* fail, or miss a file linked since the listing.
ForgetOlder(w) ==
  /\ call[w].at = "forget"
  /\ \E gone \in SUBSET {r \in Revisions : r < call[w].rev /\ files[r] # NoFile} :
       files' = [r \in Revisions |-> IF r \in gone THEN NoFile ELSE files[r]]
  /\ CallGoes(w, IF call[w].op = "create" THEN "recheck" ELSE "ok")
  /\ UNCHANGED errors

\* A create looks again: below a newer revision its own would be invisible, so
\* it is withdrawn.
CreateRecheck(w) ==
  /\ Asking(w, "create", "recheck")
  /\ IF Newest > 1
     THEN CallGoes(w, "exists") /\ files' = [files EXCEPT ![1] = NoFile]
     ELSE CallGoes(w, "ok") /\ UNCHANGED files
  /\ UNCHANGED errors

\* A call to the directory fails.  The removals ignore it, and so does the second
\* look of a create, which then takes the claim for published.
CallFails(w) ==
  /\ errors < MaxErrors
  /\ call[w].at \in {"list", "read", "check", "link", "recheck"}
  /\ CallGoes(w, IF call[w].at = "recheck" THEN "ok" ELSE "failed")
  /\ errors' = errors + 1
  /\ UNCHANGED files

StoreStep(w) ==
  \/ LoadList(w) \/ LoadRead(w)
  \/ CreateCheck(w) \/ SwapCheck(w) \/ Link(w) \/ ForgetOlder(w) \/ CreateRecheck(w)
  \/ CallFails(w)

-----------------------------------------------------------------------------
(* What the store promises.                                                *)

\* Every variable has the values the actions mean it to have.
StoreTypeOK ==
  /\ files \in [Revisions -> Records \cup {NoFile}]
  /\ call \in [Writers ->
       [op : {"none", "load", "create", "swap"},
        at : {"idle", "list", "read", "check", "link", "forget", "recheck"} \cup Answers,
        rec : Records \cup {NoFile}, rev : 0 .. MaxRevision, tries : 0 .. LoadAttempts]]
  /\ errors \in 0 .. MaxErrors

=============================================================================
