------------------------------- MODULE Custody -------------------------------
(***************************************************************************)
(* What the pull engine promises about one artifact, with the journal, the *)
(* workers and the file operations left out: there is a source object, the *)
(* manager may come to hold a durable copy, and it releases the source     *)
(* only against a durable copy of the very bytes the source has.           *)
(***************************************************************************)
CONSTANTS Versions, Contents, None

VARIABLES
  source,   \* what is at the remote path, or None
  held,     \* the durable local copy, or None
  deleted,  \* the versions the manager has deleted at the source
  spoiled   \* whether the local copy was ever damaged from outside

vars == <<source, held, deleted, spoiled>>

Init == /\ source \in Versions
        /\ held = None
        /\ deleted = {}
        /\ spoiled = FALSE

\* A copy becomes durable once, and the manager never replaces it.
Secure == /\ held = None
          /\ held' \in Contents
          /\ UNCHANGED <<source, deleted, spoiled>>

Release == /\ source # None
           /\ held = source \/ spoiled
           /\ source' = None
           /\ deleted' = deleted \cup {source}
           /\ UNCHANGED <<held, spoiled>>

\* Somebody else changes the local copy, or the source.
Spoil == /\ held' \in Contents \cup {None}
         /\ spoiled' = TRUE
         /\ UNCHANGED <<source, deleted>>

SourceMoves == /\ source' \in (Versions \ deleted) \cup {None}
               /\ UNCHANGED <<held, deleted, spoiled>>

Next == Secure \/ Release \/ Spoil \/ SourceMoves

Spec == Init /\ [][Next]_vars

=============================================================================
