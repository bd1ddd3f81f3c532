---------------------------- MODULE OwnedRecord ----------------------------
(***************************************************************************)
(* What a repository's maintenance record promises, with files, revisions, *)
(* leases and interleavings left out: one record that is claimed once, is  *)
(* written by windows each of which builds on the one before, and changes  *)
(* hands only by a transfer, which leaves its history alone.               *)
(***************************************************************************)
EXTENDS Naturals

CONSTANTS
  Owners,  \* the names of the instances
  Nobody,  \* the repository has no record
  Times,   \* the instants windows begin at; 0 stands for never
  Quick, Retry  \* the interval after a window, and after one that failed

VARIABLE record

Init == record = Nobody

Claim(o) ==
  /\ record = Nobody
  /\ record' = [owner |-> o, lastQuick |-> 0, lastFull |-> 0, nextEligible |-> 0]

Transfer(o) == record # Nobody /\ record' = [record EXCEPT !.owner = o, !.nextEligible = 0]

Window(now) ==
  /\ record # Nobody
  /\ \/ record' = [record EXCEPT !.nextEligible = now + Retry]
     \/ record' = [record EXCEPT !.lastQuick = now, !.nextEligible = now + Quick]
     \/ record' = [record EXCEPT !.lastQuick = now, !.lastFull = now, !.nextEligible = now + Quick]

Next == \/ \E o \in Owners : Claim(o) \/ Transfer(o)
        \/ \E now \in Times : Window(now)

Spec == Init /\ [][Next]_record

=============================================================================
