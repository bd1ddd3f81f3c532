---------------------- MODULE MCRepositoryMaintenance ----------------------
(***************************************************************************)
(* Instances of RepositoryMaintenance for TLC: one instance with several   *)
(* passes, or two instances that share the directory of the record.        *)
(***************************************************************************)
EXTENDS RepositoryMaintenance, TLC

CONSTANTS here, there, p1, p2, p3, admin1, admin2

OneHome == [p \in Clients |-> here]
TwoHomes == [p \in Clients |-> IF p = p3 THEN there ELSE here]
PassAndAdmin == Clients \cup Admins

=============================================================================
