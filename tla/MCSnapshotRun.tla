--------------------------- MODULE MCSnapshotRun ---------------------------
(***************************************************************************)
(* Instances of SnapshotRun for TLC.                                       *)
(***************************************************************************)
EXTENDS SnapshotRun, TLC

OneForeign == {MaxRuns + 1}
NoForeign == {}

=============================================================================
