------------------------ MODULE MCArtifactPipeline ------------------------
(***************************************************************************)
(* Instances of ArtifactPipeline for TLC.  Processes are interchangeable,  *)
(* and so are versions wherever every version is Accepted.                 *)
(***************************************************************************)
EXTENDS ArtifactPipeline, TLC

Symmetry == Permutations(Workers) \cup Permutations(Versions)

=============================================================================
