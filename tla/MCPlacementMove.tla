--------------------------- MODULE MCPlacementMove ---------------------------
(***************************************************************************)
(* Instances of PlacementMove for TLC: the backup set's own directory, a   *)
(* medium read back in full and one that attests.                          *)
(***************************************************************************)
EXTENDS PlacementMove, TLC

CONSTANTS here, store, vault

TwoWant == (here :> "content") @@ (store :> "content")
ThreeWant == TwoWant @@ (vault :> "attested")

=============================================================================
