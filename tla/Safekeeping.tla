---------------------------- MODULE Safekeeping ----------------------------
(***************************************************************************)
(* What the move engine promises about one managed artifact, with the      *)
(* journal, the phases and the transfers left out: there is always a good  *)
(* copy somewhere, copies are made from good copies, and one is given up   *)
(* only while there is another.                                            *)
(***************************************************************************)
CONSTANT Mediums

VARIABLE held   \* the mediums with a good copy

Init == \E m \in Mediums : held = {m}

Make(m) == held # {} /\ held' = held \cup {m}

GiveUp(m) == held \ {m} # {} /\ held' = held \ {m}

Next == \E m \in Mediums : Make(m) \/ GiveUp(m)

Spec == Init /\ [][Next]_held

=============================================================================
