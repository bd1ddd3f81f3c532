---------------------------- MODULE RestorePoint ----------------------------
(***************************************************************************)
(* The abstract promise of the snapshot lifecycle: the one snapshot a      *)
(* backup set advertises is one that was proved good, and it stops being   *)
(* advertised only for a newer one or because it is gone.                  *)
(***************************************************************************)
CONSTANTS Manifests, None

VARIABLES
  there,   \* the manifests the repository holds
  proven,  \* those that covered the source and were verified
  lost,    \* those that somebody else removed
  best     \* the one that is advertised, or None

Init == there \subseteq Manifests /\ proven = {} /\ lost = {} /\ best = None

Store(m) == there' = there \cup {m} /\ UNCHANGED <<proven, lost, best>>
Prove(m) == m \in there /\ proven' = proven \cup {m} /\ UNCHANGED <<there, lost, best>>
Advertise(m) == m \in proven /\ best' = m /\ UNCHANGED <<there, proven, lost>>

\* Retention does not remove what is advertised while nothing was lost.
Remove(m) ==
  /\ m # best \/ lost # {}
  /\ there' = there \ {m} /\ UNCHANGED <<proven, lost, best>>
Lose(m) ==
  /\ there' = there \ {m} /\ lost' = lost \cup {m} /\ UNCHANGED <<proven, best>>
Withdraw == best \notin there /\ best' = None /\ UNCHANGED <<there, proven, lost>>

Next ==
  \/ \E m \in Manifests : Store(m) \/ Prove(m) \/ Advertise(m) \/ Remove(m) \/ Lose(m)
  \/ Withdraw

Spec == Init /\ [][Next]_<<there, proven, lost, best>>

=============================================================================
