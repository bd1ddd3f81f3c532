--------------------------- MODULE LifecycleGraph ---------------------------
(***************************************************************************)
(* The graph of states one artifact moves through, as internal/lifecycle   *)
(* declares it: the states of state.go, the edges of machine.go's table    *)
(* and the sets the package derives from that table.  There is no          *)
(* behaviour here; every other module of the project that advances an      *)
(* artifact goes through Legal.                                            *)
(***************************************************************************)

\* The states every step but the exceptional ones moves through, in order.
InProgress ==
  {"DISCOVERED", "TRANSFERRING", "TRANSFERRED", "VERIFYING", "VERIFIED",
   "COMMITTING"}

\* The states that promise a durable local copy at its final name.
DurableRestorePoints ==
  {"COMMITTED", "REMOTE_DELETE_PENDING", "COMPLETE", "REMOTE_RETAINED"}

QuarantineStates == {"QUARANTINED", "QUARANTINED_LOST"}

ExceptionalStates == {"FAILED"} \cup QuarantineStates

States == InProgress \cup DurableRestorePoints \cup ExceptionalStates

\* The declared transitions, as <<from, to>> pairs.
Transitions ==
  {<<"DISCOVERED", "TRANSFERRING">>, <<"TRANSFERRING", "TRANSFERRED">>,
   <<"TRANSFERRED", "VERIFYING">>, <<"VERIFYING", "VERIFIED">>,
   <<"VERIFIED", "COMMITTING">>, <<"COMMITTING", "COMMITTED">>,
   <<"COMMITTED", "REMOTE_DELETE_PENDING">>,
   <<"REMOTE_DELETE_PENDING", "COMPLETE">>,
   <<"COMMITTED", "REMOTE_RETAINED">>,
   <<"REMOTE_DELETE_PENDING", "REMOTE_RETAINED">>,
   <<"REMOTE_RETAINED", "COMMITTED">>,
   <<"VERIFYING", "QUARANTINED">>, <<"COMMITTED", "QUARANTINED">>,
   <<"REMOTE_DELETE_PENDING", "QUARANTINED">>,
   <<"REMOTE_RETAINED", "QUARANTINED">>,
   <<"COMPLETE", "QUARANTINED_LOST">>,
   <<"FAILED", "DISCOVERED">>, <<"FAILED", "QUARANTINED">>,
   <<"QUARANTINED", "DISCOVERED">>,
   <<"QUARANTINED", "COMMITTED">>, <<"QUARANTINED_LOST", "COMPLETE">>,
   <<"QUARANTINED", "REMOTE_RETAINED">>}
  \cup {<<s, "FAILED">> : s \in InProgress}

\* Validate: a known state to itself, or along a declared edge.
Legal(from, to) ==
  /\ from \in States
  /\ to \in States
  /\ from = to \/ <<from, to>> \in Transitions

\* The edges that trust a distrusted local copy again.
ReinstatementEdges ==
  {e \in Transitions : e[1] \in QuarantineStates /\ e[2] \in DurableRestorePoints}

\* Where a quarantined artifact may be reinstated to, by the state it was
\* quarantined from.
QuarantineOrigins == {"COMMITTED", "REMOTE_DELETE_PENDING", "REMOTE_RETAINED"}

ReinstatementTarget(origin) ==
  IF origin = "REMOTE_RETAINED" THEN "REMOTE_RETAINED" ELSE "COMMITTED"

=============================================================================
