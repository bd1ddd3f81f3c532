---------------------- MODULE MCRetentionPrune ----------------------
(***************************************************************************)
(* Instances of RetentionPrune for TLC: a day for each instant, the days   *)
(* in pairs counted from an epoch.                                         *)
(***************************************************************************)
EXTENDS RetentionPrune, TLC

CONSTANTS local, nas

WholeDays == [t \in Instants |-> t]
Days == Instants
DaysAndPairs == [day |-> Days, pair |-> {d \in Days : d % 2 = 0}]

Tier(granularity, unit, keep) == [granularity |-> granularity, unit |-> unit, keep |-> keep]
LastOfThePair == [tiers |-> {Tier("pair", "pair", 1), Tier("day", "day", 0)}, protect |-> TRUE]
Unprotected == [tiers |-> {Tier("day", "day", 1)}, protect |-> FALSE]

TwoPolicies == {LastOfThePair, Unprotected}
Stamps == [a \in Artifacts |-> IF a = 1 THEN {2} ELSE IF a = 2 THEN {0} ELSE {NoTime}]

=====================================================================
