---------------------------- MODULE MCWorkflowRun ----------------------------
(***************************************************************************)
(* Instances of WorkflowRun for TLC: one run, of a plan with a hook in     *)
(* each of the four stages around its backup.                              *)
(***************************************************************************)
EXTENDS WorkflowRun

CONSTANT home

In(scope, phaseOf) == [scope |-> scope, phase |-> phaseOf]
FourHooks ==
  <<In("global", "before"), In("set", "before"), In("set", "after"), In("global", "after")>>
OneRun == <<home>>

=============================================================================
