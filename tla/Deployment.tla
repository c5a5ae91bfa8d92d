----------------------------- MODULE Deployment -----------------------------
(***************************************************************************)
(* What components that both deployments run have in common: the adapter a *)
(* behaviour uses from beginning to end, and a clock, counted in whatever  *)
(* unit the component at hand compares.  0 is no time.  Where a check and  *)
(* the write after it are two statements, a property may need requests     *)
(* that follow one another in one of the deployments.                      *)
(***************************************************************************)
EXTENDS Naturals

CONSTANTS
  Adapters,     \* the deployments a behaviour may be one of
  Overlapping,  \* those of them whose requests are served at the same time
  MaxTime       \* bound on the clock

ASSUME AdaptersAssumption ==
         Overlapping \subseteq Adapters /\ Adapters \subseteq {"postgres", "dynamodb"}
ASSUME MaxTimeAssumption == MaxTime \in Nat \ {0}

VARIABLES adapter, now

deploymentVars == <<adapter, now>>

Times == 1 .. MaxTime

DeploymentInit == adapter \in Adapters /\ now = 1

Tick ==
  /\ now < MaxTime
  /\ now' = now + 1
  /\ UNCHANGED adapter

=============================================================================
