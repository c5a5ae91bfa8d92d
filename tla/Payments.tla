------------------------------- MODULE Payments -------------------------------
(***************************************************************************)
(* What money changes: the rights of buyers and the payout accounts of     *)
(* sellers.  The two have no table in common, so a behaviour exercises one *)
(* side, chosen at the beginning: a step of one is a stutter of the other. *)
(***************************************************************************)
EXTENDS Entitlements, Payouts

VARIABLE side  \* the side of this behaviour

vars == <<deploymentVars, side, rightVars, payoutVars>>

Init ==
  /\ side \in {"buyer", "seller"}
  /\ DeploymentInit /\ EntitlementsInit /\ PayoutInit

Buying ==
  /\ side = "buyer" /\ EntitlementStep
  /\ UNCHANGED <<deploymentVars, side, payoutVars>>

Selling ==
  /\ side = "seller" /\ PayoutStep
  /\ UNCHANGED <<deploymentVars, side, rightVars>>

TimePasses == Tick /\ UNCHANGED <<side, rightVars, payoutVars>>

Next == Buying \/ Selling \/ TimePasses

Spec == Init /\ [][Next]_vars

-----------------------------------------------------------------------------
\* Type invariant of the tables of both sides.
TypeOK ==
  /\ adapter \in Adapters /\ now \in Times
  /\ EntitlementTypeOK /\ PayoutTypeOK

=============================================================================
