-------------------------------- MODULE Faults --------------------------------
(***************************************************************************)
(* What can go wrong with a statement sent to a store: it is done; it is   *)
(* refused; or it is executed although the caller sees an error (the reply *)
(* is lost).  A behaviour contains at most MaxFaults faults of any kind.   *)
(***************************************************************************)
EXTENDS Naturals

CONSTANT MaxFaults  \* how many things may go wrong in a behaviour

ASSUME FaultsAssumption == MaxFaults \in Nat

VARIABLE faults     \* how many things went wrong so far

Outcomes == {"done", "refused", "lost"}
Executed(o) == o # "refused"

\* Something goes wrong, as long as the bound allows it.
Fault == faults < MaxFaults /\ faults' = faults + 1

\* A statement ends with outcome o.
Ends(o) == IF o = "done" THEN UNCHANGED faults ELSE Fault

=============================================================================
