---------------------------- MODULE MCPublication ----------------------------
(* Small instances of Publication for TLC.  n1 is a new_kit submission, u2   *)
(* an update of its kit to version 2, whose upload may be replaced.  An      *)
(* upload that is not valid could only fail, and any may fail here.          *)
EXTENDS Publication, TLC

CONSTANTS n1, u2, k1, good, other

MCKitOf == [s \in Submissions |-> k1]
MCVersionOf == [s \in Submissions |-> IF s = u2 THEN 2 ELSE 1]
MCUpdates == Submissions \cap {u2}
MCUploads == [s \in Submissions |-> IF s = u2 THEN {good, other} ELSE {good}]
MCOtherUploads == [s \in Submissions |-> {other}]

Symmetry == Permutations(Desks)

=============================================================================
