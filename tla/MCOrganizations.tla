--------------------------- MODULE MCOrganizations ---------------------------
(* Small instances of Organizations for TLC: no org yet, or o1, a team of    *)
(* user a.                                                                   *)
EXTENDS Organizations, TLC

CONSTANTS o1, a

Team(u, n) == [status |-> "live", type |-> "team", owner |-> u, slug |-> n]

MCInitialOrgs ==
  [o \in OrgIds |-> IF o = o1 THEN Team(a, 1) ELSE NoOrgRow]
MCNoOrgs == [o \in OrgIds |-> NoOrgRow]
MCKitOwner == [k \in Kits |-> o1]

Symmetry == Permutations(Handlers)
FullSymmetry == Symmetry \cup Permutations(OrgIds) \cup Permutations(Users)

=============================================================================
