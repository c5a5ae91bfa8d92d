SPECIFICATION Spec
CONSTANTS
  OrgIds = {o1, o2}
  Users = {a}
  Kits = {k1}
  Handlers = {h1, h2}
  Roles = {"admin"}
  Postgres = TRUE
  MaxFaults = 0
  None = None
  InitialOrgs <- MCInitialOrgs
  KitOwner <- MCKitOwner
  o1 = o1
  a = a
SYMMETRY Symmetry
INVARIANT KitOwnerExists
