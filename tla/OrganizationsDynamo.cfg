SPECIFICATION Spec
CONSTANTS
  OrgIds = {o1, o2}
  Users = {a, b}
  Kits = {k1}
  Handlers = {h1}
  Roles = {"admin"}
  Postgres = FALSE
  MaxFaults = 1
  None = None
  InitialOrgs <- MCInitialOrgs
  KitOwner <- MCKitOwner
  o1 = o1
  a = a
INVARIANT DeletionIsComplete
