SPECIFICATION Spec
CONSTANTS
  OrgIds = {o1, o2}
  Users = {a, b}
  Kits = {}
  Handlers = {h1, h2}
  Roles = {"admin"}
  Postgres = TRUE
  MaxFaults = 0
  None = None
  InitialOrgs <- MCNoOrgs
  KitOwner <- MCKitOwner
  o1 = o1
  a = a
SYMMETRY FullSymmetry
INVARIANTS
  TypeOK
  SlugsAreUnique
  OwnerIsNotRemoved
  OwnerHasRow
  DeletionIsComplete
PROPERTY RemovedStaysOut
