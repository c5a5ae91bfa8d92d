SPECIFICATION Spec
CONSTANTS
  Adapters = {"postgres", "dynamodb"}
  Lists <- MCLists
  MaxTime = 2
  Limit = 1
  MaxEvents = 3
  Kinds <- MCKinds
  AuditQueries <- MCAuditQueries
  Unset = Unset
  MaxSubmissions = 3
  ScanLimit = 2
  Second = 2
  Ttl = 2
  Retention = 0
  MaxKits = 3
  Slugs = {1, 2, 3}
  SlugsOf <- MCSlugsOf
  CatalogQueries <- MCCatalogQueries
  Kits = {k1, k2}
  Handlers = {h1, h2}
  MaxEdition = 2
  Overlapping = {"postgres"}
INVARIANTS
  TypeOK
  WalkIsComplete
  WalkDoesNotRepeat
  WalkIsOrdered
  PublicKitIsFound
PROPERTIES
  WalkEnds
  SweepSparesHandedIn
  AddedAtIsPreserved
