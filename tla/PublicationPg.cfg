SPECIFICATION Spec
CONSTANTS
  Submissions = {n1, u2}
  Jobs = {j1}
  Packages = {good, other}
  ValidPackages = {good, other}
  Desks = {d1}
  Publishers = {h1}
  Kits = {k1}
  Orgs = {o1}
  TermsOffered = {}
  Visibilities = {}
  None = None
  NoOrg = NoOrg
  MaxVersion = 2
  MaxDownloads = 0
  MaxFaults = 1
  Transactional = TRUE
  PersonalOrg = o1
  Legacy = {}
  LegacyPackage = good
  Uploads <- MCUploads
  KitOf <- MCKitOf
  VersionOf <- MCVersionOf
  Updates <- MCUpdates
  n1 = n1
  u2 = u2
  k1 = k1
  good = good
  other = other
INVARIANTS
  TypeOK
  PublishedIsComplete
  VersionsWereValidated
  AnsweredIsPublished
  PackagesAreUnique
PROPERTY ImplementsCatalog
