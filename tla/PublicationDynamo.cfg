SPECIFICATION Spec
CONSTANTS
  Submissions = {u2}
  Jobs = {j1}
  Packages = {good, other}
  ValidPackages = {good, other}
  Desks = {d1, d2}
  Publishers = {h1}
  Kits = {k1}
  Orgs = {o1}
  TermsOffered = {"trial"}
  Visibilities = {"private"}
  None = None
  NoOrg = NoOrg
  MaxVersion = 2
  MaxDownloads = 1
  MaxFaults = 1
  Transactional = FALSE
  PersonalOrg = o1
  Legacy = {k1}
  LegacyPackage = good
  Uploads <- MCOtherUploads
  KitOf <- MCKitOf
  VersionOf <- MCVersionOf
  Updates <- MCUpdates
  n1 = n1
  u2 = u2
  k1 = k1
  good = good
  other = other
SYMMETRY Symmetry
INVARIANTS
  AnsweredIsPublished
PROPERTY PublishedIsNotWithdrawn
