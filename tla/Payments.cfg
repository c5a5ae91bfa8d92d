SPECIFICATION Spec
CONSTANTS
  Users = {u1}
  Kits = {k1}
  Ids = {e1, e2}
  Subscriptions = {s1, s2}
  Handlers = {h1, h2}
  Adapters = {"postgres", "dynamodb"}
  Overlapping = {"postgres"}
  MaxTime = 2
  None = None
  PayoutOrgs = {o1, o2}
  Accounts = {a1, a2}
  Reports = {r1, r2}
  NoAccount = NoAccount
SYMMETRY Symmetry
INVARIANTS
  TypeOK
  WatermarkIsStable
PROPERTY OnboardedAtIsKept
CHECK_DEADLOCK FALSE
