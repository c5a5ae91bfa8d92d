SPECIFICATION Spec
CONSTANTS
  Submissions = {s1, s2}
  Jobs = {j1, j2}
  Requests = {r1, r2}
  Workers = {w1, w2}
  Packages = {good, bad}
  ValidPackages = {good}
  None = None
  MaxFaults = 2
SYMMETRY Symmetry
INVARIANTS
  TypeOK
  OneWorkerPerJob
  PassedHasValidHash
  VerdictBacked
  MarkedJobIsNotLost
PROPERTY ImplementsContract
