SPECIFICATION Spec
CONSTANTS
  Submissions = {s1}
  Jobs = {j1, j2}
  Requests = {r1, r2}
  Workers = {w1, w2}
  Packages = {good, bad}
  ValidPackages = {good}
  None = None
  MaxFaults = 0
PROPERTY MarkingAdvances
