SPECIFICATION FairSpec
CONSTANTS
  Submissions = {s1}
  Jobs = {j1, j2}
  Requests = {r1}
  Workers = {w1, w2}
  Packages = {good}
  ValidPackages = {good}
  None = None
  MaxFaults = 2
  BatchSize = 2
INVARIANTS
  TypeOK
  MarkedJobIsNotLost
PROPERTY PushedJobsFinish
CHECK_DEADLOCK FALSE
