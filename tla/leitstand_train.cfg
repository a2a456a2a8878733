SPECIFICATION Spec
CONSTANTS
  operator = operator
  releaser = releaser
  Procs = {operator, releaser}
  Runs <- Divided
  LastRelease = 2
  Broken <- SecondBroken
  Synced <- TwoReleases
  Unidentified <- SecondUnidentified
  Faults <- Faulty
  MaxOps = 2
  MaxDecisions = 2
INVARIANTS ReleasesStand StatusIsHonest RollbackIsTruthful
CHECK_DEADLOCK FALSE
