SPECIFICATION Spec
CONSTANTS
  Releases = {1, 2}
  Requirements = {1, 2, 3}
  Mandatory = {1, 2}
  Results <- ProducerResults
  Panels <- EvaluatorPanels
  Remedies <- TaskDependencies
  MaxEvidence = 2
  MaxTime = 1
  Writers = {"w1", "w2"}
  Payloads = {"x", "y"}
  Heavy = {"x"}
  MaxEvents = 2
  MaxAge = 1
  KeepCertified = 1
  KeepFailed = 0
  Windows = {1, 2, 3}
  DriftAction = "rollback"
  Threshold = 2
  MaxDeliveries = 4
  Candidates = {"c1", "c2"}
  LegacyPaths = {"p1", "p2"}
  Evolving = {"e1", "e2"}
  Keys = {"k1", "k2", "k3"}
  Evidences <- EvolutionEvidence
  MaxRecords = 3
  Services = {"s1", "s2"}
  Procs = {"p", "q"}
  MaxOps = 2
INVARIANTS
  RunsAreInOrder
  DeploymentsRecover
  HistoryIsSound
  RecordsAreTrue
CHECK_DEADLOCK FALSE
