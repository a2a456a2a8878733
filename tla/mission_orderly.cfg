SPECIFICATION Spec
CONSTANTS
  Procs = {p1}
  MaxMissions = 2
  Edits = {1, 2}
  MaxCommands = 9
  Commands = {"open", "materialize", "git.commit", "validate", "reconcile", "close", "abort", "rematerialize", "sync"}
  CloseFlags = {{}, {"allow-no-op", "skip-evidence-sync", "skip-auto-sync"}}
  Mirrors = TRUE
  Faults = {"validation", "merge", "mirror", "evidence", "wording"}
INVARIANTS
  NobodyIsStranded
  OpenMissionIsCurrent
  EndIsOnRecord
  ClosedWorkIsSound
CHECK_DEADLOCK FALSE
