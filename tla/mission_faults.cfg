SPECIFICATION Spec
CONSTANTS
  Procs = {p1}
  MaxMissions = 2
  Edits = {1}
  MaxCommands = 8
  Commands = {"open", "materialize", "git.commit", "validate", "reconcile", "close", "abort", "edit", "rereconcile"}
  CloseFlags = {{}, {"skip-reconcile-check"}, {"skip-evidence-sync"}, {"allow-no-op"}}
  Mirrors = TRUE
  Faults = {"push", "commit", "merge", "validation", "evidence", "pin"}
INVARIANTS
  LedgerIsSound
PROPERTIES
  RefinesRegister
  PublishedLedgerGrows
CHECK_DEADLOCK FALSE
