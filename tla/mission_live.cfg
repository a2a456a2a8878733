SPECIFICATION FairSpec
CONSTANTS
  Procs = {p1, p2}
  MaxMissions = 2
  Edits = {1}
  MaxCommands = 3
  Commands = {"open", "materialize", "git.commit", "validate", "reconcile", "close", "abort", "edit", "rematerialize", "rereconcile", "sync"}
  CloseFlags = {{}}
  Mirrors = FALSE
  Faults = {"validation", "crash", "wording"}
INVARIANTS
  OneWriter
PROPERTIES
  CommandsEnd
CHECK_DEADLOCK FALSE
