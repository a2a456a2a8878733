SPECIFICATION Spec
CONSTANTS
  p1 = p1
  p2 = p2
  a = a
  b = b
  Procs = {p1, p2}
  Slugs = {a, b}
  Histories <- Sites
  Aspects = {"document"}
  Displayed <- Displays
  Given <- AnyStatus
  Files = {1}
  Verdicts <- AnyApproval
  Commands <- EveryCommand
  MaxCommands = 4
  Faults = {"lock", "upload", "manifest", "crash"}
SYMMETRY Symmetry
INVARIANTS
  TypeOK
  N3IsBacked
  StampCoversSignature
  NothingPublicUncleared
PROPERTIES
  SuccessIsComplete
CHECK_DEADLOCK FALSE
