SPECIFICATION Spec
CONSTANTS
  p1 = p1
  p2 = p2
  a = a
  b = b
  Procs = {p1}
  Slugs = {a, b}
  Histories <- Sites
  Aspects = {"document"}
  Displayed <- Displays
  Given <- AnyStatus
  Files = {1}
  Verdicts <- FullApproval
  Commands <- EveryCommand
  MaxCommands = 4
  Faults = {}
INVARIANTS
  PublishedIsN3
CHECK_DEADLOCK FALSE
