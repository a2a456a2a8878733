SPECIFICATION Spec
INVARIANTS
  BuildsAreCurrent
  HandoversAreSafe
PROPERTY EndsWhollyOrNot
CHECK_DEADLOCK FALSE
