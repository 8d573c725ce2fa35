CONSTANTS
  left = left
  right = right
  Hands = {left, right}
  NumPorts = 2
  Modes = {"canfd"}
  Faults = FALSE

SPECIFICATION Spec
CHECK_DEADLOCK FALSE
INVARIANTS
  HandsComeUp
