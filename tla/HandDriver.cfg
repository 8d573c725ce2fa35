CONSTANTS
  left = left
  right = right
  Hands = {left, right}
  NumPorts = 2
  Modes = {"auto", "manual", "canfd"}
  Faults = TRUE

SPECIFICATION FairSpec
CHECK_DEADLOCK FALSE
INVARIANTS
  TypeOK
  CallbacksGoHome
PROPERTIES
  AskedForIsFound
  LossNoticed
