CONSTANTS
  Goals = {a, b}
  Messages = {}
  a = a
  b = b
  Threads = 4
  Retries = 1
  Reinit = TRUE
  SdkRaises = TRUE
  DriverSlow = FALSE
  Configs <- OverlapOrSerial

SPECIFICATION Spec
CHECK_DEADLOCK FALSE
SYMMETRY GoalSymmetry
INVARIANTS
  TypeOK
  SdkExclusive
  SdkLockOwned
  SerialAckMeansWritten
  JointStatesFollowHand
  BackendRestored
