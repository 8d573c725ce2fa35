CONSTANTS
  Goals = {a}
  Messages = {}
  a = a
  Threads = 4
  Retries = 1
  Reinit = TRUE
  SdkRaises = FALSE
  DriverSlow = FALSE
  Configs <- StartupWrites

SPECIFICATION Spec
CHECK_DEADLOCK FALSE
INVARIANTS
  AckMeansWritten
