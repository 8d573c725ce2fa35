CONSTANTS
  Goals = {a}
  Messages = {m}
  a = a
  m = m
  Threads = 2
  Retries = 1
  Reinit = FALSE
  SdkRaises = FALSE
  DriverSlow = TRUE
  Configs <- Overlapping

SPECIFICATION FairSpec
CHECK_DEADLOCK FALSE
PROPERTIES
  CallersEnd
