CONSTANTS
  left = left
  Slaves = {left}
  CheckEvery = 2
  ErrorState = "finalized"

SPECIFICATION FairSpec
INVARIANTS
  NoAbort
  IndInv
PROPERTIES
  OfflineNoticed
  PendingReleases
  StartupEnds
