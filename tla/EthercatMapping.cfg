CONSTANTS
  left = left
  Slaves = {left}
  CheckEvery = 2
  ErrorState = "finalized"

SPECIFICATION Spec
INVARIANTS
  MappingLive
