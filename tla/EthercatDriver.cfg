CONSTANTS
  left = left
  right = right
  Slaves = {left, right}
  CheckEvery = 2
  ErrorState = "unconfigured"

SPECIFICATION Spec
INVARIANTS
  TypeOK
  ExclusiveUse
  MappedWhileUsed
PROPERTIES
  FirstStartOperational
  ImplementsLease
