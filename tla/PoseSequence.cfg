CONSTANTS
  Tools = {"sequence", "pose", "demo"}
  MaxSteps = 2
  Far = 2
  MaxJump = 1
  Attempts = 2
  RetryIk = TRUE

SPECIFICATION Spec
CHECK_DEADLOCK FALSE
INVARIANTS
  TypeOK
  StrictOrder
  CompleteMeansAnswered
  NearestSolution
PROPERTIES
  ImplementsStrict
