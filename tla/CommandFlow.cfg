CONSTANTS
  Physical = FALSE
  Full = 2
  SafeOpFrames = 3

SPECIFICATION FairSpec
INVARIANTS
  TypeOK
  MotionIsGrounded
  FlowInv
PROPERTIES
  FramesAreGrounded
  CommandArrives
