CONSTANTS
  Descriptions <- LaunchDescriptions
  Unreadable <- MissingFiles
  MaxCrashes = 1

SPECIFICATION FairSpec
CHECK_DEADLOCK FALSE
INVARIANTS
  TypeOK
  SameRobot
  SpawnersAreServed
  OneJointStateSource
  NoCompetition
  NoSpawnerAfterMoveGroup
  BroadcasterFirst
PROPERTIES
  BringUpCompletes
  MoveGroupIsServed
