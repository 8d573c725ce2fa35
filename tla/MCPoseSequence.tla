--------------------------- MODULE MCPoseSequence ---------------------------
\* Instances of PoseSequence for TLC.
EXTENDS PoseSequence
=============================================================================
