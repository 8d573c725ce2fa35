--------------------------- MODULE MCRmBridgeHand ---------------------------
\* Instances of RmBridgeHand for TLC.
EXTENDS RmBridgeHand, TLC

\* Action goals are interchangeable (not used where liveness is checked).
GoalSymmetry == Permutations(Goals)

NodeWith(b, f, s, o) ==
  [backend |-> b, feedback |-> f, startup |-> s, overlap |-> o]

\* With the backend auto a node with goals that overlap, and one with feedback
\* whose goals come one after the other; with the SDK, the default, goals that
\* overlap, with feedback and without; with rm_driver goals that overlap.
OverlapOrSerial ==
  {NodeWith("auto", FALSE, TRUE, TRUE), NodeWith("auto", TRUE, FALSE, FALSE)}
  \union {NodeWith("sdk", f, FALSE, TRUE) : f \in BOOLEAN}
  \union {NodeWith("rm_driver", FALSE, TRUE, TRUE)}

Overlapping == {NodeWith("auto", FALSE, FALSE, TRUE)}

StartupWrites == {NodeWith("rm_driver", FALSE, TRUE, TRUE)}
=============================================================================
