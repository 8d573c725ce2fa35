--------------------------- MODULE StrictSequence ---------------------------
(***************************************************************************)
(* What the strict mode of the scripts promises to whoever watches the robot: *)
(* there are goals and an order among them, fixed from the beginning; a goal  *)
(* starts once, when every goal before it is done; nothing that is done is    *)
(* undone; and completion is reported once all of them are done.  Goals may    *)
(* fail or get stuck, and nothing that needs them happens then.              *)
(***************************************************************************)

VARIABLES
  goals,   \* the goals of the file
  before,  \* pairs of goals, the first of which has to be done first
  started, \* goals that were sent
  done,    \* goals that were answered with success
  reported \* "complete"

vars == <<goals, before, started, done, reported>>

Init ==
  /\ before \subseteq goals \X goals
  /\ started = {} /\ done = {}
  /\ reported = FALSE

Start(g) ==
  /\ g \in goals \ started
  /\ {h \in goals : <<h, g>> \in before} \subseteq done
  /\ started' = started \union {g}
  /\ UNCHANGED <<goals, before, done, reported>>

Succeed(g) ==
  /\ g \in started \ done
  /\ done' = done \union {g}
  /\ UNCHANGED <<goals, before, started, reported>>

Report ==
  /\ done = goals
  /\ reported' = TRUE
  /\ UNCHANGED <<goals, before, started, done>>

Next == (\E g \in goals : Start(g) \/ Succeed(g)) \/ Report

Spec == Init /\ [][Next]_vars
=============================================================================
