----------------------------- MODULE PoseSequence -----------------------------
(***************************************************************************)
(* The scripts in tools/ that move arm and hand through the bridge's actions *)
(* (move_arm_pose_sequence.py, move_arm_to_pose.py, sequence_demo.py), with  *)
(* the arm action of the bridge and what the scripts see of the hand action. *)
(*                                                                         *)
(* A script waits with a timeout for everything.  When it gives up, or dies, *)
(* the goals it has sent go on: the bridge rejects every cancellation.      *)
(* RmBridgeHand has the hand action in full; here a goal of the hand ends    *)
(* in one of the ways it can end there.                                     *)
(*                                                                         *)
(* A position of the arm is one number; the distance of two of them is the   *)
(* largest difference of a joint.  Time is left out, so the waits by         *)
(* time.sleep are as well.                                                  *)
(***************************************************************************)
EXTENDS Integers, Sequences

CONSTANTS
  Tools,     \* the scripts to be started: "sequence", "pose", "demo"
  MaxSteps,  \* steps of a sequence file
  Far,       \* positions are 0..Far
  MaxJump,   \* --max-joint-jump, positive
  Attempts,  \* --ik-attempts
  RetryIk    \* not --no-ik-collision-fallback

ASSUME ToolsAssumption == Tools \subseteq {"sequence", "pose", "demo"}
ASSUME CountAssumption ==
  {MaxSteps, Far, MaxJump, Attempts} \subseteq Nat \ {0}
ASSUME RetryAssumption == RetryIk \in BOOLEAN

Positions == 0..Far

\* No position: no joint state or solution yet, an IK error code, no answer.
None == -1
IkFailed == -2
IkTimeout == -3

Orders == {"arm_then_hand", "hand_then_arm", "parallel"}

\* One entry of a sequence file; one without arm and hand is skipped, and the
\* order is looked at only if there are both.
Steps == {s \in [arm : BOOLEAN, hand : BOOLEAN, order : Orders] :
            (s.arm /\ s.hand) \/ s.order = "arm_then_hand"}

Goals == (1..MaxSteps) \X {"arm", "hand"}

VARIABLES
  tool, topic, plan, \* the script, --hand-mode topic, what it is to do
  i, pc,     \* the step, and where the script is in it
  todo,      \* what is left to do of the step
  known,     \* last_arm_joint_state
  commanded, \* last_commanded_arm_joint_state
  seed, avoiding, left, best, \* _solve_ik: seed_state, avoid_collisions, ...
  answers,   \* history: the solutions MoveIt has found for this step
  aim,       \* per step: the position its arm goal asks for
  stage,     \* per goal: where it is
  code,      \* per goal: the error_code of its result
  cmd, arm   \* what the arm was last told, and where it is

script == <<tool, topic, plan>>
ik     == <<seed, avoiding, left, best, answers>>
goals  == <<stage, code>>
world  == <<cmd, arm>>
vars   == <<script, i, pc, todo, known, commanded, ik, aim, goals, world>>

Pcs == {"step", "state", "solving", "doing", "complete", "failed"}
Stages == {"none", "sent", "running", "rejected", "ended"}
Codes == {"", "SUCCESSFUL", "PATH_TOLERANCE_VIOLATED"}

TypeOK ==
  /\ tool \in Tools /\ topic \in BOOLEAN
  /\ plan \in Seq(Steps) /\ Len(plan) <= MaxSteps
  /\ i \in 1..(MaxSteps + 1)
  /\ pc \in Pcs
  /\ todo \in Seq({"send", "accept", "wait", "publish"} \X {"arm", "hand"})
  /\ {known, commanded, seed, best} \subseteq Positions \union {None}
  /\ avoiding \in BOOLEAN
  /\ left \in 0..Attempts
  /\ answers \subseteq BOOLEAN \X Positions
  /\ aim \in [1..MaxSteps -> Positions \union {None}]
  /\ stage \in [Goals -> Stages]
  /\ code \in [Goals -> Codes]
  /\ {cmd, arm} \subseteq Positions

-----------------------------------------------------------------------------
(***************************************************************************)
(* What a script does in a step.                                           *)
(***************************************************************************)

\* _send_and_wait(): the goal is sent, accepted and waited for.
SendAndWait(k) == <<<<"send", k>>, <<"accept", k>>, <<"wait", k>>>>

ArmPart(s) == IF s.arm THEN SendAndWait("arm") ELSE <<>>

\* _execute_hand_step(): with the topic nothing is waited for.
HandPart(s) ==
  IF ~s.hand THEN <<>>
  ELSE IF topic THEN <<<<"publish", "hand">>>> ELSE SendAndWait("hand")

InParallel(s) == s.arm /\ s.hand /\ s.order = "parallel" /\ ~topic

\* Mutant of Program: the hand does not wait for the arm's result.
EagerProgram(s) ==
  IF s.order = "hand_then_arm" THEN HandPart(s) \o ArmPart(s)
  ELSE IF ~s.arm THEN HandPart(s)
  ELSE SubSeq(ArmPart(s), 1, 2) \o HandPart(s) \o SubSeq(ArmPart(s), 3, 3)

Program(s) ==
  IF InParallel(s)
  THEN << <<"send", "arm">>, <<"accept", "arm">>, <<"send", "hand">>,
          <<"accept", "hand">>, <<"wait", "arm">>, <<"wait", "hand">> >>
  ELSE IF s.order = "hand_then_arm" THEN HandPart(s) \o ArmPart(s)
  ELSE ArmPart(s) \o HandPart(s)

Distance(p, q) == IF p < q THEN q - p ELSE p - q

\* The single pose is one step of the arm, the demo moves arm, then hand.
Plans ==
  CASE tool = "pose" ->
         {<<[arm |-> TRUE, hand |-> FALSE, order |-> "arm_then_hand"]>>}
    [] tool = "demo" ->
         {[n \in 1..MaxSteps |->
            [arm |-> TRUE, hand |-> TRUE, order |-> "arm_then_hand"]]}
    [] OTHER -> UNION {[1..n -> Steps] : n \in 1..MaxSteps}

Init ==
  /\ tool \in Tools
  /\ topic \in IF tool = "sequence" THEN BOOLEAN ELSE {FALSE}
  /\ plan \in Plans
  /\ i = 1 /\ pc = "step" /\ todo = <<>>
  /\ known = None /\ commanded = None
  /\ seed = None /\ avoiding = TRUE /\ left = 0 /\ best = None
  /\ answers = {}
  /\ aim = [n \in 1..MaxSteps |-> None]
  /\ stage = [g \in Goals |-> "none"]
  /\ code = [g \in Goals |-> ""]
  /\ cmd \in Positions /\ arm = cmd

-----------------------------------------------------------------------------
(***************************************************************************)
(* The script.                                                             *)
(***************************************************************************)

\* An exception ends the script, whatever it has sent.
Fail ==
  /\ pc' = "failed"
  /\ UNCHANGED <<script, i, todo, known, commanded, ik, aim, goals, world>>

\* The next step begins; positions come from the file or from MoveIt.
BeginStep ==
  /\ pc = "step" /\ i <= Len(plan)
  /\ IF plan[i].arm /\ tool # "demo"
     THEN /\ pc' = "state"
          /\ UNCHANGED <<todo, aim>>
     ELSE /\ pc' = "doing"
          /\ todo' = Program(plan[i])
          /\ \E p \in IF plan[i].arm THEN Positions ELSE {None} :
               aim' = [aim EXCEPT ![i] = p]
  /\ UNCHANGED <<script, i, known, commanded, ik, goals, world>>

Complete ==
  /\ pc = "step" /\ i > Len(plan)
  /\ pc' = "complete"
  /\ UNCHANGED <<script, i, todo, known, commanded, ik, aim, goals, world>>

\* rclpy runs the subscription only while the script spins.
Spinning ==
  \/ pc = "state" /\ tool = "sequence" /\ known = None
  \/ pc = "solving"
  \/ pc = "doing" /\ todo # <<>> /\ Head(todo)[1] \in {"accept", "wait"}

JointState ==
  /\ Spinning /\ tool # "demo"
  /\ known' = arm
  /\ UNCHANGED <<script, i, pc, todo, commanded, ik, aim, goals, world>>

\* The seed is fixed for the solve, once a joint state is known or has not
\* come in two seconds.
BeginSolve ==
  /\ pc = "state"
  /\ pc' = "solving"
  /\ seed' = IF commanded # None THEN commanded ELSE known
  /\ avoiding' = TRUE /\ left' = Attempts /\ best' = None
  /\ answers' = {}
  /\ UNCHANGED <<script, i, todo, known, commanded, aim, goals, world>>

NoIkService == pc = "state" /\ Fail

\* run_sequence() compares a solution with the joint state, if there is one.
JumpTooLarge(p) ==
  tool = "sequence" /\ known # None /\ Distance(p, known) > MaxJump

\* The solve returns p: the goal is built and the step carried out.
Solved(p) ==
  \/ JumpTooLarge(p) /\ pc' = "failed" /\ UNCHANGED <<todo, aim>>
  \/ /\ ~JumpTooLarge(p)
     /\ pc' = "doing"
     /\ todo' = Program(plan[i])
     /\ aim' = [aim EXCEPT ![i] = p]

\* Mutant of Better: the last solution replaces the ones before.
BetterLast(a) == a \in Positions

Better(a) ==
  /\ a \in Positions
  /\ best = None \/ Distance(a, seed) < Distance(best, seed)

\* Mutant of FirstIsEnough: error codes are not looked at.
FirstIsEnoughUnchecked(a) == a # IkTimeout /\ (tool = "pose" \/ seed = None)

\* The single pose takes the first solution, and so does a solve without seed.
FirstIsEnough(a) == a \in Positions /\ (tool = "pose" \/ seed = None)

\* One call of /compute_ik: a solution, an error code, or no answer in time.
Attempt(a) ==
  /\ pc = "solving" /\ left > 0
  /\ left' = left - 1
  /\ answers' = IF a \in Positions THEN answers \union {<<avoiding, a>>}
                ELSE answers
  /\ IF FirstIsEnough(a)
     THEN Solved(a) /\ UNCHANGED best
     ELSE /\ best' = IF Better(a) THEN a ELSE best
          /\ UNCHANGED <<pc, todo, aim>>
  /\ UNCHANGED <<script, i, known, commanded, seed, avoiding, goals, world>>

\* The attempts of one mode are used up, with a solution ...
TakeBest ==
  /\ pc = "solving" /\ left = 0 /\ best # None
  /\ Solved(best)
  /\ UNCHANGED <<script, i, known, commanded, ik, goals, world>>

\* ... or without one.
RetryWithCollisions ==
  /\ pc = "solving" /\ left = 0 /\ best = None
  /\ avoiding /\ RetryIk /\ tool = "sequence"
  /\ avoiding' = FALSE /\ left' = Attempts
  /\ UNCHANGED <<script, i, pc, todo, known, commanded, seed, best, answers,
                 aim, goals, world>>

NoSolution ==
  /\ pc = "solving" /\ left = 0 /\ best = None
  /\ ~(avoiding /\ RetryIk /\ tool = "sequence")
  /\ Fail

Now(op, k) == pc = "doing" /\ todo # <<>> /\ Head(todo) = <<op, k>>

\* send_goal_async(), and the message of --hand-mode topic.
Send(k) ==
  /\ Now("send", k) \/ Now("publish", k)
  /\ stage' = [stage EXCEPT ![<<i, k>>] = "sent"]
  /\ todo' = Tail(todo)
  /\ UNCHANGED <<script, i, pc, known, commanded, ik, aim, code, world>>

\* The action server is not there.
NoServer(k) == Now("send", k) /\ Fail

Accepted(k) ==
  /\ Now("accept", k) /\ stage[<<i, k>>] \in {"running", "ended"}
  /\ todo' = Tail(todo)
  /\ UNCHANGED <<script, i, pc, known, commanded, ik, aim, goals, world>>

Rejected(k) == Now("accept", k) /\ stage[<<i, k>>] = "rejected" /\ Fail

\* Mutant of ResultIs: a goal that has ended counts as done.
ResultIsThere(k, codes) == stage[<<i, k>>] = "ended" /\ codes # {}

\* Only the error code of a result is looked at, not the status of the goal.
ResultIs(k, codes) == stage[<<i, k>>] = "ended" /\ code[<<i, k>>] \in codes

\* _wait_goal_result() returns.  An arm goal becomes the seed of later steps.
Succeeded(k) ==
  /\ Now("wait", k) /\ ResultIs(k, {"SUCCESSFUL"})
  /\ todo' = Tail(todo)
  /\ commanded' = IF k = "arm" /\ tool = "sequence" THEN aim[i] ELSE commanded
  /\ UNCHANGED <<script, i, pc, known, ik, aim, goals, world>>

FailedResult(k) ==
  Now("wait", k) /\ ResultIs(k, Codes \ {"SUCCESSFUL"}) /\ Fail

\* Mutant of TimeOut: what does not come in time is taken as it would come.
TimeOutIgnored(k) ==
  /\ Now("accept", k) \/ Now("wait", k)
  /\ todo' = Tail(todo)
  /\ UNCHANGED <<script, i, pc, known, commanded, ik, aim, goals, world>>

\* A response or a result does not come in time.
TimeOut(k) == (Now("accept", k) \/ Now("wait", k)) /\ Fail

EndStep ==
  /\ pc = "doing" /\ todo = <<>>
  /\ pc' = "step" /\ i' = i + 1
  /\ UNCHANGED <<script, todo, known, commanded, ik, aim, goals, world>>

-----------------------------------------------------------------------------
(***************************************************************************)
(* The bridge.                                                             *)
(***************************************************************************)

\* The callback of a goal, or of a message, starts.  An arm goal of these
\* scripts is one point: it is published at once.
Execute(g) ==
  /\ stage[g] = "sent"
  /\ stage' = [stage EXCEPT ![g] = "running"]
  /\ cmd' = IF g[2] = "arm" THEN aim[g[1]] ELSE cmd
  /\ UNCHANGED <<script, i, pc, todo, known, commanded, ik, aim, code, arm>>

\* Another action server than the bridge may reject a goal; a message cannot
\* be rejected.
Reject(g) ==
  /\ stage[g] = "sent" /\ ~(topic /\ g[2] = "hand")
  /\ stage' = [stage EXCEPT ![g] = "rejected"]
  /\ UNCHANGED <<script, i, pc, todo, known, commanded, ik, aim, code, world>>

\* The arm action answers success when the time of its trajectory is over,
\* wherever the arm is; the hand action may have failed.  A callback that
\* raises ends its goal with an empty result, whose error code is 0: SUCCESSFUL.
Finish(g, c) ==
  /\ stage[g] = "running"
  /\ c = "PATH_TOLERANCE_VIOLATED" => g[2] = "hand"
  /\ stage' = [stage EXCEPT ![g] = "ended"]
  /\ code' = [code EXCEPT ![g] = c]
  /\ UNCHANGED <<script, i, pc, todo, known, commanded, ik, aim, world>>

\* The arm gets to where it was told.
ArmMoves ==
  /\ arm # cmd
  /\ arm' = cmd
  /\ UNCHANGED <<script, i, pc, todo, known, commanded, ik, aim, goals, cmd>>

Next ==
  \/ BeginStep \/ Complete \/ JointState
  \/ BeginSolve \/ NoIkService
  \/ \E a \in Positions \union {IkFailed, IkTimeout} : Attempt(a)
  \/ TakeBest \/ RetryWithCollisions \/ NoSolution
  \/ \E k \in {"arm", "hand"} :
       \/ Send(k) \/ NoServer(k) \/ Accepted(k) \/ Rejected(k)
       \/ Succeeded(k) \/ FailedResult(k) \/ TimeOut(k)
  \/ EndStep
  \/ \E g \in Goals :
       \/ Execute(g) \/ Reject(g)
       \/ \E c \in Codes \ {""} : Finish(g, c)
  \/ ArmMoves

Spec == Init /\ [][Next]_vars

-----------------------------------------------------------------------------
(***************************************************************************)
(* Properties.                                                             *)
(***************************************************************************)

\* The goals that a plan has, in the order in which they are to be done.
Planned == {g \in Goals : g[1] <= Len(plan) /\ plan[g[1]][g[2]]}

Before(g, h) ==
  \/ g[1] < h[1]
  \/ /\ g[1] = h[1] /\ ~InParallel(plan[g[1]])
     /\ g[2] = IF plan[g[1]].order = "hand_then_arm" THEN "hand" ELSE "arm"
     /\ h[2] # g[2]

Done(g) == stage[g] = "ended" /\ code[g] = "SUCCESSFUL"

\* The strict mode (the hand by its action): a goal is sent only when every
\* goal before it has been answered with success, so that no motion of one step
\* overlaps the next whatever times out, is rejected or fails (README of tools:
\* the hand's action waits for the result of the bridge).
StrictOrder ==
  ~topic => \A g, h \in Planned : Before(g, h) /\ stage[h] # "none" => Done(g)

\* "Pose sequence complete" is logged only when every goal of the file has been
\* answered with success, the two of a parallel step and the last one included.
CompleteMeansAnswered ==
  pc = "complete" /\ ~topic => \A g \in Planned : Done(g)

\* A sequence executes the solution nearest to its seed among all MoveIt found,
\* and one found without collision checking only when there is no other.
NearestSolution ==
  LET found(mode) == {x[2] : x \in {y \in answers : y[1] = mode}}
      pool == IF found(TRUE) # {} THEN found(TRUE) ELSE found(FALSE)
  IN  pc = "doing" /\ tool = "sequence" /\ plan[i].arm /\ seed # None
        => /\ aim[i] \in pool
           /\ \A p \in pool : Distance(aim[i], seed) <= Distance(p, seed)

(***************************************************************************)
(* The abstract specification that the scripts implement.                  *)
(***************************************************************************)

\* The goals as the bridge sees them.  Of the hand's topic nothing is promised.
Strict == INSTANCE StrictSequence WITH
  goals    <- IF topic THEN {} ELSE Planned,
  before   <- {x \in Goals \X Goals :
                 /\ ~topic /\ x[1] \in Planned /\ x[2] \in Planned
                 /\ Before(x[1], x[2])},
  started  <- {g \in Planned : ~topic /\ stage[g] # "none"},
  done     <- {g \in Planned : ~topic /\ Done(g)},
  reported <- pc = "complete" /\ ~topic

\* A script with its action servers, in strict mode, does what StrictSequence
\* allows and nothing else, whatever times out, is rejected, fails or is late.
ImplementsStrict == Strict!Spec
=============================================================================
