---------------------------- MODULE RmBridgeHand ----------------------------
(***************************************************************************)
(* The hand half of rm_revo2_bridge_node.py: trajectories arrive as action *)
(* goals or as topic messages and are written to the hand either through   *)
(* the rm_driver node (a request topic and a result topic that carries a   *)
(* bare Bool) or through the arm's SDK, with retries and a reinitialization *)
(* in between.                                                             *)
(*                                                                         *)
(* Goals run in a reentrant callback group, so they overlap.  The topic     *)
(* callback, the result callback and the feedback timer share the node's    *)
(* exclusive group: only one of them runs at a time.  All of them take one  *)
(* of the executor's Threads while they run.                               *)
(*                                                                         *)
(* A goal stands for its six positions.  What the packing of registers and  *)
(* the parameters decide is left out, except the flags that are constants.  *)
(***************************************************************************)
EXTENDS Naturals, Sequences, FiniteSets

CONSTANTS
  Goals,        \* trajectories that arrive as action goals
  Messages,     \* trajectories that arrive on the topic
  Threads,      \* num_threads of the executor
  Retries,      \* hand_write_retry_count
  Reinit,       \* hand_reinit_on_write_fail
  SdkRaises,    \* an SDK call may raise an exception (environment)
  DriverSlow,   \* rm_driver may exceed the 12 s of the timeout (environment)
  Configs       \* what else a node may be started with

ASSUME CountAssumption == Threads \in Nat \ {0} /\ Retries \in Nat
ASSUME FlagAssumption ==
  {Reinit, SdkRaises, DriverSlow} \subseteq BOOLEAN

\* backend: hand_backend; feedback: feedback_enabled; startup:
\* rm_driver_init_write_mode; overlap: trajectories may arrive before the last
\* was answered (environment).
ASSUME ConfigsAssumption ==
  Configs \subseteq [backend : {"auto", "rm_driver", "sdk"},
                    feedback : BOOLEAN, startup : BOOLEAN, overlap : BOOLEAN]

Callers == Goals \union Messages

\* "Nobody": the owner of a free lock, the sender of the node's own request.
None == "none"

ASSUME CallersAssumption == None \notin Callers

VARIABLES
  config,  \* the member of Configs that this node has
  pc,      \* per caller: the next step of its callback
  path,    \* per caller: which write function it is in
  kind,    \* per caller: what it writes, positions or the mode register
  attempt, \* per caller: the loop variable of that function
  saved,   \* per caller: original_backend
  outcome, \* per caller: what it answered
  group,   \* who runs in the exclusive group
  event, result, \* _rm_driver_write_event, _rm_driver_write_result
  backend, \* self.hand_backend
  arm,     \* self.arm is set
  sdkLock, \* owner of _sdk_lock
  last,    \* last_command_rad, by the trajectory it came from
  alive,   \* the node runs
  requests, answers, \* to rm_driver and back, in order
  hand,    \* the trajectory the hand was last told (external)
  written  \* history: trajectories that were acknowledged at the hand

callers == <<pc, path, kind, attempt, saved, outcome>>
signal  == <<event, result>>
sdk     == <<arm, sdkLock>>
node    == <<last, alive>>
driver  == <<requests, answers>>
world   == <<hand, written>>
vars    == <<config, callers, group, signal, backend, sdk, node, driver, world>>

Pcs == {"idle", "reset", "clear", "publish", "wait", "look", "rm_failed",
        "reinit", "rm_sdk", "rm_reinit", "fallback", "ensure", "init_arm",
        "sdk_lock", "sdk_write", "sdk_failed", "re_lock", "re_check", "re_sdk",
        "re_done", "re_restore", "update", "sleep", "done"}

RmDriverBackends == {"auto", "rm_driver"}

\* The data of a std_msgs Bool; result is None when it has been dropped.
Bools == {"true", "false"}

Request(c, k) == [by |-> c, kind |-> k]

\* The node's own request writes the mode register.
Requests ==
  [by : Callers, kind : {"position", "mode"}] \union {Request(None, "mode")}

TypeOK ==
  /\ config \in Configs
  /\ pc \in [Callers -> Pcs]
  /\ path \in [Callers -> {"rm", "sdk"}]
  /\ kind \in [Callers -> {"position", "mode"}]
  /\ attempt \in [Callers -> 0..Retries]
  /\ saved \in [Callers -> RmDriverBackends \union {"sdk"}]
  /\ outcome \in [Callers -> {None, "ok", "fail"}]
  /\ group \in Messages \union {None, "result", "feedback"}
  /\ event \in BOOLEAN
  /\ result \in Bools \union {None}
  /\ backend \in RmDriverBackends \union {"sdk"}
  /\ arm \in BOOLEAN
  /\ sdkLock \in Callers \union {None}
  /\ last \in Callers \union {None}
  /\ alive \in BOOLEAN
  /\ requests \in Seq(Requests)
  /\ answers \in Seq(Bools)
  /\ hand \in Callers \union {None}
  /\ written \subseteq Callers

\* _init_rm_driver_hand_backend(): the mode register is published, and its
\* result is not waited for.
StartupRequests ==
  IF config.backend # "sdk" /\ config.startup THEN <<Request(None, "mode")>> ELSE <<>>

\* The constructor is done, and has opened the arm if the parameters ask for it.
Init ==
  /\ config \in Configs
  /\ pc = [c \in Callers |-> "idle"]
  /\ path = [c \in Callers |-> "rm"]
  /\ kind = [c \in Callers |-> "position"]
  /\ attempt = [c \in Callers |-> 0]
  /\ saved = [c \in Callers |-> config.backend]
  /\ outcome = [c \in Callers |-> None]
  /\ group = None
  /\ event = FALSE /\ result = None
  /\ backend = config.backend
  /\ arm = (config.backend = "sdk" \/ config.feedback)
  /\ sdkLock = None
  /\ last = None /\ alive = TRUE
  /\ requests = StartupRequests
  /\ answers = <<>>
  /\ hand = None /\ written = {}

-----------------------------------------------------------------------------
(***************************************************************************)
(* Helpers.                                                                *)
(***************************************************************************)

Running == {c \in Callers : pc[c] \notin {"idle", "done"}}

ThreadFree ==
  Cardinality(Running) + (IF group \in {"result", "feedback"} THEN 1 ELSE 0)
    < Threads

Step(c, from, to) == pc[c] = from /\ pc' = [pc EXCEPT ![c] = to]

\* The callback returns: its thread and its group are free again.
Return(c) == group' = IF c \in Messages THEN None ELSE group

Fail(c, from) ==
  /\ Step(c, from, "done")
  /\ outcome' = [outcome EXCEPT ![c] = "fail"]
  /\ Return(c)

\* An exception: the action server answers a goal with an abort, while one
\* that leaves the topic's callback ends spin() and with it the node.
Raise(c, from) == Fail(c, from) /\ alive' = (c \in Goals)

-----------------------------------------------------------------------------
(***************************************************************************)
(* on_trajectory() and _write_hand_registers().                            *)
(***************************************************************************)

\* A callback starts when a thread and, for the topic, the group are free.  It
\* picks its write function by what self.hand_backend says at that moment.
Start(c) ==
  /\ ThreadFree
  /\ config.overlap \/ Running = {}
  /\ c \in Messages => group = None
  /\ group' = IF c \in Messages THEN c ELSE group
  /\ IF backend \in RmDriverBackends
     THEN Step(c, "idle", "reset") /\ path' = [path EXCEPT ![c] = "rm"]
     ELSE Step(c, "idle", "ensure") /\ path' = [path EXCEPT ![c] = "sdk"]
  /\ UNCHANGED <<kind, attempt, saved, outcome, signal, backend, sdk, node,
                 driver, world>>

\* _write_rm_driver_registers(): the result is dropped, then the event is
\* cleared, then the request is published.
ResetResult(c) ==
  /\ Step(c, "reset", "clear")
  /\ result' = None
  /\ UNCHANGED <<path, kind, attempt, saved, outcome, group, event, backend,
                 sdk, node, driver, world>>

\* Mutant of ClearEvent: the event keeps what an earlier result left.
ClearNothing(c) ==
  /\ Step(c, "clear", "publish")
  /\ UNCHANGED <<path, kind, attempt, saved, outcome, group, signal, backend,
                 sdk, node, driver, world>>

ClearEvent(c) ==
  /\ Step(c, "clear", "publish")
  /\ event' = FALSE
  /\ UNCHANGED <<path, kind, attempt, saved, outcome, group, result, backend,
                 sdk, node, driver, world>>

Publish(c) ==
  /\ Step(c, "publish", "wait")
  /\ requests' = Append(requests, Request(c, kind[c]))
  /\ UNCHANGED <<path, kind, attempt, saved, outcome, group, signal, backend,
                 sdk, node, answers, world>>

EventSet(c) ==
  /\ Step(c, "wait", "look")
  /\ event
  /\ UNCHANGED <<path, kind, attempt, saved, outcome, group, signal, backend,
                 sdk, node, driver, world>>

\* Where a write of the mode register returns to; its result is only logged.
AfterReinit(c) == IF path[c] = "rm" THEN "rm_reinit" ELSE "re_done"

\* Something is under way that sets the event in time: the topic callback does
\* not keep the result callback out, and the callers do not hold every thread.
AnswerComing ==
  \/ group = "result"
  \/ /\ requests # <<>> \/ answers # <<>>
     /\ group \notin Messages
     /\ Cardinality(Running) < Threads

\* Mutant of TimeOut: the wait has no timeout.
WaitForever(c) ==
  /\ Step(c, "wait", "rm_failed")
  /\ event
  /\ UNCHANGED <<path, kind, attempt, saved, outcome, group, signal, backend,
                 sdk, node, driver, world>>

TimeOut(c) ==
  /\ Step(c, "wait", IF kind[c] = "mode" THEN AfterReinit(c) ELSE "rm_failed")
  /\ ~event
  /\ DriverSlow \/ ~AnswerComing
  /\ UNCHANGED <<path, kind, attempt, saved, outcome, group, signal, backend,
                 sdk, node, driver, world>>

\* 0 or -22, by what the result says now.
LookAtResult(c) ==
  /\ Step(c, "look", IF kind[c] = "mode" THEN AfterReinit(c)
                     ELSE IF result = "true" THEN "update" ELSE "rm_failed")
  /\ UNCHANGED <<path, kind, attempt, saved, outcome, group, signal, backend,
                 sdk, node, driver, world>>

\* The loop of _write_hand_registers() after a failed attempt.
RmAttemptFailed(c) ==
  /\ IF attempt[c] = Retries
     THEN Step(c, "rm_failed", "fallback") /\ UNCHANGED attempt
     ELSE IF Reinit
     THEN Step(c, "rm_failed", "reinit") /\ UNCHANGED attempt
     ELSE /\ Step(c, "rm_failed", "reset")
          /\ attempt' = [attempt EXCEPT ![c] = @ + 1]
  /\ UNCHANGED <<path, kind, saved, outcome, group, signal, backend, sdk,
                 node, driver, world>>

\* _reinit_modbus() takes the way self.hand_backend names now.
ReinitThroughDriver(c) ==
  /\ backend \in RmDriverBackends
  /\ Step(c, "reinit", "reset")
  /\ kind' = [kind EXCEPT ![c] = "mode"]
  /\ UNCHANGED <<path, attempt, saved, outcome, group, signal, backend, sdk,
                 node, driver, world>>

ReinitThroughSdk(c) ==
  /\ backend = "sdk"
  /\ Step(c, "reinit", "rm_sdk")
  /\ UNCHANGED <<path, kind, attempt, saved, outcome, group, signal, backend,
                 sdk, node, driver, world>>

\* The three SDK calls.  Made from here they hold no lock, and an exception,
\* of a call or because no arm is open, ends the callback.
UnlockedReinit(c) ==
  /\ \/ arm /\ Step(c, "rm_sdk", "rm_reinit")
        /\ UNCHANGED <<outcome, group, alive>>
     \/ (SdkRaises \/ ~arm) /\ Raise(c, "rm_sdk")
  /\ UNCHANGED <<path, kind, attempt, saved, signal, backend, sdk, last,
                 driver, world>>

NextRmAttempt(c) ==
  /\ Step(c, "rm_reinit", "reset")
  /\ kind' = [kind EXCEPT ![c] = "position"]
  /\ attempt' = [attempt EXCEPT ![c] = @ + 1]
  /\ UNCHANGED <<path, saved, outcome, group, signal, backend, sdk, node,
                 driver, world>>

\* Every attempt failed: rm_driver answers so, auto goes on with the SDK.
Fallback(c) ==
  /\ IF backend = "rm_driver"
     THEN Fail(c, "fallback") /\ UNCHANGED <<path, attempt>>
     ELSE /\ Step(c, "fallback", "ensure")
          /\ path' = [path EXCEPT ![c] = "sdk"]
          /\ attempt' = [attempt EXCEPT ![c] = 0]
          /\ UNCHANGED <<outcome, group>>
  /\ UNCHANGED <<kind, saved, signal, backend, sdk, node, driver, world>>

-----------------------------------------------------------------------------
(***************************************************************************)
(* _write_hand_registers_sdk().                                            *)
(***************************************************************************)

\* _ensure_sdk_arm(), which holds no lock: two callers may open the arm.
EnsureArm(c) ==
  /\ Step(c, "ensure", IF arm THEN "sdk_lock" ELSE "init_arm")
  /\ UNCHANGED <<path, kind, attempt, saved, outcome, group, signal, backend,
                 sdk, node, driver, world>>

InitArm(c) ==
  /\ \/ Step(c, "init_arm", "sdk_lock") /\ arm' = TRUE
        /\ UNCHANGED <<outcome, group, alive>>
     \/ SdkRaises /\ Raise(c, "init_arm") /\ UNCHANGED arm
  /\ UNCHANGED <<path, kind, attempt, saved, signal, backend, sdkLock, last,
                 driver, world>>

\* Mutant of SdkLock: the write does not take the lock.
SdkNoLock(c) ==
  /\ Step(c, "sdk_lock", "sdk_write")
  /\ UNCHANGED <<path, kind, attempt, saved, outcome, group, signal, backend,
                 sdk, node, driver, world>>

SdkLock(c) ==
  /\ Step(c, "sdk_lock", "sdk_write")
  /\ sdkLock = None /\ sdkLock' = c
  /\ UNCHANGED <<path, kind, attempt, saved, outcome, group, signal, backend,
                 arm, node, driver, world>>

\* Write_Registers() and the release of the lock.  A call that failed may have
\* reached the hand; one that raises ends the callback.
SdkWrite(c) ==
  /\ \/ /\ Step(c, "sdk_write", "update")
        /\ hand' = c /\ written' = written \union {c}
        /\ UNCHANGED <<outcome, group, alive>>
     \/ /\ Step(c, "sdk_write", "sdk_failed")
        /\ hand' \in {hand, c} /\ UNCHANGED <<written, outcome, group, alive>>
     \/ /\ SdkRaises /\ Raise(c, "sdk_write")
        /\ hand' \in {hand, c} /\ UNCHANGED written
  /\ sdkLock' = None
  /\ UNCHANGED <<path, kind, attempt, saved, signal, backend, arm, last,
                 driver>>

\* Mutant of SdkAttemptFailed: one attempt too many.
SdkOneMoreAttempt(c) ==
  /\ IF attempt[c] > Retries
     THEN Fail(c, "sdk_failed") /\ UNCHANGED attempt
     ELSE /\ Step(c, "sdk_failed", "re_lock")
          /\ UNCHANGED <<attempt, outcome, group>>
  /\ UNCHANGED <<path, kind, saved, signal, backend, sdk, node, driver, world>>

SdkAttemptFailed(c) ==
  /\ IF attempt[c] = Retries
     THEN Fail(c, "sdk_failed") /\ UNCHANGED attempt
     ELSE /\ UNCHANGED <<outcome, group>>
          /\ IF Reinit
             THEN Step(c, "sdk_failed", "re_lock") /\ UNCHANGED attempt
             ELSE /\ Step(c, "sdk_failed", "sdk_lock")
                  /\ attempt' = [attempt EXCEPT ![c] = @ + 1]
  /\ UNCHANGED <<path, kind, saved, signal, backend, sdk, node, driver, world>>

\* The backend is switched to sdk, under the lock, for _reinit_modbus() only.
ForceSdk(c) ==
  /\ Step(c, "re_lock", "re_check")
  /\ sdkLock = None /\ sdkLock' = c
  /\ saved' = [saved EXCEPT ![c] = backend]
  /\ backend' = "sdk"
  /\ UNCHANGED <<path, kind, attempt, outcome, group, signal, arm, node,
                 driver, world>>

CheckBackend(c) ==
  /\ IF backend = "sdk"
     THEN Step(c, "re_check", "re_sdk") /\ UNCHANGED kind
     ELSE /\ Step(c, "re_check", "reset")
          /\ kind' = [kind EXCEPT ![c] = "mode"]
  /\ UNCHANGED <<path, attempt, saved, outcome, group, signal, backend, sdk,
                 node, driver, world>>

\* Mutant of SdkReinit: an exception leaves the lock locked.
SdkReinitKeepsLock(c) ==
  /\ \/ Step(c, "re_sdk", "re_done")
     \/ SdkRaises /\ Step(c, "re_sdk", "re_restore")
  /\ UNCHANGED <<path, kind, attempt, saved, outcome, group, signal, backend,
                 sdk, node, driver, world>>

\* The three SDK calls; an exception leaves the lock's block first.
SdkReinit(c) ==
  /\ \/ Step(c, "re_sdk", "re_done") /\ UNCHANGED sdkLock
     \/ SdkRaises /\ Step(c, "re_sdk", "re_restore") /\ sdkLock' = None
  /\ UNCHANGED <<path, kind, attempt, saved, outcome, group, signal, backend,
                 arm, node, driver, world>>

NextSdkAttempt(c) ==
  /\ kind' = [kind EXCEPT ![c] = "position"]
  /\ attempt' = [attempt EXCEPT ![c] = @ + 1]

\* Mutant of RestoreBackend: the backend stays switched.
RestoreForgotten(c) ==
  /\ Step(c, "re_done", "sdk_lock")
  /\ NextSdkAttempt(c)
  /\ sdkLock' = None
  /\ UNCHANGED <<path, saved, outcome, group, signal, backend, arm, node,
                 driver, world>>

RestoreBackend(c) ==
  /\ Step(c, "re_done", "sdk_lock")
  /\ NextSdkAttempt(c)
  /\ backend' = saved[c]
  /\ sdkLock' = None
  /\ UNCHANGED <<path, saved, outcome, group, signal, arm, node, driver, world>>

RestoreAfterException(c) ==
  /\ Step(c, "re_restore", "sdk_lock")
  /\ NextSdkAttempt(c)
  /\ backend' = saved[c]
  /\ UNCHANGED <<path, saved, outcome, group, signal, sdk, node, driver, world>>

-----------------------------------------------------------------------------
\* Mutant of Update: last_command_rad is not assigned.
UpdateForgotten(c) ==
  /\ outcome' = [outcome EXCEPT ![c] = "ok"]
  /\ IF c \in Messages
     THEN Step(c, "update", "done") /\ Return(c)
     ELSE Step(c, "update", "sleep") /\ UNCHANGED group
  /\ UNCHANGED <<path, kind, attempt, saved, signal, backend, sdk, node,
                 driver, world>>

\* ret = 0: the command becomes the state that is published.
Update(c) ==
  /\ last' = c
  /\ outcome' = [outcome EXCEPT ![c] = "ok"]
  /\ IF c \in Messages
     THEN Step(c, "update", "done") /\ Return(c)
     ELSE Step(c, "update", "sleep") /\ UNCHANGED group
  /\ UNCHANGED <<path, kind, attempt, saved, signal, backend, sdk, alive,
                 driver, world>>

\* An action goal sleeps for time_from_start, on its thread.
Sleep(c) ==
  /\ Step(c, "sleep", "done")
  /\ UNCHANGED <<path, kind, attempt, saved, outcome, group, signal, backend,
                 sdk, node, driver, world>>

\* rm_driver (external) serves the requests in order and publishes a Bool.
DriverServes ==
  /\ requests # <<>>
  /\ requests' = Tail(requests)
  /\ LET r == Head(requests)
     IN  IF r.kind = "position"
         THEN \/ /\ hand' = r.by /\ written' = written \union {r.by}
                 /\ answers' = Append(answers, "true")
              \/ /\ hand' \in {hand, r.by} /\ UNCHANGED written
                 /\ answers' = Append(answers, "false")
         ELSE /\ \E ok \in Bools : answers' = Append(answers, ok)
              /\ UNCHANGED world
  /\ UNCHANGED <<callers, group, signal, backend, sdk, node>>

\* _on_rm_driver_write_result(): the result, then the event.
TakeResult ==
  /\ answers # <<>> /\ group = None /\ ThreadFree
  /\ group' = "result"
  /\ result' = Head(answers)
  /\ answers' = Tail(answers)
  /\ UNCHANGED <<callers, event, backend, sdk, node, requests, world>>

SetEvent ==
  /\ group = "result"
  /\ event' = TRUE
  /\ group' = None
  /\ UNCHANGED <<callers, result, backend, sdk, node, driver, world>>

\* publish_feedback_state(): reads through the SDK without the lock.
FeedbackStart ==
  /\ config.feedback /\ arm /\ group = None /\ ThreadFree
  /\ group' = "feedback"
  /\ UNCHANGED <<callers, signal, backend, sdk, node, driver, world>>

FeedbackEnd ==
  /\ group = "feedback"
  /\ group' = None
  /\ UNCHANGED <<callers, signal, backend, sdk, node, driver, world>>

Callback(c) ==
  \/ Start(c) \/ ResetResult(c) \/ ClearEvent(c) \/ Publish(c)
  \/ EventSet(c) \/ TimeOut(c) \/ LookAtResult(c) \/ RmAttemptFailed(c)
  \/ ReinitThroughDriver(c) \/ ReinitThroughSdk(c) \/ UnlockedReinit(c)
  \/ NextRmAttempt(c) \/ Fallback(c)
  \/ EnsureArm(c) \/ InitArm(c) \/ SdkLock(c) \/ SdkWrite(c)
  \/ SdkAttemptFailed(c) \/ ForceSdk(c) \/ CheckBackend(c) \/ SdkReinit(c)
  \/ RestoreBackend(c) \/ RestoreAfterException(c) \/ Update(c) \/ Sleep(c)

Next ==
  /\ \/ alive /\ \E c \in Callers : Callback(c)
     \/ alive /\ (TakeResult \/ SetEvent \/ FeedbackStart \/ FeedbackEnd)
     \/ DriverServes
  /\ UNCHANGED config

Spec == Init /\ [][Next]_vars

(***************************************************************************)
(* Fairness.  A thread that runs a callback goes on, the clock advances, and *)
(* a lock that is free time and again is had some time.  That a trajectory   *)
(* arrives, or that rm_driver answers, is not owed.                          *)
(***************************************************************************)
Going(c) == alive /\ pc[c] # "idle" /\ Callback(c) /\ UNCHANGED config

Locking(c) == alive /\ (SdkLock(c) \/ ForceSdk(c)) /\ UNCHANGED config

FairSpec ==
  /\ Spec
  /\ \A c \in Callers : /\ WF_vars(Going(c)) /\ SF_vars(Locking(c))

-----------------------------------------------------------------------------
(***************************************************************************)
(* Safety.                                                                 *)
(***************************************************************************)

\* The callers that are inside calls of the SDK: a write, a reinitialization
\* from either loop, or the opening of the arm.  The feedback timer, which
\* reads without the lock, is not a caller.
InSdk ==
  {c \in Callers : pc[c] \in {"init_arm", "rm_sdk", "sdk_write", "re_sdk"}}

\* Those of them that did not take the lock: _init_rm_arm(), and
\* _reinit_modbus() called from the loop of rm_driver while another callback
\* has switched hand_backend to sdk.
Unlocked == {c \in InSdk : pc[c] \in {"init_arm", "rm_sdk"}}

\* Whatever fails, raises and is retried, no two callers meet inside the SDK,
\* for which the lock is meant, unless the backend is auto and one of the two
\* is in one of the two places that do without the lock.  With the backend
\* sdk, the default, and with rm_driver they never meet.
SdkExclusive ==
  \A c, d \in InSdk :
    c # d => config.backend = "auto" /\ {c, d} \cap Unlocked # {}

\* The lock is never abandoned, whichever call raises and wherever the retry
\* goes: its owner is inside one of the two blocks that it protects, the
\* mode write through rm_driver in the second one included.
SdkLockOwned ==
  sdkLock # None =>
    \/ pc[sdkLock] \in {"sdk_write", "re_check", "re_sdk", "re_done"}
    \/ path[sdkLock] = "sdk" /\ kind[sdkLock] = "mode"

\* Where trajectories come one after the other and nothing else was requested.
Serial == ~config.overlap /\ ~config.startup

\* The switch of the backend is temporary: when no callback is between the
\* switch and the restoring, hand_backend is what the parameter said.
BackendRestored ==
  ~config.overlap
  /\ (\A c \in Callers :
        /\ pc[c] \notin {"re_check", "re_sdk", "re_done", "re_restore"}
        /\ ~(path[c] = "sdk" /\ kind[c] = "mode"))
    => backend = config.backend

\* A trajectory is answered with success, and published as the state of the
\* hand, only when its own positions were acknowledged at the hand.
AckMeansWritten == \A c \in Callers : outcome[c] = "ok" => c \in written

\* The same where trajectories come one after the other: retries, fallbacks and
\* reinitializations never acknowledge another write, as long as rm_driver does
\* not answer after the timeout (~DriverSlow) and no trajectory comes on the
\* topic, whose callback keeps the result out until its wait has timed out.
SerialAckMeansWritten == Serial => AckMeansWritten

\* "Reads /joint_states to display the state of the robot": when no callback
\* runs and the last one succeeded, what is published is what the hand was
\* told last.
JointStatesFollowHand ==
  Serial
  /\ (\A c \in Callers : pc[c] \in {"idle", "done"} /\ outcome[c] # "fail")
    => last = hand

-----------------------------------------------------------------------------
\* Every trajectory that is taken up is answered, although the topic callback
\* keeps the result callback out, goals may occupy every thread, and rm_driver
\* may never answer (under FairSpec).
CallersEnd == \A c \in Callers : pc[c] # "idle" ~> pc[c] = "done"
=============================================================================
