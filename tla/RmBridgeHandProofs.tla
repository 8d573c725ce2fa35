-------------------------- MODULE RmBridgeHandProofs --------------------------
(***************************************************************************)
(* The hand half of the bridge, for every number of clients, threads and    *)
(* retries.  Whatever raises and whoever overlaps, two callers meet inside   *)
(* the SDK only with the backend auto and only where one of them opens the   *)
(* arm or reinitializes without the lock, and the lock is never abandoned.   *)
(* Where trajectories come one after the other, the switch of the backend is *)
(* temporary; where moreover they all are action goals, a thread is left for *)
(* the result and rm_driver is in time, an acknowledgement is that of the    *)
(* trajectory's own write.                                                 *)
(***************************************************************************)
EXTENDS RmBridgeHand, FiniteSetTheorems, SequenceTheorems, TLAPS

-----------------------------------------------------------------------------
(***************************************************************************)
(* The parts of TypeOK: the local variables of the callbacks, the shared   *)
(* ones, and those of these that are Boolean.                              *)
(***************************************************************************)

LocalType ==
  /\ pc \in [Callers -> Pcs]
  /\ path \in [Callers -> {"rm", "sdk"}]
  /\ kind \in [Callers -> {"position", "mode"}]
  /\ attempt \in [Callers -> 0..Retries]
  /\ saved \in [Callers -> RmDriverBackends \union {"sdk"}]
  /\ outcome \in [Callers -> {None, "ok", "fail"}]

SharedType ==
  /\ config \in Configs
  /\ group \in Messages \union {None, "result", "feedback"}
  /\ result \in Bools \union {None}
  /\ backend \in RmDriverBackends \union {"sdk"}
  /\ sdkLock \in Callers \union {None}
  /\ last \in Callers \union {None}
  /\ requests \in Seq(Requests)
  /\ answers \in Seq(Bools)
  /\ hand \in Callers \union {None}
  /\ written \subseteq Callers

FlagType == event \in BOOLEAN /\ arm \in BOOLEAN /\ alive \in BOOLEAN

(***************************************************************************)
(* The inductive invariants.                                               *)
(***************************************************************************)

\* The steps of _write_rm_driver_registers(), which writes positions for the
\* loop of rm_driver and the mode register for either reinitialization.
InWrite == {"reset", "clear", "publish", "wait", "look"}

RmOnly == {"rm_failed", "reinit", "rm_sdk", "rm_reinit", "fallback"}

SdkOnly == {"ensure", "init_arm", "sdk_lock", "sdk_write", "sdk_failed",
            "re_lock", "re_check", "re_sdk", "re_done", "re_restore"}

\* Where another attempt is going to follow.
Retrying == {"reinit", "rm_sdk", "rm_reinit", "re_lock", "re_check",
             "re_sdk", "re_done", "re_restore"}

\* What the local variables of a callback have to do with where it is.
CallerInv(c) ==
  /\ pc[c] \in RmOnly => path[c] = "rm"
  /\ pc[c] \in SdkOnly => path[c] = "sdk"
  /\ pc[c] \in InWrite /\ path[c] = "sdk" => kind[c] = "mode"
  /\ kind[c] = "mode" => pc[c] \in InWrite \union {"rm_reinit", "re_done"}
  /\ kind[c] = "mode" \/ pc[c] \in Retrying => attempt[c] < Retries

\* In one of the two blocks that _sdk_lock protects.
Holds(c) ==
  \/ pc[c] \in {"sdk_write", "re_check", "re_sdk", "re_done"}
  \/ path[c] = "sdk" /\ kind[c] = "mode"

\* The lock belongs to whoever is in such a block, and to nobody else.
LockInv == \A c \in Callers : Holds(c) <=> sdkLock = c

BridgeInv == TypeOK /\ (\A c \in Callers : CallerInv(c)) /\ LockInv

\* Where the backend sdk leads, and where rm_driver does.
SdkWay == {"idle", "ensure", "sdk_lock", "sdk_write", "sdk_failed", "re_lock",
           "re_check", "re_sdk", "re_done", "re_restore", "update", "sleep",
           "done"}
RmWay == {"idle", "reset", "clear", "publish", "wait", "look", "rm_failed",
          "reinit", "rm_reinit", "fallback", "update", "sleep", "done"}

\* With either of the two no callback leaves its way, since nobody changes
\* hand_backend to another value.
WaysInv ==
  /\ config.backend = "sdk" =>
       /\ arm /\ backend = "sdk"
       /\ \A c \in Callers : pc[c] \in SdkWay /\ saved[c] = "sdk"
  /\ config.backend = "rm_driver" =>
       /\ backend = "rm_driver"
       /\ \A c \in Callers : pc[c] \in RmWay /\ path[c] = "rm"

\* Between the switch of the backend and its restoring.
Switched == {"re_check", "re_sdk", "re_done", "re_restore"}

\* Without overlap one callback runs.
AloneInv == ~config.overlap => \A c, d \in Running : c = d

\* And the backend differs from the parameter only while that callback has
\* switched it.
RestoreInv ==
  ~config.overlap =>
    /\ \A c \in Callers :
         pc[c] \in Switched => backend = "sdk" /\ saved[c] = config.backend
    /\ (\A c \in Callers : pc[c] \notin Switched) => backend = config.backend
    /\ \A c \in Callers : ~(path[c] = "sdk" /\ kind[c] = "mode")

\* Every trajectory is an action goal, the executor has a thread for the result
\* beside the one of the goal, and rm_driver answers within the timeout.  The
\* topic callback keeps the result callback out, and so does a goal on the only
\* thread: their waits time out and leave requests and answers behind, as those
\* do that a late rm_driver makes time out.
GoalsInTime == Messages = {} /\ Threads >= 2 /\ ~DriverSlow

\* No request to rm_driver is under way.
Quiet == requests = <<>> /\ answers = <<>> /\ group # "result"

AtHand(c) == c \in written /\ hand = c

\* A success that is reported to c means that c's positions are at the hand.
Meant(c, r) == kind[c] = "position" /\ r = "true" => AtHand(c)

\* The one request of a waiting callback is with rm_driver, answered, being
\* taken, or has set the event.
InFlight(c) ==
  \/ /\ requests = <<Request(c, kind[c])>> /\ answers = <<>>
     /\ group # "result" /\ ~event
  \/ /\ requests = <<>>
     /\ \E r \in Bools : answers = <<r>> /\ Meant(c, r)
     /\ group # "result" /\ ~event
  \/ /\ requests = <<>> /\ answers = <<>> /\ Meant(c, result)
     /\ group = "result" /\ ~event
  \/ Quiet /\ event /\ Meant(c, result)

\* What is under way for a callback that runs, by where it is.
FlightInv(c) ==
  /\ pc[c] = "wait" => InFlight(c)
  /\ pc[c] = "look" => Meant(c, result)
  /\ pc[c] = "publish" => ~event
  /\ pc[c] = "update" => AtHand(c)
  /\ pc[c] = "sleep" => AtHand(c) /\ last = c

\* Where goals come one after the other: nothing is under way but for the
\* caller that waits, and a success is that of the caller's own write.
SerialInv ==
  Serial =>
    /\ (\A c \in Callers : pc[c] # "wait") => Quiet
    /\ \A c \in Callers : FlightInv(c)
    /\ AckMeansWritten
    /\ Running = {} /\ (\A c \in Callers : outcome[c] # "fail") => last = hand

-----------------------------------------------------------------------------
(***************************************************************************)
(* Types and the lock: one step per action, with the functions of TLA+     *)
(* that only it needs.                                                     *)
(***************************************************************************)

\* The loops do not count beyond the last attempt.
LEMMA NextAttempt ==
  ASSUME attempt \in [Callers -> 0..Retries], NEW c \in Callers,
         attempt[c] # Retries,
         attempt' = [attempt EXCEPT ![c] = @ + 1]
  PROVE  attempt' \in [Callers -> 0..Retries]
<1>1. attempt[c] + 1 \in 0..Retries
  BY CountAssumption
<1> QED
  BY <1>1

\* A step of a callback keeps the types of its local variables.
LEMMA CallbackLocal ==
  ASSUME BridgeInv, NEW c \in Callers, Callback(c)
  PROVE  LocalType'
<1> USE CountAssumption
    DEF BridgeInv, TypeOK, CallerInv, LocalType, Pcs, Retrying,
        RmDriverBackends, Step
<1>1. CASE Start(c)
  <2>1. CASE backend \in RmDriverBackends
    BY <1>1, <2>1, ZenonT(60) DEF Start
  <2>2. CASE backend \notin RmDriverBackends
    BY <1>1, <2>2, ZenonT(60) DEF Start
  <2> QED
    BY <2>1, <2>2
<1>2. CASE \/ ResetResult(c) \/ ClearEvent(c) \/ Publish(c) \/ EventSet(c)
           \/ TimeOut(c) \/ LookAtResult(c)
  BY <1>2, ZenonT(60) DEF ResetResult, ClearEvent, Publish, EventSet, TimeOut,
              LookAtResult, AfterReinit
<1>3. CASE RmAttemptFailed(c)
  <2>1. \/ UNCHANGED attempt
        \/ /\ attempt[c] # Retries
           /\ attempt' = [attempt EXCEPT ![c] = @ + 1]
    BY <1>3, Zenon DEF RmAttemptFailed
  <2>2. attempt' \in [Callers -> 0..Retries]
    BY <2>1, NextAttempt
  <2> QED
    BY <1>3, <2>2, ZenonT(60) DEF RmAttemptFailed
<1>4. CASE ReinitThroughDriver(c)
  BY <1>4 DEF ReinitThroughDriver
<1>5. CASE NextRmAttempt(c)
  <2>1. attempt' \in [Callers -> 0..Retries]
    BY <1>5, NextAttempt DEF NextRmAttempt
  <2> QED
    BY <1>5, <2>1 DEF NextRmAttempt
<1>6. CASE ReinitThroughSdk(c) \/ UnlockedReinit(c)
  <2>1. CASE ReinitThroughSdk(c)
    BY <2>1 DEF ReinitThroughSdk
  <2>2. CASE UnlockedReinit(c)
    BY <2>2, ZenonT(60) DEF UnlockedReinit, Raise, Fail
  <2> QED
    BY <1>6, <2>1, <2>2
<1>7. CASE Fallback(c)
  <2>1. CASE backend = "rm_driver"
    BY <1>7, <2>1, ZenonT(60) DEF Fallback, Fail
  <2>2. CASE backend # "rm_driver"
    <3>1. /\ Step(c, "fallback", "ensure")
          /\ path' = [path EXCEPT ![c] = "sdk"]
          /\ attempt' = [attempt EXCEPT ![c] = 0]
          /\ UNCHANGED <<kind, saved, outcome>>
      BY <1>7, <2>2 DEF Fallback
    <3> QED
      BY <3>1
  <2> QED
    BY <2>1, <2>2
<1>8. CASE EnsureArm(c) \/ InitArm(c) \/ SdkLock(c) \/ SdkWrite(c)
  BY <1>8, ZenonT(60) DEF EnsureArm, InitArm, SdkLock, SdkWrite, Raise, Fail
<1>9. CASE SdkAttemptFailed(c)
  <2>1. \/ UNCHANGED attempt
        \/ /\ attempt[c] # Retries
           /\ attempt' = [attempt EXCEPT ![c] = @ + 1]
    BY <1>9, Zenon DEF SdkAttemptFailed
  <2>2. \/ outcome' = outcome
        \/ outcome' = [outcome EXCEPT ![c] = "fail"]
    BY <1>9, Zenon DEF SdkAttemptFailed, Fail
  <2>3. \E p \in Pcs : pc' = [pc EXCEPT ![c] = p]
    BY <1>9 DEF SdkAttemptFailed, Fail
  <2>4. attempt' \in [Callers -> 0..Retries]
    BY <2>1, NextAttempt
  <2>5. UNCHANGED <<path, kind, saved>>
    BY <1>9 DEF SdkAttemptFailed
  <2> QED
    BY <2>2, <2>3, <2>4, <2>5, ZenonT(60)
<1>10. CASE ForceSdk(c) \/ SdkReinit(c)
  BY <1>10, ZenonT(60) DEF ForceSdk, SdkReinit
<1>11. CASE CheckBackend(c)
  BY <1>11, ZenonT(60) DEF CheckBackend
<1>12. CASE RestoreBackend(c) \/ RestoreAfterException(c)
  <2>1. /\ attempt[c] # Retries
        /\ attempt' = [attempt EXCEPT ![c] = @ + 1]
    BY <1>12 DEF RestoreBackend, RestoreAfterException, NextSdkAttempt
  <2>2. attempt' \in [Callers -> 0..Retries]
    BY <2>1, NextAttempt
  <2> QED
    BY <1>12, <2>2 DEF RestoreBackend, RestoreAfterException, NextSdkAttempt
<1>13. CASE Update(c)
  BY <1>13, ZenonT(60) DEF Update
<1>14. CASE Sleep(c)
  BY <1>14 DEF Sleep
<1> QED
  BY <1>1, <1>2, <1>3, <1>4, <1>5, <1>6, <1>7, <1>8, <1>9, <1>10, <1>11,
     <1>12, <1>13, <1>14 DEF Callback

\* It keeps those of what the callbacks share.
LEMMA CallbackShared ==
  ASSUME BridgeInv, NEW c \in Callers, Callback(c), UNCHANGED config
  PROVE  SharedType'
<1> USE DEF BridgeInv, TypeOK, SharedType, RmDriverBackends, Step, Return,
            Fail, Raise, Callers, signal, sdk, node, driver, world
<1>1. CASE Start(c) \/ ResetResult(c) \/ ClearEvent(c)
  BY <1>1 DEF Start, ResetResult, ClearEvent
<1>2. CASE Publish(c)
  <2>1. Request(c, kind[c]) \in Requests
    BY DEF Requests, Request
  <2>2. requests' \in Seq(Requests)
    BY <1>2, <2>1, AppendProperties DEF Publish
  <2> QED
    BY <1>2, <2>2 DEF Publish
<1>3. CASE EventSet(c) \/ TimeOut(c) \/ LookAtResult(c)
  BY <1>3 DEF EventSet, TimeOut, LookAtResult
<1>4. CASE \/ RmAttemptFailed(c) \/ ReinitThroughDriver(c)
           \/ ReinitThroughSdk(c) \/ UnlockedReinit(c) \/ NextRmAttempt(c)
           \/ Fallback(c)
  BY <1>4 DEF RmAttemptFailed, ReinitThroughDriver, ReinitThroughSdk,
              UnlockedReinit, NextRmAttempt, Fallback
<1>5. CASE EnsureArm(c) \/ InitArm(c) \/ SdkLock(c) \/ SdkWrite(c)
  BY <1>5 DEF EnsureArm, InitArm, SdkLock, SdkWrite
<1>6. CASE \/ SdkAttemptFailed(c) \/ ForceSdk(c) \/ CheckBackend(c)
           \/ SdkReinit(c)
  BY <1>6 DEF SdkAttemptFailed, ForceSdk, CheckBackend, SdkReinit
<1>7. CASE \/ RestoreBackend(c) \/ RestoreAfterException(c) \/ Update(c)
           \/ Sleep(c)
  BY <1>7 DEF RestoreBackend, RestoreAfterException, Update, Sleep
<1> QED
  BY <1>1, <1>2, <1>3, <1>4, <1>5, <1>6, <1>7 DEF Callback

\* And it leaves Booleans Boolean.
LEMMA CallbackFlags ==
  ASSUME BridgeInv, NEW c \in Callers, Callback(c)
  PROVE  FlagType'
<1>1. event' \in BOOLEAN
  <2>1. UNCHANGED event \/ event' = FALSE
    BY DEF Callback, Start, ResetResult, ClearEvent, Publish, EventSet,
       TimeOut, LookAtResult, RmAttemptFailed, ReinitThroughDriver,
       ReinitThroughSdk, UnlockedReinit, NextRmAttempt, Fallback, EnsureArm,
       InitArm, SdkLock, SdkWrite, SdkAttemptFailed, ForceSdk, CheckBackend,
       SdkReinit, RestoreBackend, RestoreAfterException, Update, Sleep, signal
  <2> QED
    BY <2>1, Zenon DEF BridgeInv, TypeOK
<1>2. arm' \in BOOLEAN
  <2>1. UNCHANGED arm \/ arm' = TRUE
    BY DEF Callback, Start, ResetResult, ClearEvent, Publish, EventSet,
       TimeOut, LookAtResult, RmAttemptFailed, ReinitThroughDriver,
       ReinitThroughSdk, UnlockedReinit, NextRmAttempt, Fallback, EnsureArm,
       InitArm, SdkLock, SdkWrite, SdkAttemptFailed, ForceSdk, CheckBackend,
       SdkReinit, RestoreBackend, RestoreAfterException, Update, Sleep, sdk
  <2> QED
    BY <2>1, Zenon DEF BridgeInv, TypeOK
<1>3. alive' \in BOOLEAN
  <2>1. UNCHANGED alive \/ alive' = (c \in Goals)
    BY DEF Callback, Start, ResetResult, ClearEvent, Publish, EventSet,
       TimeOut, LookAtResult, RmAttemptFailed, ReinitThroughDriver,
       ReinitThroughSdk, UnlockedReinit, NextRmAttempt, Fallback, EnsureArm,
       InitArm, SdkLock, SdkWrite, SdkAttemptFailed, ForceSdk, CheckBackend,
       SdkReinit, RestoreBackend, RestoreAfterException, Update, Sleep, Raise,
       node
  <2>2. (c \in Goals) \in BOOLEAN
    OBVIOUS
  <2> QED
    BY <2>1, <2>2, Zenon DEF BridgeInv, TypeOK
<1> QED
  BY <1>1, <1>2, <1>3, Zenon DEF FlagType

-----------------------------------------------------------------------------
\* The local variables of every callback go on agreeing with where it is.
LEMMA CallbackAgrees ==
  ASSUME BridgeInv, NEW c \in Callers, Callback(c)
  PROVE  \A d \in Callers : CallerInv(d)'
<1> USE CountAssumption
    DEF BridgeInv, TypeOK, CallerInv, InWrite, RmOnly, SdkOnly, Retrying, Step
<1>1. CASE Start(c)
  BY <1>1 DEF Start
<1>2. CASE \/ ResetResult(c) \/ ClearEvent(c) \/ Publish(c) \/ EventSet(c)
           \/ TimeOut(c) \/ LookAtResult(c)
  BY <1>2 DEF ResetResult, ClearEvent, Publish, EventSet, TimeOut,
              LookAtResult, AfterReinit
<1>3. CASE RmAttemptFailed(c)
  BY <1>3 DEF RmAttemptFailed
<1>4. CASE \/ ReinitThroughDriver(c) \/ ReinitThroughSdk(c)
           \/ UnlockedReinit(c) \/ NextRmAttempt(c)
  BY <1>4 DEF ReinitThroughDriver, ReinitThroughSdk, UnlockedReinit,
              NextRmAttempt, Raise, Fail
<1>5. CASE Fallback(c)
  BY <1>5 DEF Fallback, Fail
<1>6. CASE EnsureArm(c) \/ InitArm(c) \/ SdkLock(c) \/ SdkWrite(c)
  BY <1>6 DEF EnsureArm, InitArm, SdkLock, SdkWrite, Raise, Fail
<1>7. CASE SdkAttemptFailed(c)
  BY <1>7 DEF SdkAttemptFailed, Fail
<1>8. CASE ForceSdk(c) \/ CheckBackend(c) \/ SdkReinit(c)
  BY <1>8 DEF ForceSdk, CheckBackend, SdkReinit
<1>9. CASE RestoreBackend(c)
  BY <1>9, SMTT(30) DEF RestoreBackend, NextSdkAttempt
<1>10. CASE RestoreAfterException(c)
  BY <1>10, SMTT(30) DEF RestoreAfterException, NextSdkAttempt
<1>11. CASE Update(c) \/ Sleep(c)
  BY <1>11 DEF Update, Sleep
<1> QED
  BY <1>1, <1>2, <1>3, <1>4, <1>5, <1>6, <1>7, <1>8, <1>9, <1>10, <1>11
     DEF Callback

\* Whoever leaves its block frees the lock for the others.
LEMMA Released ==
  ASSUME BridgeInv, NEW c \in Callers, Holds(c), ~Holds(c)', sdkLock' = None,
         \A d \in Callers \ {c} :
           pc'[d] = pc[d] /\ path'[d] = path[d] /\ kind'[d] = kind[d]
  PROVE  LockInv'
BY CallersAssumption DEF BridgeInv, LockInv, Holds

\* And the lock goes on belonging to whoever is in one of its blocks.
LEMMA CallbackLock ==
  ASSUME BridgeInv, NEW c \in Callers, Callback(c)
  PROVE  LockInv'
<1> USE CallersAssumption
    DEF BridgeInv, TypeOK, CallerInv, LockInv, Holds, InWrite, RmOnly,
        SdkOnly, Step, sdk
<1>1. CASE Start(c)
  BY <1>1, SMTT(30) DEF Start
<1>2. CASE \/ ResetResult(c) \/ ClearEvent(c) \/ Publish(c) \/ EventSet(c)
           \/ TimeOut(c) \/ LookAtResult(c)
  BY <1>2 DEF ResetResult, ClearEvent, Publish, EventSet, TimeOut,
              LookAtResult, AfterReinit
<1>3. CASE RmAttemptFailed(c)
  BY <1>3 DEF RmAttemptFailed
<1>4. CASE \/ ReinitThroughDriver(c) \/ ReinitThroughSdk(c)
           \/ UnlockedReinit(c) \/ NextRmAttempt(c)
  BY <1>4 DEF ReinitThroughDriver, ReinitThroughSdk, UnlockedReinit,
              NextRmAttempt, Raise, Fail
<1>5. CASE Fallback(c)
  BY <1>5 DEF Fallback, Fail
<1>6. CASE EnsureArm(c) \/ InitArm(c) \/ SdkLock(c)
  BY <1>6 DEF EnsureArm, InitArm, SdkLock, Raise, Fail
<1>7. CASE SdkWrite(c)
  <2>1. \E p \in {"update", "sdk_failed", "done"} : Step(c, "sdk_write", p)
    BY <1>7 DEF SdkWrite, Raise, Fail
  <2>2. sdkLock' = None /\ UNCHANGED <<path, kind>>
    BY <1>7 DEF SdkWrite
  <2>3. Holds(c) /\ ~Holds(c)'
    BY <2>1, <2>2
  <2>4. \A d \in Callers \ {c} : pc'[d] = pc[d]
    BY <2>1
  <2> HIDE DEF BridgeInv, LockInv, Holds
  <2> QED
    BY <2>2, <2>3, <2>4, Released
<1>8. CASE SdkAttemptFailed(c)
  BY <1>8 DEF SdkAttemptFailed, Fail
<1>9. CASE ForceSdk(c) \/ CheckBackend(c)
  BY <1>9 DEF ForceSdk, CheckBackend
<1>10. CASE SdkReinit(c)
  <2>1. UNCHANGED <<path, kind>>
    BY <1>10 DEF SdkReinit
  <2>2. CASE Step(c, "re_sdk", "re_done") /\ UNCHANGED sdkLock
    BY <2>1, <2>2
  <2>3. CASE Step(c, "re_sdk", "re_restore") /\ sdkLock' = None
    <3>1. Holds(c) /\ ~Holds(c)'
      BY <2>1, <2>3
    <3>2. \A d \in Callers \ {c} : pc'[d] = pc[d]
      BY <2>3
    <3> HIDE DEF BridgeInv, LockInv, Holds
    <3> QED
      BY <2>1, <2>3, <3>1, <3>2, Released
  <2> QED
    BY <1>10, <2>2, <2>3 DEF SdkReinit
<1>11. CASE RestoreBackend(c)
  <2>1. /\ Step(c, "re_done", "sdk_lock")
        /\ kind' = [kind EXCEPT ![c] = "position"]
        /\ UNCHANGED path /\ sdkLock' = None
    BY <1>11 DEF RestoreBackend, NextSdkAttempt
  <2>2. Holds(c) /\ ~Holds(c)'
    BY <2>1
  <2>3. \A d \in Callers \ {c} : pc'[d] = pc[d] /\ kind'[d] = kind[d]
    BY <2>1
  <2> HIDE DEF BridgeInv, LockInv, Holds
  <2> QED
    BY <2>1, <2>2, <2>3, Released
<1>12. CASE RestoreAfterException(c)
  BY <1>12 DEF RestoreAfterException, NextSdkAttempt
<1>13. CASE Update(c) \/ Sleep(c)
  BY <1>13 DEF Update, Sleep
<1> QED
  BY <1>1, <1>2, <1>3, <1>4, <1>5, <1>6, <1>7, <1>8, <1>9, <1>10, <1>11,
     <1>12, <1>13 DEF Callback

-----------------------------------------------------------------------------
\* What rm_driver, the result callback and the feedback timer do keeps the types
\* and does not touch the lock.
LEMMA OthersStep ==
  ASSUME BridgeInv, UNCHANGED config,
         TakeResult \/ SetEvent \/ FeedbackStart \/ FeedbackEnd \/ DriverServes
  PROVE  BridgeInv'
<1> USE DEF BridgeInv, TypeOK, signal, sdk, node, driver, world, callers
<1>1. TypeOK'
  <2>1. CASE TakeResult
    <3>1. Head(answers) \in Bools /\ Tail(answers) \in Seq(Bools)
      BY <2>1, HeadTailProperties DEF TakeResult
    <3>2. UNCHANGED <<event, arm, alive>>
      BY <2>1 DEF TakeResult
    <3> QED
      BY <2>1, <3>1, <3>2 DEF TakeResult
  <2>2. CASE SetEvent \/ FeedbackStart \/ FeedbackEnd
    BY <2>2 DEF SetEvent, FeedbackStart, FeedbackEnd
  <2>3. CASE DriverServes
    <3>1. Head(requests) \in Requests /\ Tail(requests) \in Seq(Requests)
      BY <2>3, HeadTailProperties DEF DriverServes
    <3>2. \E x \in Bools : answers' = Append(answers, x)
      BY <2>3 DEF DriverServes, Bools
    <3>3. answers' \in Seq(Bools)
      BY <3>2, AppendProperties
    <3>4. requests' \in Seq(Requests)
      BY <2>3, <3>1 DEF DriverServes
    <3>5. hand' \in Callers \union {None} /\ written' \subseteq Callers
      BY <2>3, <3>1 DEF DriverServes, Requests, Request
    <3> QED
      BY <2>3, <3>3, <3>4, <3>5 DEF DriverServes
  <2> QED
    BY <2>1, <2>2, <2>3
<1>2. UNCHANGED <<callers, sdk>>
  BY DEF TakeResult, SetEvent, FeedbackStart, FeedbackEnd, DriverServes
<1>3. (\A c \in Callers : CallerInv(c)') /\ LockInv'
  BY <1>2 DEF CallerInv, LockInv, Holds
<1> QED
  BY <1>1, <1>3

\* Every step preserves the types, the agreement and the lock.
LEMMA StepBridge ==
  ASSUME BridgeInv, [Next]_vars
  PROVE  BridgeInv'
<1>1. ASSUME NEW c \in Callers, Callback(c), UNCHANGED config
      PROVE  BridgeInv'
  <2>1. LocalType' /\ SharedType' /\ FlagType'
    BY <1>1, CallbackLocal, CallbackShared, CallbackFlags
  <2>2. TypeOK'
    BY <2>1, Zenon DEF TypeOK, LocalType, SharedType, FlagType
  <2> QED
    BY <1>1, <2>2, CallbackAgrees, CallbackLock DEF BridgeInv
<1>2. CASE UNCHANGED vars
  BY <1>2 DEF vars, callers, signal, sdk, node, driver, world, BridgeInv,
              TypeOK, CallerInv, LockInv, Holds
<1> QED
  BY <1>1, <1>2, OthersStep DEF Next

\* A node has one of the three backends.
LEMMA BackendValues ==
  ASSUME config \in Configs
  PROVE  /\ config.backend \in {"auto", "rm_driver", "sdk"}
         /\ config.feedback \in BOOLEAN
<1>1. config \in [backend : {"auto", "rm_driver", "sdk"},
                  feedback : BOOLEAN, startup : BOOLEAN, overlap : BOOLEAN]
  BY ConfigsAssumption, Zenon
<1> QED
  BY <1>1

\* The initial states satisfy the inductive invariant.
LEMMA InitBridge == Init => BridgeInv
<1> SUFFICES ASSUME Init
             PROVE  BridgeInv
  OBVIOUS
<1>1. TypeOK
  <2>1. requests \in Seq(Requests)
    <3>1. Request(None, "mode") \in Requests
      BY DEF Requests
    <3>2. <<Request(None, "mode")>> \in Seq(Requests)
      BY <3>1
    <3>3. StartupRequests \in Seq(Requests)
      BY <3>2, EmptySeq DEF StartupRequests
    <3> QED
      BY <3>3 DEF Init
  <2>2. /\ config.backend \in {"auto", "rm_driver", "sdk"}
        /\ config.feedback \in BOOLEAN
    BY BackendValues DEF Init
  <2>3. arm \in BOOLEAN
    BY <2>2, Zenon DEF Init
  <2>4. LocalType
    BY <2>2, CountAssumption
       DEF Init, LocalType, Pcs, RmDriverBackends
  <2>5. SharedType
    BY <2>1, <2>2, EmptySeq
       DEF Init, SharedType, RmDriverBackends
  <2>6. FlagType
    BY <2>3, Zenon DEF Init, FlagType
  <2> QED
    BY <2>4, <2>5, <2>6, Zenon DEF TypeOK, LocalType, SharedType, FlagType
<1>2. \A c \in Callers : CallerInv(c) /\ ~Holds(c) /\ sdkLock # c
  BY CallersAssumption
     DEF Init, CallerInv, Holds, InWrite, RmOnly, SdkOnly, Retrying
<1> QED
  BY <1>1, <1>2 DEF BridgeInv, LockInv

\* The inductive invariant holds.
LEMMA BridgeInvariant == Spec => []BridgeInv
<1>1. BridgeInv /\ [Next]_vars => BridgeInv'
  BY StepBridge
<1> QED
  BY InitBridge, <1>1, PTL DEF Spec

\* Every variable keeps its type: no counter of attempts leaves its loop,
\* whatever fails and wherever the retry goes on.
THEOREM BridgeTypes == Spec => []TypeOK
<1>1. BridgeInv => TypeOK
  BY DEF BridgeInv
<1> QED
  BY BridgeInvariant, <1>1, PTL

\* The lock is never left behind: its owner is still in a block that it
\* protects.
THEOREM SdkLockIsOwned == Spec => []SdkLockOwned
<1>1. BridgeInv => SdkLockOwned
  BY DEF BridgeInv, TypeOK, LockInv, Holds, SdkLockOwned
<1> QED
  BY BridgeInvariant, <1>1, PTL

\* A callback changes only its own local variables.
LEMMA OwnVariables ==
  ASSUME BridgeInv, NEW c \in Callers, Callback(c),
         NEW d \in Callers \ {c}
  PROVE  /\ pc'[d] = pc[d] /\ path'[d] = path[d] /\ kind'[d] = kind[d]
         /\ saved'[d] = saved[d] /\ outcome'[d] = outcome[d]
<1> USE DEF BridgeInv, TypeOK, Step, Fail, Raise, NextSdkAttempt
<1>1. pc'[d] = pc[d]
  BY DEF Callback, Start, ResetResult, ClearEvent, Publish, EventSet,
     TimeOut, LookAtResult, RmAttemptFailed, ReinitThroughDriver,
     ReinitThroughSdk, UnlockedReinit, NextRmAttempt, Fallback, EnsureArm,
     InitArm, SdkLock, SdkWrite, SdkAttemptFailed, ForceSdk, CheckBackend,
     SdkReinit, RestoreBackend, RestoreAfterException, Update, Sleep
<1>2. path'[d] = path[d]
  BY DEF Callback, Start, ResetResult, ClearEvent, Publish, EventSet,
     TimeOut, LookAtResult, RmAttemptFailed, ReinitThroughDriver,
     ReinitThroughSdk, UnlockedReinit, NextRmAttempt, Fallback, EnsureArm,
     InitArm, SdkLock, SdkWrite, SdkAttemptFailed, ForceSdk, CheckBackend,
     SdkReinit, RestoreBackend, RestoreAfterException, Update, Sleep
<1>3. kind'[d] = kind[d]
  BY DEF Callback, Start, ResetResult, ClearEvent, Publish, EventSet,
     TimeOut, LookAtResult, RmAttemptFailed, ReinitThroughDriver,
     ReinitThroughSdk, UnlockedReinit, NextRmAttempt, Fallback, EnsureArm,
     InitArm, SdkLock, SdkWrite, SdkAttemptFailed, ForceSdk, CheckBackend,
     SdkReinit, RestoreBackend, RestoreAfterException, Update, Sleep
<1>4. saved'[d] = saved[d]
  BY DEF Callback, Start, ResetResult, ClearEvent, Publish, EventSet,
     TimeOut, LookAtResult, RmAttemptFailed, ReinitThroughDriver,
     ReinitThroughSdk, UnlockedReinit, NextRmAttempt, Fallback, EnsureArm,
     InitArm, SdkLock, SdkWrite, SdkAttemptFailed, ForceSdk, CheckBackend,
     SdkReinit, RestoreBackend, RestoreAfterException, Update, Sleep
<1>5. outcome'[d] = outcome[d]
  BY DEF Callback, Start, ResetResult, ClearEvent, Publish, EventSet,
     TimeOut, LookAtResult, RmAttemptFailed, ReinitThroughDriver,
     ReinitThroughSdk, UnlockedReinit, NextRmAttempt, Fallback, EnsureArm,
     InitArm, SdkLock, SdkWrite, SdkAttemptFailed, ForceSdk, CheckBackend,
     SdkReinit, RestoreBackend, RestoreAfterException, Update, Sleep
<1> QED
  BY <1>1, <1>2, <1>3, <1>4, <1>5

-----------------------------------------------------------------------------
(***************************************************************************)
(* Who is inside the SDK.                                                  *)
(***************************************************************************)

\* With the backend sdk a callback stays on the way of the SDK.
LEMMA SdkWayKept ==
  ASSUME BridgeInv, WaysInv, config.backend = "sdk", NEW c \in Callers, Callback(c)
  PROVE  pc'[c] \in SdkWay /\ saved'[c] = "sdk" /\ arm' /\ backend' = "sdk"
<1> USE DEF WaysInv, SdkWay, RmDriverBackends, BridgeInv, TypeOK, Step, sdk
<1>1. CASE Start(c) \/ EnsureArm(c) \/ SdkLock(c)
  BY <1>1 DEF Start, EnsureArm, SdkLock
<1>2. CASE SdkWrite(c) \/ SdkAttemptFailed(c)
  BY <1>2 DEF SdkWrite, SdkAttemptFailed, Raise, Fail
<1>3. CASE ForceSdk(c) \/ CheckBackend(c) \/ SdkReinit(c)
  BY <1>3 DEF ForceSdk, CheckBackend, SdkReinit
<1>4. CASE RestoreBackend(c) \/ RestoreAfterException(c)
  BY <1>4 DEF RestoreBackend, RestoreAfterException
<1>5. CASE Update(c) \/ Sleep(c)
  BY <1>5 DEF Update, Sleep
<1>6. pc[c] \in SdkWay
  OBVIOUS
<1> QED
  BY <1>1, <1>2, <1>3, <1>4, <1>5, <1>6
     DEF Callback, ResetResult, ClearEvent, Publish, EventSet, TimeOut,
         LookAtResult, RmAttemptFailed, ReinitThroughDriver, ReinitThroughSdk,
         UnlockedReinit, NextRmAttempt, Fallback, InitArm, Raise, Fail

\* And with rm_driver on the other one.
LEMMA RmWayKept ==
  ASSUME BridgeInv, WaysInv, config.backend = "rm_driver", NEW c \in Callers,
         Callback(c)
  PROVE  pc'[c] \in RmWay /\ path'[c] = "rm" /\ backend' = "rm_driver"
<1> USE DEF WaysInv, RmWay, RmDriverBackends, BridgeInv, TypeOK, Step
<1>1. CASE Start(c) \/ ResetResult(c) \/ ClearEvent(c) \/ Publish(c)
  BY <1>1 DEF Start, ResetResult, ClearEvent, Publish
<1>2. CASE EventSet(c) \/ TimeOut(c) \/ LookAtResult(c)
  BY <1>2 DEF EventSet, TimeOut, LookAtResult, AfterReinit
<1>3. CASE RmAttemptFailed(c) \/ ReinitThroughDriver(c) \/ NextRmAttempt(c)
  BY <1>3 DEF RmAttemptFailed, ReinitThroughDriver, NextRmAttempt
<1>4. CASE Fallback(c)
  BY <1>4 DEF Fallback, Fail
<1>5. CASE Update(c) \/ Sleep(c)
  BY <1>5 DEF Update, Sleep
<1>6. pc[c] \in RmWay
  OBVIOUS
<1> QED
  BY <1>1, <1>2, <1>3, <1>4, <1>5, <1>6
     DEF Callback, ReinitThroughSdk, UnlockedReinit, EnsureArm, InitArm,
         SdkLock, SdkWrite, SdkAttemptFailed, ForceSdk, CheckBackend,
         SdkReinit, RestoreBackend, RestoreAfterException, Raise, Fail

\* So no step takes any callback off its way.
LEMMA StepWays ==
  ASSUME BridgeInv, WaysInv, [Next]_vars
  PROVE  WaysInv'
<1>1. CASE UNCHANGED <<pc, path, backend, arm, saved, config>>
  BY <1>1 DEF WaysInv
<1>2. ASSUME NEW c \in Callers, Callback(c), UNCHANGED config
      PROVE  WaysInv'
  <2>1. \A d \in Callers \ {c} :
          pc'[d] = pc[d] /\ path'[d] = path[d] /\ saved'[d] = saved[d]
    BY <1>2, OwnVariables
  <2>2. CASE config.backend = "sdk"
    BY <1>2, <2>1, <2>2, SdkWayKept DEF WaysInv
  <2>3. CASE config.backend = "rm_driver"
    BY <1>2, <2>1, <2>3, RmWayKept DEF WaysInv
  <2> QED
    BY <1>2, <2>2, <2>3 DEF WaysInv
<1> QED
  BY <1>1, <1>2
     DEF Next, vars, callers, sdk, TakeResult, SetEvent, FeedbackStart,
         FeedbackEnd, DriverServes

\* No two callers meet inside the SDK, for any number of clients, threads and
\* retries and whatever raises, except, with the backend auto, where one of
\* them opens the arm or reinitializes without the lock.
THEOREM SdkIsExclusive == Spec => []SdkExclusive
<1> DEFINE Inv == BridgeInv /\ WaysInv
<1>1. Init => Inv
  BY InitBridge, BackendValues
     DEF Init, WaysInv, SdkWay, RmWay
<1>2. Inv /\ [Next]_vars => Inv'
  BY StepBridge, StepWays
<1>3. Inv => SdkExclusive
  <2> SUFFICES ASSUME BridgeInv, WaysInv, NEW c \in InSdk, NEW d \in InSdk,
                      c # d
               PROVE  config.backend = "auto" /\ {c, d} \cap Unlocked # {}
    BY DEF SdkExclusive
  <2>1. \A e \in InSdk : e \in Unlocked \/ sdkLock = e
    BY DEF BridgeInv, LockInv, Holds, InSdk, Unlocked
  <2>2. c \in Unlocked \/ d \in Unlocked
    BY <2>1
  <2>3. config.backend = "auto"
    BY <2>2, BackendValues
       DEF WaysInv, SdkWay, RmWay, InSdk, Unlocked, BridgeInv, TypeOK
  <2> QED
    BY <2>2, <2>3
<1> QED
  BY <1>1, <1>2, <1>3, PTL DEF Spec

-----------------------------------------------------------------------------
(***************************************************************************)
(* Where trajectories come one after the other.                            *)
(***************************************************************************)

\* Only Start takes a callback up; every other step is one of a callback that
\* runs.
LEMMA OneRuns ==
  ASSUME BridgeInv, AloneInv, ~config.overlap, NEW c \in Callers, Callback(c)
  PROVE  /\ Start(c) => Running = {}
         /\ ~Start(c) => c \in Running
         /\ \A d \in Callers \ {c} : pc[d] \in {"idle", "done"}
<1>1. Start(c) => Running = {}
  BY DEF Start
<1>2. ~Start(c) => c \in Running
  BY DEF Callback, ResetResult, ClearEvent, Publish, EventSet,
     TimeOut, LookAtResult, RmAttemptFailed, ReinitThroughDriver,
     ReinitThroughSdk, UnlockedReinit, NextRmAttempt, Fallback, EnsureArm,
     InitArm, SdkLock, SdkWrite, SdkAttemptFailed, ForceSdk, CheckBackend,
     SdkReinit, RestoreBackend, RestoreAfterException, Update, Sleep, Step,
     Fail, Raise, Running
<1>3. \A d \in Callers \ {c} : d \notin Running
  BY <1>1, <1>2 DEF AloneInv
<1> QED
  BY <1>1, <1>2, <1>3 DEF Running

\* No step makes a second callback run.
LEMMA StepAlone ==
  ASSUME BridgeInv, AloneInv, [Next]_vars
  PROVE  AloneInv'
<1>1. CASE UNCHANGED <<pc, config>>
  BY <1>1 DEF AloneInv, Running
<1>2. ASSUME NEW c \in Callers, Callback(c), UNCHANGED config
      PROVE  AloneInv'
  <2> SUFFICES ASSUME ~config.overlap
               PROVE  \A d, e \in Running' : d = e
    BY <1>2 DEF AloneInv
  <2>1. \A d \in Callers \ {c} : pc'[d] \in {"idle", "done"}
    BY <1>2, OneRuns, OwnVariables
  <2> QED
    BY <2>1 DEF Running
<1> QED
  BY <1>1, <1>2
     DEF Next, vars, callers, TakeResult, SetEvent, FeedbackStart,
         FeedbackEnd, DriverServes

\* No step leaves the backend switched.
LEMMA StepRestore ==
  ASSUME BridgeInv, AloneInv, RestoreInv, [Next]_vars
  PROVE  RestoreInv'
<1>1. CASE UNCHANGED <<pc, path, kind, saved, backend, config>>
  BY <1>1 DEF RestoreInv
<1>2. ASSUME NEW c \in Callers, Callback(c), UNCHANGED config
      PROVE  RestoreInv'
  <2> SUFFICES ASSUME ~config.overlap
               PROVE  RestoreInv'
    BY <1>2 DEF RestoreInv
  <2>1. \A d \in Callers \ {c} :
          /\ pc[d] \notin Switched /\ pc'[d] \notin Switched
          /\ ~(path'[d] = "sdk" /\ kind'[d] = "mode")
    BY <1>2, OneRuns, OwnVariables DEF RestoreInv, Switched
  <2>2. /\ pc[c] \in Switched => backend = "sdk" /\ saved[c] = config.backend
        /\ pc[c] \notin Switched => backend = config.backend
        /\ ~(path[c] = "sdk" /\ kind[c] = "mode")
    BY <2>1 DEF RestoreInv
  <2> DEFINE Good == /\ pc'[c] \in Switched =>
                          backend' = "sdk" /\ saved'[c] = config.backend
                     /\ pc'[c] \notin Switched => backend' = config.backend
                     /\ ~(path'[c] = "sdk" /\ kind'[c] = "mode")
  <2>3. Good
    <3> USE <2>2 DEF BridgeInv, TypeOK, CallerInv, InWrite, RmOnly, SdkOnly,
                     Switched, Step
    <3>1. CASE Start(c)
      BY <3>1 DEF Start
    <3>2. CASE \/ ResetResult(c) \/ ClearEvent(c) \/ Publish(c)
               \/ EventSet(c) \/ TimeOut(c) \/ LookAtResult(c)
      BY <3>2 DEF ResetResult, ClearEvent, Publish, EventSet, TimeOut,
                  LookAtResult, AfterReinit
    <3>3. CASE \/ RmAttemptFailed(c) \/ ReinitThroughDriver(c)
               \/ ReinitThroughSdk(c) \/ UnlockedReinit(c)
               \/ NextRmAttempt(c) \/ Fallback(c)
      BY <3>3 DEF RmAttemptFailed, ReinitThroughDriver, ReinitThroughSdk,
                  UnlockedReinit, NextRmAttempt, Fallback, Raise, Fail
    <3>4. CASE EnsureArm(c) \/ InitArm(c) \/ SdkLock(c) \/ SdkWrite(c)
      BY <3>4 DEF EnsureArm, InitArm, SdkLock, SdkWrite, Raise, Fail
    <3>5. CASE SdkAttemptFailed(c)
      BY <3>5 DEF SdkAttemptFailed, Fail
    <3>6. CASE ForceSdk(c)
      BY <3>6 DEF ForceSdk
    <3>7. CASE CheckBackend(c) \/ SdkReinit(c)
      BY <3>7 DEF CheckBackend, SdkReinit
    <3>8. CASE RestoreBackend(c) \/ RestoreAfterException(c)
      BY <3>8 DEF RestoreBackend, RestoreAfterException, NextSdkAttempt
    <3>9. CASE Update(c) \/ Sleep(c)
      BY <3>9 DEF Update, Sleep
    <3> QED
      BY <1>2, <3>1, <3>2, <3>3, <3>4, <3>5, <3>6, <3>7, <3>8, <3>9
         DEF Callback
  <2> QED
    BY <1>2, <2>1, <2>3 DEF RestoreInv
<1> QED
  BY <1>1, <1>2
     DEF Next, vars, callers, TakeResult, SetEvent, FeedbackStart,
         FeedbackEnd, DriverServes

\* Without overlap the switch of the backend is temporary, for any number of
\* clients, threads and retries and whatever raises.
THEOREM BackendIsRestored == Spec => []BackendRestored
<1> DEFINE Inv == BridgeInv /\ AloneInv /\ RestoreInv
<1>1. Init => Inv
  BY InitBridge
     DEF Init, AloneInv, RestoreInv, Running, Switched
<1>2. Inv /\ [Next]_vars => Inv'
  BY StepBridge, StepAlone, StepRestore
<1>3. Inv => BackendRestored
  BY DEF RestoreInv, BackendRestored, Switched
<1> QED
  BY <1>1, <1>2, <1>3, PTL DEF Spec

-----------------------------------------------------------------------------
(***************************************************************************)
(* Acknowledgements, where goals come one after the other.                 *)
(***************************************************************************)

\* A callback that runs alone leaves the executor a thread for the result.
LEMMA ThreadLeft ==
  ASSUME Threads >= 2, AloneInv, ~config.overlap
  PROVE  Cardinality(Running) < Threads
<1>1. CASE Running = {}
  BY <1>1, FS_EmptySet, CountAssumption
<1>2. CASE Running # {}
  <2>1. PICK c : c \in Running
    BY <1>2
  <2>2. Running = {c}
    BY <2>1 DEF AloneInv
  <2> QED
    BY <2>2, FS_Singleton, CountAssumption
<1> QED
  BY <1>1, <1>2

\* So its wait never times out: whatever the request has become, it is going to
\* set the event.
LEMMA NoTimeOut ==
  ASSUME GoalsInTime, BridgeInv, AloneInv, SerialInv, Serial,
         NEW c \in Callers, TimeOut(c)
  PROVE  FALSE
<1>1. InFlight(c)
  BY DEF SerialInv, FlightInv, TimeOut, Step
<1>2. group \notin Messages /\ Cardinality(Running) < Threads
  BY ThreadLeft DEF GoalsInTime, Serial
<1>3. ~event /\ ~AnswerComing
  BY DEF TimeOut, GoalsInTime
<1> QED
  BY <1>1, <1>2, <1>3 DEF InFlight, AnswerComing, Quiet

\* What a step of a callback does to the invariant of the running caller.
LEMMA SerialCallback ==
  ASSUME GoalsInTime, BridgeInv, AloneInv, SerialInv, Serial,
         NEW c \in Callers, Callback(c), UNCHANGED config
  PROVE  /\ pc'[c] # "wait" => Quiet'
         /\ FlightInv(c)'
         /\ outcome'[c] = "ok" => c \in written'
         /\ written \subseteq written'
         /\ pc'[c] \in {"idle", "done"} /\ outcome'[c] # "fail" => last' = hand'
<1>1. FlightInv(c) /\ (outcome[c] = "ok" => c \in written)
  BY DEF SerialInv, AckMeansWritten
<1>2. pc[c] # "wait" => Quiet
  <2>1. \A d \in Callers \ {c} : pc[d] # "wait"
    BY OneRuns DEF Serial
  <2> QED
    BY <2>1 DEF SerialInv
<1>3. c \in Goals /\ c \notin Messages
  BY DEF GoalsInTime, Callers
<1> USE <1>1, <1>2, <1>3
    DEF BridgeInv, TypeOK, CallerInv, InWrite, RmOnly, SdkOnly, FlightInv,
        Quiet, AtHand, Meant, Step, Return, signal, sdk, node, driver, world
<1>4. CASE Start(c)
  BY <1>4 DEF Start
<1>5. CASE ResetResult(c) \/ ClearEvent(c)
  BY <1>5 DEF ResetResult, ClearEvent
<1>6. CASE Publish(c)
  <2>1. requests' = <<Request(c, kind[c])>>
    BY <1>6 DEF Publish
  <2> QED
    BY <1>6, <2>1 DEF Publish, InFlight
<1>7. CASE EventSet(c)
  BY <1>7 DEF EventSet, InFlight
<1>8. CASE TimeOut(c)
  BY <1>8, NoTimeOut
<1>9. CASE LookAtResult(c)
  BY <1>9 DEF LookAtResult, AfterReinit
<1>10. CASE \/ RmAttemptFailed(c) \/ ReinitThroughDriver(c)
            \/ NextRmAttempt(c)
  BY <1>10 DEF RmAttemptFailed, ReinitThroughDriver, NextRmAttempt
<1>11. CASE ReinitThroughSdk(c) \/ UnlockedReinit(c) \/ Fallback(c)
  BY <1>11 DEF ReinitThroughSdk, UnlockedReinit, Fallback, Raise, Fail
<1>12. CASE EnsureArm(c) \/ InitArm(c) \/ SdkLock(c)
  BY <1>12 DEF EnsureArm, InitArm, SdkLock, Raise, Fail
<1>13. CASE SdkWrite(c)
  BY <1>13 DEF SdkWrite, Raise, Fail
<1>14. CASE SdkAttemptFailed(c)
  BY <1>14 DEF SdkAttemptFailed, Fail
<1>15. CASE ForceSdk(c) \/ CheckBackend(c) \/ SdkReinit(c)
  BY <1>15 DEF ForceSdk, CheckBackend, SdkReinit
<1>16. CASE RestoreBackend(c) \/ RestoreAfterException(c)
  BY <1>16 DEF RestoreBackend, RestoreAfterException, NextSdkAttempt
<1>17. CASE Update(c) \/ Sleep(c)
  BY <1>17 DEF Update, Sleep
<1> QED
  BY <1>4, <1>5, <1>6, <1>7, <1>8, <1>9, <1>10, <1>11, <1>12, <1>13, <1>14,
     <1>15, <1>16, <1>17 DEF Callback

\* rm_driver answers the one request that is under way, and the result callback
\* hands that answer to the caller that made it.
LEMMA SerialOthers ==
  ASSUME GoalsInTime, BridgeInv, AloneInv, SerialInv, Serial,
         UNCHANGED config,
         TakeResult \/ SetEvent \/ FeedbackStart \/ FeedbackEnd \/ DriverServes
  PROVE  SerialInv'
<1>1. CASE FeedbackStart \/ FeedbackEnd
  <2>1. group # "result" /\ group' # "result"
    BY <1>1, CallersAssumption DEF FeedbackStart, FeedbackEnd, None
  <2>2. UNCHANGED <<callers, signal, node, driver, world>>
    BY <1>1 DEF FeedbackStart, FeedbackEnd
  <2>3. Quiet' = Quiet
    BY <2>1, <2>2 DEF Quiet, driver
  <2>4. \A d \in Callers : FlightInv(d) => FlightInv(d)'
    BY <2>1, <2>2, <2>3
       DEF FlightInv, InFlight, Meant, AtHand, callers, signal, node, driver,
           world
  <2> QED
    BY <2>2, <2>3, <2>4
       DEF SerialInv, AckMeansWritten, Running, callers, node, world
<1>2. CASE TakeResult \/ SetEvent \/ DriverServes
  <2>1. UNCHANGED callers /\ last' = last
    BY <1>2 DEF TakeResult, SetEvent, DriverServes, node
  <2>2. ~Quiet
    BY <1>2 DEF TakeResult, SetEvent, DriverServes, Quiet
  <2>3. PICK c \in Callers : pc[c] = "wait"
    BY <2>2 DEF SerialInv
  <2>4. InFlight(c)
    BY <2>3 DEF SerialInv, FlightInv
  <2>5. \A d \in Callers \ {c} : pc[d] \in {"idle", "done"}
    BY <2>3 DEF AloneInv, Serial, Running
  <2>6. InFlight(c)' /\ written \subseteq written'
    <3>1. CASE TakeResult
      <4>1. PICK r \in Bools : answers = <<r>> /\ Meant(c, r)
        BY <2>4, <3>1 DEF TakeResult, InFlight, Quiet
      <4>2. requests = <<>> /\ ~event
        BY <2>4, <3>1 DEF TakeResult, InFlight, Quiet
      <4>3. result' = r /\ answers' = <<>>
        BY <3>1, <4>1 DEF TakeResult
      <4>4. /\ group' = "result" /\ UNCHANGED requests
            /\ UNCHANGED <<event, kind, hand, written>>
        BY <3>1 DEF TakeResult, callers, world
      <4> QED
        BY <4>1, <4>2, <4>3, <4>4 DEF InFlight, Meant, AtHand
    <3>2. CASE SetEvent
      <4>1. requests = <<>> /\ answers = <<>> /\ Meant(c, result)
        BY <2>4, <3>2 DEF SetEvent, InFlight, Quiet
      <4>2. event' /\ group' # "result"
        BY <3>2 DEF SetEvent, None
      <4>3. UNCHANGED <<requests, answers, result, kind, hand, written>>
        BY <3>2 DEF SetEvent, callers, driver, world
      <4> QED
        BY <4>1, <4>2, <4>3 DEF InFlight, Quiet, Meant, AtHand
    <3>3. CASE DriverServes
      <4>1. requests = <<Request(c, kind[c])>> /\ answers = <<>>
            /\ group # "result" /\ ~event
        BY <2>4, <3>3 DEF DriverServes, InFlight, Quiet
      <4>2. Head(requests) = Request(c, kind[c]) /\ Tail(requests) = <<>>
        BY <4>1
      <4>3. PICK r \in Bools : /\ answers' = Append(answers, r)
                               /\ kind[c] = "position" /\ r = "true" =>
                                    hand' = c /\ c \in written'
        BY <3>3, <4>2 DEF DriverServes, Request, Bools
      <4>4. answers' = <<r>>
        BY <4>1, <4>3
      <4>5. written \subseteq written' /\ requests' = <<>>
        BY <3>3, <4>2 DEF DriverServes, world
      <4>6. UNCHANGED <<group, event, kind>>
        BY <3>3 DEF DriverServes, signal, callers
      <4> QED
        BY <4>1, <4>3, <4>4, <4>5, <4>6 DEF InFlight, Meant, AtHand
    <3> QED
      BY <1>2, <3>1, <3>2, <3>3
  <2>7. \A d \in Callers : FlightInv(d)'
    BY <2>1, <2>3, <2>5, <2>6 DEF FlightInv, callers
  <2>8. AckMeansWritten'
    BY <2>1, <2>6 DEF SerialInv, AckMeansWritten, callers
  <2>9. c \in Running' /\ pc'[c] = "wait"
    BY <2>1, <2>3 DEF Running, callers
  <2> QED
    BY <2>7, <2>8, <2>9 DEF SerialInv
<1> QED
  BY <1>1, <1>2

\* Every step preserves the invariant of the serial case.
LEMMA StepSerial ==
  ASSUME GoalsInTime, BridgeInv, AloneInv, SerialInv, [Next]_vars
  PROVE  SerialInv'
<1> SUFFICES ASSUME Serial, UNCHANGED config
             PROVE  SerialInv'
  BY DEF SerialInv, Serial, Next, vars
<1>1. CASE UNCHANGED vars
  BY <1>1 DEF SerialInv, Serial, Quiet, FlightInv, InFlight, Meant, AtHand,
              AckMeansWritten, Running, vars, callers, signal, node, driver,
              world
<1>2. ASSUME NEW c \in Callers, Callback(c)
      PROVE  SerialInv'
  <2>1. \A d \in Callers \ {c} :
          /\ pc[d] \in {"idle", "done"} /\ pc'[d] = pc[d]
          /\ outcome'[d] = outcome[d]
    BY <1>2, OneRuns, OwnVariables DEF Serial
  <2>2. /\ pc'[c] # "wait" => Quiet'
        /\ FlightInv(c)'
        /\ outcome'[c] = "ok" => c \in written'
        /\ written \subseteq written'
        /\ pc'[c] \in {"idle", "done"} /\ outcome'[c] # "fail" => last' = hand'
    BY <1>2, SerialCallback
  <2>3. \A d \in Callers : FlightInv(d)'
    BY <2>1, <2>2 DEF FlightInv
  <2>4. AckMeansWritten'
    BY <2>1, <2>2 DEF SerialInv, AckMeansWritten
  <2>5. Running' = {} => pc'[c] \in {"idle", "done"}
    BY DEF Running
  <2> QED
    BY <2>2, <2>3, <2>4, <2>5 DEF SerialInv
<1> QED
  BY <1>1, <1>2, SerialOthers DEF Next

\* The invariant of the serial case holds.
LEMMA SerialInvariant ==
  ASSUME GoalsInTime
  PROVE  Spec => []SerialInv
<1> DEFINE Inv == BridgeInv /\ AloneInv /\ SerialInv
<1>1. Init => Inv
  <2>1. Init => AloneInv
    BY DEF Init, AloneInv, Running
  <2>2. Init => SerialInv
    BY DEF Init, SerialInv, Serial, Quiet, FlightInv, AckMeansWritten,
           StartupRequests, None
  <2> QED
    BY <2>1, <2>2, InitBridge
<1>2. Inv /\ [Next]_vars => Inv'
  BY StepBridge, StepAlone, StepSerial
<1>3. Inv => SerialInv
  OBVIOUS
<1> QED
  BY <1>1, <1>2, <1>3, PTL DEF Spec

\* A goal that comes alone is answered with success only when its own positions
\* were acknowledged at the hand, for any number of goals and retries, through
\* fallbacks and reinitializations that fail or raise.
THEOREM SerialAcksAreTrue ==
  ASSUME GoalsInTime
  PROVE  Spec => []SerialAckMeansWritten
<1>1. SerialInv => SerialAckMeansWritten
  BY DEF SerialInv, SerialAckMeansWritten
<1> QED
  BY SerialInvariant, <1>1, PTL

\* And what is published between two goals is what the hand was told last.
THEOREM SerialStatesAreTrue ==
  ASSUME GoalsInTime
  PROVE  Spec => []JointStatesFollowHand
<1>1. SerialInv => JointStatesFollowHand
  BY DEF SerialInv, JointStatesFollowHand, Running
<1> QED
  BY SerialInvariant, <1>1, PTL

===============================================================================
