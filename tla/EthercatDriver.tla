--------------------------- MODULE EthercatDriver ---------------------------
(***************************************************************************)
(* The ros2_control hardware component EthercatDriver and the EcMaster it   *)
(* owns, as three threads that share one object:                           *)
(*                                                                         *)
(*   rm   the resource manager's service thread, which calls the lifecycle *)
(*        handlers on_configure, on_activate and on_deactivate;            *)
(*   rt   the controller manager's loop, which calls read() then write();  *)
(*   mon  the health thread that on_activate starts.                       *)
(*                                                                         *)
(* The driver guards itself with ec_mutex_ (a plain std::mutex), which rm   *)
(* takes blocking, rt with try_lock, and mon both ways.  Process data is   *)
(* abstract here (CommandFlow models it): what is kept is who may touch the *)
(* master, when its configuration is live, and what the driver knows of    *)
(* the bus, which is sampled only once every CheckEvery cycles.            *)
(***************************************************************************)
EXTENDS Naturals, FiniteSets

CONSTANTS
  Slaves,      \* ec_modules_: the slaves of this component (left, right hand)
  CheckEvery,  \* check_state_frequency_: cycles between two state samples
  ErrorState   \* the state in which on_error leaves the component (external)

ASSUME CheckEveryAssumption == CheckEvery \in Nat \ {0}
ASSUME ErrorStateAssumption == ErrorState \in {"finalized", "unconfigured"}

VARIABLES
  hwState,           \* lifecycle state ros2_control keeps for the component
  rmPc, rtPc, monPc, \* where each thread is; monPc = "none": not joinable
  ecMutex,           \* owner of ec_mutex_, "free" when nobody holds it
  activated,         \* activated_
  monitorRunning,    \* monitor_running_
  deactivatePending, \* deactivate_pending_
  session,           \* on_activate calls that added slaves: 0, 1, 2 = more
  masterActive,      \* the kernel master holds an active configuration
  handles,           \* domain and domain_pd pointers: none, live or stale
  counter,           \* update_counter_ modulo CheckEvery
  bus,               \* what the bus really is now (environment)
  seen,              \* master_state_ and this session's config_state
  staleOper,         \* an entry of an earlier session is cached operational
  initialized        \* the slaves whose is_operational_ is set

threads == <<rmPc, rtPc, monPc, ecMutex>>
driver  == <<activated, monitorRunning, deactivatePending>>
master  == <<session, masterActive, handles, counter, seen, staleOper,
             initialized>>
vars    == <<hwState, threads, driver, master, bus>>

BusStates == [link : BOOLEAN, responding : BOOLEAN, oper : SUBSET Slaves]

NothingSeen == [link |-> FALSE, responding |-> FALSE, oper |-> {}]

HwStates == {"unconfigured", "inactive", "active", "finalized"}

RmPcs  == {"idle", "act_lock", "act_begin", "startup", "finish",
           "deact_lock", "deact_begin", "deact_join", "aborted"}
RtPcs  == {"read", "reading", "write", "writing", "aborted"}
MonPcs == {"none", "top", "check", "held", "test", "lock", "release",
           "exited", "aborted"}

ThreadsOK ==
  /\ hwState \in HwStates
  /\ rmPc \in RmPcs /\ rtPc \in RtPcs /\ monPc \in MonPcs
  /\ ecMutex \in {"free", "rm", "rt", "mon"}

DriverOK ==
  /\ activated \in BOOLEAN
  /\ monitorRunning \in BOOLEAN
  /\ deactivatePending \in BOOLEAN

MasterOK ==
  /\ session \in 0..2
  /\ masterActive \in BOOLEAN
  /\ handles \in {"none", "live", "stale"}
  /\ counter \in 0..(CheckEvery - 1)
  /\ bus \in BusStates
  /\ seen \in BusStates
  /\ staleOper \in BOOLEAN
  /\ initialized \in SUBSET Slaves

TypeOK == ThreadsOK /\ DriverOK /\ MasterOK

Init ==
  /\ hwState = "unconfigured"
  /\ rmPc = "idle" /\ rtPc = "read" /\ monPc = "none"
  /\ ecMutex = "free"
  /\ activated = FALSE
  /\ monitorRunning = FALSE
  /\ deactivatePending = FALSE
  /\ session = 0
  /\ masterActive = FALSE
  /\ handles = "none"
  /\ counter = 0
  /\ bus \in {b \in BusStates : b.oper = {}}
  /\ seen = NothingSeen
  /\ staleOper = FALSE
  /\ initialized = {}

-----------------------------------------------------------------------------
(***************************************************************************)
(* EcMaster.                                                               *)
(***************************************************************************)

\* anySlaveOperational(): any entry of slave_info_, earlier sessions included.
AnySlaveOperational == seen.oper # {} \/ staleOper

\* The test of read(), write() and the health thread, on cached state only.
Unhealthy ==
  ~seen.link \/ ~seen.responding \/ ~AnySlaveOperational

\* checkSlaveStates(): is_operational_ is assigned only for an entry whose
\* operational bit changed.  An entry of an earlier session reads through a
\* configuration that has been released, so its answer may be anything; it is
\* visited before this session's entry of the same slave.
CheckSlaveStates ==
  LET changed == (seen.oper \ bus.oper) \union (bus.oper \ seen.oper)
      After(before) == (bus.oper \intersect changed)
                         \union (before \ changed)
  IN  IF session = 2
      THEN /\ \E before \in SUBSET Slaves : initialized' = After(before)
           /\ staleOper' \in BOOLEAN
      ELSE /\ initialized' = After(initialized)
           /\ UNCHANGED staleOper

\* Mutant of Cycle: the counter is never reduced.
CycleUnwrapped ==
  /\ counter' = counter + 1
  /\ IF counter = 0
     THEN /\ seen' = bus
          /\ CheckSlaveStates
     ELSE UNCHANGED <<seen, staleOper, initialized>>
  /\ UNCHANGED <<session, masterActive, handles>>

\* The part update() and readData() share: receive, sample the state of the
\* master and of the slaves when the counter says so, count the cycle.
Cycle ==
  /\ counter' = (counter + 1) % CheckEvery
  /\ IF counter = 0
     THEN /\ seen' = bus
          /\ CheckSlaveStates
     ELSE UNCHANGED <<seen, staleOper, initialized>>
  /\ UNCHANGED <<session, masterActive, handles>>

\* addSlave() for every module: slave_info_ grows by fresh entries, while a
\* DomainInfo that exists already is extended and used again.
AddSlaves ==
  /\ session' = IF session = 0 THEN 1 ELSE 2
  /\ handles' = IF handles = "none" THEN "live" ELSE handles
  /\ seen' = [seen EXCEPT !.oper = {}]
  /\ staleOper' = AnySlaveOperational
  /\ UNCHANGED <<counter, initialized>>

\* deactivate(): the kernel drops the configuration and frees the domains.
\* Nothing of slave_info_, domain_info_ or the slaves' flags is reset.
MasterDeactivate ==
  /\ masterActive' = FALSE
  /\ handles' = IF handles = "live" THEN "stale" ELSE handles
  /\ bus' = [bus EXCEPT !.oper = {}]
  /\ UNCHANGED <<session, counter, seen, staleOper, initialized>>

-----------------------------------------------------------------------------
(***************************************************************************)
(* The lifecycle thread.                                                   *)
(***************************************************************************)

Release == ecMutex' = "free"

Acquire(t) == ecMutex = "free" /\ ecMutex' = t

\* on_configure() answers SUCCESS without touching the driver.
Configure ==
  /\ rmPc = "idle" /\ hwState = "unconfigured"
  /\ hwState' = "inactive"
  /\ UNCHANGED <<threads, driver, master, bus>>

\* on_cleanup() is the library's default.
Cleanup ==
  /\ rmPc = "idle" /\ hwState = "inactive"
  /\ hwState' = "unconfigured"
  /\ UNCHANGED <<threads, driver, master, bus>>

\* The resource manager starts a transition.
CallActivate ==
  /\ rmPc = "idle" /\ hwState = "inactive"
  /\ rmPc' = "act_lock"
  /\ UNCHANGED <<hwState, rtPc, monPc, ecMutex, driver, master, bus>>

CallDeactivate ==
  /\ rmPc = "idle" /\ hwState = "active"
  /\ rmPc' = "deact_lock"
  /\ UNCHANGED <<hwState, rtPc, monPc, ecMutex, driver, master, bus>>

ActivateLock ==
  /\ rmPc = "act_lock"
  /\ Acquire("rm")
  /\ rmPc' = "act_begin"
  /\ UNCHANGED <<hwState, rtPc, monPc, driver, master, bus>>

\* on_activate() returns ERROR: the lock is released on the way out and the
\* resource manager runs on_error.
FailActivate ==
  /\ Release
  /\ rmPc' = "idle"
  /\ hwState' = ErrorState
  /\ UNCHANGED <<rtPc, monPc, driver>>

DoubleActivate ==
  /\ rmPc = "act_begin" /\ activated
  /\ FailActivate
  /\ UNCHANGED <<master, bus>>

\* master_.activate() fails, either before ecrt_master_activate succeeded or,
\* when the process data cannot be obtained, after it.
ActivateMasterFails ==
  /\ rmPc = "act_begin" /\ ~activated
  /\ AddSlaves
  /\ masterActive' \in {masterActive, TRUE}
  /\ FailActivate
  /\ UNCHANGED bus

ActivateMaster ==
  /\ rmPc = "act_begin" /\ ~activated
  /\ AddSlaves
  /\ masterActive' = TRUE
  /\ rmPc' = "startup"
  /\ UNCHANGED <<hwState, rtPc, monPc, ecMutex, driver, bus>>

\* Mutant of AllInitialized: one slave is enough.
SomeInitialized == initialized # {}

AllInitialized == initialized = Slaves

\* One turn of the startup loop: update(), then the test of every module.
StartupCycle ==
  /\ rmPc = "startup"
  /\ Cycle
  /\ rmPc' = IF AllInitialized' THEN "finish" ELSE "startup"
  /\ UNCHANGED <<hwState, rtPc, monPc, ecMutex, driver, bus>>

\* Mutant of StartupTimeout: the timeout is logged and the loop goes on.
StartupTimeoutLogged ==
  /\ rmPc = "startup"
  /\ Cycle
  /\ UNCHANGED <<hwState, threads, driver, bus>>

\* The same turn, when startup_timeout_sec has passed at its end: ERROR even
\* if the modules are all initialized by now, and the master stays active.
StartupTimeout ==
  /\ rmPc = "startup"
  /\ Cycle
  /\ FailActivate
  /\ UNCHANGED bus

\* The rest of on_activate(): one readData(), then the health thread.
FinishActivate ==
  /\ rmPc = "finish" /\ monPc = "none"
  /\ activated' = TRUE
  /\ Cycle
  /\ monitorRunning' = TRUE
  /\ monPc' = "top"
  /\ Release
  /\ rmPc' = "idle"
  /\ hwState' = "active"
  /\ UNCHANGED <<rtPc, deactivatePending, bus>>

\* Assigning to health_thread_ while it is joinable is std::terminate(): no
\* thread of the process runs on.
AbortOnThread ==
  /\ rmPc = "finish" /\ monPc # "none"
  /\ activated' = TRUE
  /\ Cycle
  /\ monitorRunning' = TRUE
  /\ rmPc' = "aborted" /\ rtPc' = "aborted" /\ monPc' = "aborted"
  /\ UNCHANGED <<hwState, ecMutex, deactivatePending, bus>>

DeactivateLock ==
  /\ rmPc = "deact_lock"
  /\ Acquire("rm")
  /\ rmPc' = "deact_begin"
  /\ UNCHANGED <<hwState, rtPc, monPc, driver, master, bus>>

\* Mutant of DeactivateBegin: activated_ is left to the health thread.
DeactivateBeginKeepsActivated ==
  /\ rmPc = "deact_begin"
  /\ monitorRunning' = FALSE
  /\ rmPc' = "deact_join"
  /\ UNCHANGED <<hwState, rtPc, monPc, ecMutex, activated, deactivatePending,
                 master, bus>>

DeactivateBegin ==
  /\ rmPc = "deact_begin"
  /\ activated' = FALSE
  /\ monitorRunning' = FALSE
  /\ rmPc' = "deact_join"
  /\ UNCHANGED <<hwState, rtPc, monPc, ecMutex, deactivatePending, master,
                 bus>>

\* Mutant of DeactivateJoin: the thread is not joined.
DeactivateWithoutJoin ==
  /\ rmPc = "deact_join"
  /\ MasterDeactivate
  /\ Release
  /\ rmPc' = "idle"
  /\ hwState' = "inactive"
  /\ UNCHANGED <<rtPc, monPc, driver>>

\* health_thread_.join() returns only when the thread has ended, and ec_mutex_
\* is held all along.
DeactivateJoin ==
  /\ rmPc = "deact_join"
  /\ monPc \in {"none", "exited"}
  /\ monPc' = "none"
  /\ MasterDeactivate
  /\ Release
  /\ rmPc' = "idle"
  /\ hwState' = "inactive"
  /\ UNCHANGED <<rtPc, driver>>

-----------------------------------------------------------------------------
(***************************************************************************)
(* The control loop: read(), the controllers, write().  ros2_control calls  *)
(* them in the states inactive and active, whatever the lifecycle thread is *)
(* doing.                                                                   *)
(***************************************************************************)

Called == hwState \in {"inactive", "active"}

ReadAcquire ==
  /\ rtPc = "read" /\ Called
  /\ Acquire("rt")
  /\ rtPc' = "reading"
  /\ UNCHANGED <<hwState, rmPc, monPc, driver, master, bus>>

\* try_lock fails: read() answers OK and nothing is exchanged.
ReadSkip ==
  /\ rtPc = "read" /\ Called
  /\ ecMutex # "free"
  /\ rtPc' = "write"
  /\ UNCHANGED <<hwState, rmPc, monPc, ecMutex, driver, master, bus>>

WriteAcquire ==
  /\ rtPc = "write" /\ Called
  /\ Acquire("rt")
  /\ rtPc' = "writing"
  /\ UNCHANGED <<hwState, rmPc, monPc, driver, master, bus>>

WriteSkip ==
  /\ rtPc = "write" /\ Called
  /\ ecMutex # "free"
  /\ rtPc' = "read"
  /\ UNCHANGED <<hwState, rmPc, monPc, ecMutex, driver, master, bus>>

\* The body of read() and write() up to the exchange: nothing to do when not
\* activated; ERROR, which runs on_error, when the cached state is unhealthy.
NotActivated ==
  /\ ~activated
  /\ UNCHANGED <<hwState, driver, master>>

ReportOffline ==
  /\ activated /\ Unhealthy
  /\ deactivatePending' = TRUE
  /\ hwState' = ErrorState
  /\ UNCHANGED <<activated, monitorRunning, master>>

\* Mutant of Read: a healthy read() copies the buffers and does not exchange.
ReadWithoutCycle ==
  /\ rtPc = "reading"
  /\ \/ NotActivated
     \/ ReportOffline
     \/ /\ activated /\ ~Unhealthy
        /\ UNCHANGED <<hwState, driver, master>>
  /\ Release
  /\ rtPc' = "write"
  /\ UNCHANGED <<rmPc, monPc, bus>>

Read ==
  /\ rtPc = "reading"
  /\ \/ NotActivated
     \/ ReportOffline
     \/ /\ activated /\ ~Unhealthy
        /\ Cycle
        /\ UNCHANGED <<hwState, driver>>
  /\ Release
  /\ rtPc' = "write"
  /\ UNCHANGED <<rmPc, monPc, bus>>

\* writeData() neither samples the bus nor counts the cycle.
Write ==
  /\ rtPc = "writing"
  /\ \/ NotActivated
     \/ ReportOffline
     \/ /\ activated /\ ~Unhealthy
        /\ UNCHANGED <<hwState, driver, master>>
  /\ Release
  /\ rtPc' = "read"
  /\ UNCHANGED <<rmPc, monPc, bus>>

-----------------------------------------------------------------------------
(***************************************************************************)
(* The health thread.                                                      *)
(***************************************************************************)

MonitorTop ==
  /\ monPc = "top"
  /\ monPc' = IF monitorRunning THEN "check" ELSE "exited"
  /\ UNCHANGED <<hwState, rmPc, rtPc, ecMutex, driver, master, bus>>

MonitorTryLock ==
  /\ monPc = "check"
  /\ IF ecMutex = "free"
     THEN ecMutex' = "mon" /\ monPc' = "held"
     ELSE monPc' = "test" /\ UNCHANGED ecMutex
  /\ UNCHANGED <<hwState, rmPc, rtPc, driver, master, bus>>

MonitorCheck ==
  /\ monPc = "held"
  /\ deactivatePending' = (deactivatePending \/ (activated /\ Unhealthy))
  /\ Release
  /\ monPc' = "test"
  /\ UNCHANGED <<hwState, rmPc, rtPc, activated, monitorRunning, master, bus>>

\* Mutant of MonitorTest: the request is never looked at.
MonitorTestIgnored ==
  /\ monPc = "test"
  /\ monPc' = "top"
  /\ UNCHANGED <<hwState, rmPc, rtPc, ecMutex, driver, master, bus>>

MonitorTest ==
  /\ monPc = "test"
  /\ monPc' = IF deactivatePending THEN "lock" ELSE "top"
  /\ UNCHANGED <<hwState, rmPc, rtPc, ecMutex, driver, master, bus>>

\* Mutant of MonitorLock: the bus is released without the mutex.
MonitorWithoutLock ==
  /\ monPc = "lock"
  /\ monPc' = "release"
  /\ UNCHANGED <<hwState, rmPc, rtPc, ecMutex, driver, master, bus>>

\* std::lock_guard: waits for the mutex, whoever holds it.
MonitorLock ==
  /\ monPc = "lock"
  /\ Acquire("mon")
  /\ monPc' = "release"
  /\ UNCHANGED <<hwState, rmPc, rtPc, driver, master, bus>>

\* Mutant of MonitorRelease: activated_ outlives the configuration.
MonitorReleaseKeepsActivated ==
  /\ monPc = "release"
  /\ MasterDeactivate
  /\ deactivatePending' = FALSE
  /\ Release
  /\ monPc' = "top"
  /\ UNCHANGED <<hwState, rmPc, rtPc, activated, monitorRunning>>

MonitorRelease ==
  /\ monPc = "release"
  /\ MasterDeactivate
  /\ activated' = FALSE
  /\ deactivatePending' = FALSE
  /\ Release
  /\ monPc' = "top"
  /\ UNCHANGED <<hwState, rmPc, rtPc, monitorRunning>>

-----------------------------------------------------------------------------
\* The bus on its own: cables, power, slaves entering and leaving OP.  A slave
\* is operational only under an active master.
BusChanges ==
  /\ bus' \in BusStates
  /\ bus'.oper # {} => masterActive /\ bus'.link /\ bus'.responding
  /\ UNCHANGED <<hwState, threads, driver, master>>

Rm ==
  \/ Configure \/ Cleanup
  \/ CallActivate \/ ActivateLock \/ DoubleActivate
  \/ ActivateMasterFails \/ ActivateMaster
  \/ StartupCycle \/ StartupTimeout
  \/ FinishActivate \/ AbortOnThread
  \/ CallDeactivate \/ DeactivateLock \/ DeactivateBegin \/ DeactivateJoin

Rt == ReadAcquire \/ ReadSkip \/ Read \/ WriteAcquire \/ WriteSkip \/ Write

Monitor ==
  \/ MonitorTop \/ MonitorTryLock \/ MonitorCheck
  \/ MonitorTest \/ MonitorLock \/ MonitorRelease

Next == Rm \/ Rt \/ Monitor \/ BusChanges

Spec == Init /\ [][Next]_vars

(***************************************************************************)
(* Fairness.  Every thread is scheduled, so a step it can take and keeps    *)
(* being able to take is taken; the clock advances, so the startup timeout  *)
(* does pass.  rt holds the mutex for a moment of every control period and  *)
(* mon for a moment of every 50 ms, so whoever waits for it gets it some    *)
(* time (strong fairness), and not every read() falls into the moment in    *)
(* which mon holds it.  No lifecycle call and no change of the bus is ever  *)
(* owed.                                                                    *)
(***************************************************************************)
ReadsDoNotAlwaysCollide ==
  []<><<ReadSkip /\ ecMutex = "mon">>_vars => []<><<ReadAcquire>>_vars

Fairness ==
  /\ WF_vars(ActivateMaster \/ ActivateMasterFails \/ DoubleActivate)
  /\ WF_vars(StartupTimeout)
  /\ WF_vars(StartupCycle \/ FinishActivate \/ AbortOnThread)
  /\ WF_vars(DeactivateBegin \/ DeactivateJoin)
  /\ SF_vars(ActivateLock) /\ SF_vars(DeactivateLock)
  /\ WF_vars(Rt) /\ ReadsDoNotAlwaysCollide
  /\ WF_vars(MonitorTop \/ MonitorTryLock \/ MonitorCheck \/ MonitorTest
               \/ MonitorRelease)
  /\ SF_vars(MonitorLock)

FairSpec == Spec /\ Fairness
-----------------------------------------------------------------------------
(***************************************************************************)
(* Safety.                                                                 *)
(***************************************************************************)

\* The threads that are at a point of the code where they use the master or
\* the driver's plain (not atomic) members.
RmUses  == rmPc \in {"act_begin", "startup", "finish", "deact_begin",
                     "deact_join"}
RtUses  == rtPc \in {"reading", "writing"}
MonUses == monPc \in {"held", "release"}

\* No two of the three threads are inside the master at once, although rt
\* never blocks and mon takes the mutex in two different ways.
ExclusiveUse ==
  /\ ~(RmUses /\ RtUses)
  /\ ~(RmUses /\ MonUses)
  /\ ~(RtUses /\ MonUses)

\* Process data is exchanged only under an active master: while the startup
\* loop runs, and whenever rt or mon could find activated_ set.  The health
\* thread releases the master behind the lifecycle's back, so activated_ must
\* never outlive the configuration.
MappedWhileUsed ==
  activated \/ rmPc \in {"startup", "finish"} => masterActive

\* on_activate() never assigns a new thread over one that is still joinable,
\* which would terminate the whole controller manager.
NoAbort == rmPc # "aborted"

\* The first activation ends its wait only when the state sampled in it shows
\* every slave operational: is_operational_, which only changes of a cached
\* bit update, agrees with the last sample.
FirstStartOperational ==
  [][rmPc = "startup" /\ rmPc' = "finish" /\ session = 1
       => seen'.oper = Slaves]_vars

\* Process data is exchanged only through pointers of the configuration that
\* is active: the registration array says "do not modify after active(), or
\* may invalidate".
MappingLive ==
  activated \/ rmPc \in {"startup", "finish"} => handles = "live"

-----------------------------------------------------------------------------
(***************************************************************************)
(* The inductive strengthenings the proofs use.                            *)
(***************************************************************************)

\* Whoever is inside the master owns ec_mutex_.
LockInv ==
  /\ RmUses => ecMutex = "rm"
  /\ RtUses => ecMutex = "rt"
  /\ MonUses => ecMutex = "mon"

\* on_deactivate() has cleared activated_ before it releases the master.
ConfigInv ==
  /\ LockInv
  /\ MappedWhileUsed
  /\ rmPc = "deact_join" => ~activated

\* When on_error finalizes the component, a component that can be activated
\* has no health thread.
ThreadInv ==
  /\ rmPc \in {"act_lock", "act_begin", "startup", "finish"} => monPc = "none"
  /\ rmPc = "idle" /\ hwState \in {"unconfigured", "inactive"}
       => monPc = "none"
  /\ NoAbort

\* During the first activation is_operational_ agrees with the last sample.
SampleInv ==
  /\ session = 0 => /\ initialized = {} /\ ~activated
                    /\ rmPc \notin {"startup", "finish"}
  /\ session = 1 => initialized = seen.oper

\* The three strengthenings together: in every reachable state the mutex, the
\* flags, the health thread and the sampled state fit together.
IndInv == ConfigInv /\ ThreadInv /\ SampleInv

-----------------------------------------------------------------------------
(***************************************************************************)
(* The abstract specification that the driver implements.                  *)
(***************************************************************************)

\* The thread inside the master is told by the program counters, not by the
\* mutex; process data may be exchanged in the startup loop and by whoever finds
\* activated_ set.
Lease == INSTANCE BusLease WITH
  user    <- IF RmUses THEN "rm" ELSE IF RtUses THEN "rt"
             ELSE IF MonUses THEN "mon" ELSE "free",
  leased  <- masterActive,
  serving <- activated \/ rmPc \in {"startup", "finish"}

\* Every step of the driver is one that BusLease allows, or leaves the bus alone.
ImplementsLease == Lease!Spec

-----------------------------------------------------------------------------
(***************************************************************************)
(* Liveness, under FairSpec.                                               *)
(***************************************************************************)

\* A link that goes down and stays down is noticed although the state is
\* sampled only every CheckEvery cycles and rt gives way to every holder of
\* the mutex: the driver stops exchanging.
OfflineNoticed == (activated /\ ~bus.link) ~> (~activated \/ bus.link)

\* A request to release the bus, whoever raised it, is carried out while the
\* driver is activated.
PendingReleases == (activated /\ deactivatePending) ~> ~activated

\* on_activate() never waits for ever in its startup loop, whatever the bus
\* does, and so gives the mutex back.
StartupEnds == rmPc = "startup" ~> rmPc # "startup"

\* "Detect the link and the slaves' online/OP state, on an abnormality
\* degrade and release": once the release is pending the master is released.
ReleaseHappens == deactivatePending ~> ~masterActive
=============================================================================
