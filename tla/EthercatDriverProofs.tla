------------------------ MODULE EthercatDriverProofs ------------------------
(***************************************************************************)
(* Theorems about EthercatDriver, for every set of slaves, every sampling   *)
(* period and (unless the theorem says otherwise) both outcomes of          *)
(* on_error.                                                               *)
(***************************************************************************)
EXTENDS EthercatDriver, TLAPS

-----------------------------------------------------------------------------
(***************************************************************************)
(* Type correctness.                                                       *)
(***************************************************************************)

\* A cycle of the master keeps the types of what it assigns.
LEMMA CycleType ==
  ASSUME TypeOK, Cycle
  PROVE  /\ counter' \in 0..(CheckEvery - 1)
         /\ seen' \in BusStates
         /\ staleOper' \in BOOLEAN
         /\ initialized' \in SUBSET Slaves
         /\ session' \in 0..2
         /\ masterActive' \in BOOLEAN
         /\ handles' \in {"none", "live", "stale"}
<1>1. counter' \in 0..(CheckEvery - 1)
  BY CheckEveryAssumption DEF TypeOK, MasterOK, Cycle
<1>2. seen' \in BusStates
  BY DEF TypeOK, MasterOK, Cycle
<1>3. bus.oper \in SUBSET Slaves /\ seen.oper \in SUBSET Slaves
  BY DEF TypeOK, MasterOK, BusStates
<1>4. staleOper' \in BOOLEAN /\ initialized' \in SUBSET Slaves
  BY <1>3 DEF TypeOK, MasterOK, Cycle, CheckSlaveStates
<1> QED
  BY <1>1, <1>2, <1>4 DEF TypeOK, MasterOK, Cycle

\* Adding the slaves keeps the types of what it assigns.
LEMMA AddSlavesType ==
  ASSUME TypeOK, AddSlaves
  PROVE  /\ session' \in 0..2
         /\ handles' \in {"none", "live", "stale"}
         /\ seen' \in BusStates
         /\ staleOper' \in BOOLEAN
         /\ counter' = counter /\ initialized' = initialized
<1>1. seen' \in BusStates
  BY DEF TypeOK, MasterOK, AddSlaves, BusStates
<1>2. staleOper' \in BOOLEAN
  BY DEF TypeOK, MasterOK, AddSlaves, AnySlaveOperational
<1> QED
  BY <1>1, <1>2 DEF TypeOK, MasterOK, AddSlaves

\* Releasing the master keeps the types of what it assigns.
LEMMA MasterDeactivateType ==
  ASSUME TypeOK, MasterDeactivate
  PROVE  /\ masterActive' \in BOOLEAN
         /\ handles' \in {"none", "live", "stale"}
         /\ bus' \in BusStates
         /\ UNCHANGED <<session, counter, seen, staleOper, initialized>>
<1>1. bus' \in BusStates
  BY DEF TypeOK, MasterOK, MasterDeactivate, BusStates
<1> QED
  BY <1>1 DEF TypeOK, MasterOK, MasterDeactivate

\* The variables of every reachable state have their types.
THEOREM TypeCorrect == Spec => []TypeOK
<1>1. Init => TypeOK
  <2> SUFFICES ASSUME Init
               PROVE  TypeOK
    OBVIOUS
  <2>1. ThreadsOK
    BY DEF Init, ThreadsOK, HwStates, RmPcs, RtPcs, MonPcs
  <2>2. DriverOK
    BY Zenon DEF Init, DriverOK
  <2>3. NothingSeen \in BusStates
    BY DEF NothingSeen, BusStates
  <2>4. masterActive \in BOOLEAN /\ staleOper \in BOOLEAN
    BY Zenon DEF Init
  <2>5. MasterOK
    BY <2>3, <2>4, CheckEveryAssumption DEF Init, MasterOK
  <2> QED
    BY <2>1, <2>2, <2>5 DEF TypeOK
<1>2. TypeOK /\ [Next]_vars => TypeOK'
  <2> SUFFICES ASSUME TypeOK, [Next]_vars
               PROVE  TypeOK'
    OBVIOUS
  <2> USE DEF TypeOK, ThreadsOK, DriverOK, MasterOK, HwStates, RmPcs, RtPcs,
              MonPcs, Called, threads, driver, master
  <2>1. CASE Configure
    BY <2>1 DEF Configure
  <2>2. CASE Cleanup
    BY <2>2 DEF Cleanup
  <2>3. CASE CallActivate
    BY <2>3 DEF CallActivate
  <2>4. CASE ActivateLock
    BY <2>4 DEF ActivateLock, Acquire
  <2>5. CASE DoubleActivate
    BY <2>5, ErrorStateAssumption DEF DoubleActivate, FailActivate, Release
  <2>6. CASE ActivateMasterFails
    BY <2>6, AddSlavesType, ErrorStateAssumption, ZenonT(60)
       DEF ActivateMasterFails, FailActivate, Release
  <2>7. CASE ActivateMaster
    BY <2>7, AddSlavesType DEF ActivateMaster
  <2>8. CASE StartupCycle
    BY <2>8, CycleType DEF StartupCycle, AllInitialized
  <2>9. CASE StartupTimeout
    BY <2>9, CycleType, ErrorStateAssumption
       DEF StartupTimeout, FailActivate, Release
  <2>10. CASE FinishActivate
    BY <2>10, CycleType DEF FinishActivate, Release
  <2>11. CASE AbortOnThread
    BY <2>11, CycleType DEF AbortOnThread
  <2>12. CASE CallDeactivate
    BY <2>12 DEF CallDeactivate
  <2>13. CASE DeactivateLock
    BY <2>13 DEF DeactivateLock, Acquire
  <2>14. CASE DeactivateBegin
    <3>1. DriverOK'
      BY <2>14, Zenon DEF DeactivateBegin
    <3> QED
      BY <2>14, <3>1 DEF DeactivateBegin
  <2>15. CASE DeactivateJoin
    BY <2>15, MasterDeactivateType DEF DeactivateJoin, Release
  <2>16. CASE ReadAcquire
    BY <2>16 DEF ReadAcquire, Acquire
  <2>17. CASE ReadSkip
    BY <2>17 DEF ReadSkip
  <2>18. CASE Read
    <3>1. CASE NotActivated
      BY <2>18, <3>1 DEF Read, NotActivated, Release
    <3>2. CASE ReportOffline
      <4>1. DriverOK'
        BY <3>2, Zenon DEF ReportOffline
      <4> QED
        BY <2>18, <3>2, <4>1, ErrorStateAssumption
        DEF Read, ReportOffline, Release
    <3>3. CASE Cycle /\ UNCHANGED <<hwState, driver>>
      BY <2>18, <3>3, CycleType DEF Read, Release
    <3> QED
      BY <2>18, <3>1, <3>2, <3>3 DEF Read
  <2>19. CASE WriteAcquire
    BY <2>19 DEF WriteAcquire, Acquire
  <2>20. CASE WriteSkip
    BY <2>20 DEF WriteSkip
  <2>21. CASE Write
    <3>1. CASE NotActivated \/ UNCHANGED <<hwState, driver, master>>
      BY <2>21, <3>1 DEF Write, NotActivated, Release
    <3>2. CASE ReportOffline
      <4>1. DriverOK'
        BY <3>2, Zenon DEF ReportOffline
      <4> QED
        BY <2>21, <3>2, <4>1, ErrorStateAssumption
        DEF Write, ReportOffline, Release
    <3> QED
      BY <2>21, <3>1, <3>2 DEF Write
  <2>22. CASE MonitorTop
    BY <2>22 DEF MonitorTop
  <2>23. CASE MonitorTryLock
    BY <2>23 DEF MonitorTryLock
  <2>24. CASE MonitorCheck
    BY <2>24 DEF MonitorCheck, Release
  <2>25. CASE MonitorTest
    BY <2>25 DEF MonitorTest
  <2>26. CASE MonitorLock
    BY <2>26 DEF MonitorLock, Acquire
  <2>27. CASE MonitorRelease
    BY <2>27, MasterDeactivateType, ZenonT(60) DEF MonitorRelease, Release
  <2>28. CASE BusChanges
    BY <2>28 DEF BusChanges
  <2>29. CASE UNCHANGED vars
    BY <2>29 DEF vars
  <2> QED
    BY <2>1, <2>2, <2>3, <2>4, <2>5, <2>6, <2>7, <2>8, <2>9, <2>10, <2>11,
       <2>12, <2>13, <2>14, <2>15, <2>16, <2>17, <2>18, <2>19, <2>20, <2>21,
       <2>22, <2>23, <2>24, <2>25, <2>26, <2>27, <2>28, <2>29
       DEF Next, Rm, Rt, Monitor
<1> QED
  BY <1>1, <1>2, PTL DEF Spec

-----------------------------------------------------------------------------
(* Exclusive use and the live configuration.                               *)

\* ConfigInv is inductive: the mutex is owned by whoever is inside the master,
\* and activated_ is cleared in the critical section that releases it.
LEMMA ConfigInductive == Spec => []ConfigInv
<1>1. Init => ConfigInv
  BY DEF Init, ConfigInv, LockInv, MappedWhileUsed, RmUses, RtUses, MonUses
<1>2. ConfigInv /\ [Next]_vars => ConfigInv'
  <2> SUFFICES ASSUME ConfigInv, [Next]_vars
               PROVE  ConfigInv'
    OBVIOUS
  <2> USE DEF ConfigInv, LockInv, MappedWhileUsed, RmUses, RtUses, MonUses,
              threads, driver, master
  <2>1. CASE Configure
    BY <2>1 DEF Configure
  <2>2. CASE Cleanup
    BY <2>2 DEF Cleanup
  <2>3. CASE CallActivate
    BY <2>3 DEF CallActivate
  <2>4. CASE ActivateLock
    BY <2>4 DEF ActivateLock, Acquire
  <2>5. CASE DoubleActivate
    BY <2>5 DEF DoubleActivate, FailActivate, Release
  <2>6. CASE ActivateMasterFails
    BY <2>6 DEF ActivateMasterFails, FailActivate, Release, AddSlaves
  <2>7. CASE ActivateMaster
    BY <2>7 DEF ActivateMaster, AddSlaves
  <2>8. CASE StartupCycle
    BY <2>8 DEF StartupCycle, Cycle
  <2>9. CASE StartupTimeout
    BY <2>9 DEF StartupTimeout, Cycle, FailActivate, Release
  <2>10. CASE FinishActivate
    BY <2>10 DEF FinishActivate, Cycle, Release
  <2>11. CASE AbortOnThread
    BY <2>11 DEF AbortOnThread, Cycle
  <2>12. CASE CallDeactivate
    BY <2>12 DEF CallDeactivate
  <2>13. CASE DeactivateLock
    BY <2>13 DEF DeactivateLock, Acquire
  <2>14. CASE DeactivateBegin
    BY <2>14 DEF DeactivateBegin
  <2>15. CASE DeactivateJoin
    BY <2>15 DEF DeactivateJoin, MasterDeactivate, Release
  <2>16. CASE ReadAcquire
    BY <2>16 DEF ReadAcquire, Acquire
  <2>17. CASE ReadSkip
    BY <2>17 DEF ReadSkip
  <2>18. CASE Read
    BY <2>18 DEF Read, NotActivated, ReportOffline, Cycle, Release
  <2>19. CASE WriteAcquire
    BY <2>19 DEF WriteAcquire, Acquire
  <2>20. CASE WriteSkip
    BY <2>20 DEF WriteSkip
  <2>21. CASE Write
    BY <2>21 DEF Write, NotActivated, ReportOffline, Release
  <2>22. CASE MonitorTop
    BY <2>22 DEF MonitorTop
  <2>23. CASE MonitorTryLock
    BY <2>23 DEF MonitorTryLock
  <2>24. CASE MonitorCheck
    BY <2>24 DEF MonitorCheck, Release
  <2>25. CASE MonitorTest
    BY <2>25 DEF MonitorTest
  <2>26. CASE MonitorLock
    BY <2>26 DEF MonitorLock, Acquire
  <2>27. CASE MonitorRelease
    BY <2>27 DEF MonitorRelease, MasterDeactivate, Release
  <2>28. CASE BusChanges
    BY <2>28 DEF BusChanges
  <2>29. CASE UNCHANGED vars
    BY <2>29 DEF vars
  <2> QED
    BY <2>1, <2>2, <2>3, <2>4, <2>5, <2>6, <2>7, <2>8, <2>9, <2>10, <2>11,
       <2>12, <2>13, <2>14, <2>15, <2>16, <2>17, <2>18, <2>19, <2>20, <2>21,
       <2>22, <2>23, <2>24, <2>25, <2>26, <2>27, <2>28, <2>29
       DEF Next, Rm, Rt, Monitor
<1> QED
  BY <1>1, <1>2, PTL DEF Spec

\* No two threads are inside the master at once (ExclusiveUse), for every
\* number of slaves and whatever on_error answers.
THEOREM MutualExclusion == Spec => []ExclusiveUse
<1>1. ConfigInv => ExclusiveUse
  BY DEF ConfigInv, LockInv, ExclusiveUse
<1> QED
  BY <1>1, ConfigInductive, PTL

\* Process data is exchanged only while the master holds an active
\* configuration (MappedWhileUsed), although the health thread releases it
\* asynchronously.
THEOREM ExchangeIsMapped == Spec => []MappedWhileUsed
<1>1. ConfigInv => MappedWhileUsed
  BY DEF ConfigInv
<1> QED
  BY <1>1, ConfigInductive, PTL

-----------------------------------------------------------------------------
(* The health thread is never overwritten.                                 *)

\* If on_error finalizes the component, ThreadInv is inductive.
LEMMA ThreadInductive ==
  ASSUME ErrorState = "finalized"
  PROVE  Spec => []ThreadInv
<1>1. Init => ThreadInv
  BY DEF Init, ThreadInv, NoAbort
<1>2. ThreadInv /\ [Next]_vars => ThreadInv'
  <2> SUFFICES ASSUME ThreadInv, [Next]_vars
               PROVE  ThreadInv'
    OBVIOUS
  <2> USE DEF ThreadInv, NoAbort, threads, driver, master
  <2>1. CASE Configure
    BY <2>1 DEF Configure
  <2>2. CASE Cleanup
    BY <2>2 DEF Cleanup
  <2>3. CASE CallActivate
    BY <2>3 DEF CallActivate
  <2>4. CASE ActivateLock
    BY <2>4 DEF ActivateLock, Acquire
  <2>5. CASE DoubleActivate
    BY <2>5 DEF DoubleActivate, FailActivate, Release
  <2>6. CASE ActivateMasterFails
    BY <2>6 DEF ActivateMasterFails, FailActivate, Release, AddSlaves
  <2>7. CASE ActivateMaster
    BY <2>7 DEF ActivateMaster, AddSlaves
  <2>8. CASE StartupCycle
    BY <2>8 DEF StartupCycle, Cycle
  <2>9. CASE StartupTimeout
    BY <2>9 DEF StartupTimeout, Cycle, FailActivate, Release
  <2>10. CASE FinishActivate
    BY <2>10 DEF FinishActivate, Cycle, Release
  <2>11. CASE AbortOnThread
    BY <2>11 DEF AbortOnThread, Cycle
  <2>12. CASE CallDeactivate
    BY <2>12 DEF CallDeactivate
  <2>13. CASE DeactivateLock
    BY <2>13 DEF DeactivateLock, Acquire
  <2>14. CASE DeactivateBegin
    BY <2>14 DEF DeactivateBegin
  <2>15. CASE DeactivateJoin
    BY <2>15 DEF DeactivateJoin, MasterDeactivate, Release
  <2>16. CASE ReadAcquire
    BY <2>16 DEF ReadAcquire, Acquire
  <2>17. CASE ReadSkip
    BY <2>17 DEF ReadSkip
  <2>18. CASE Read
    BY <2>18 DEF Read, NotActivated, ReportOffline, Cycle, Release
  <2>19. CASE WriteAcquire
    BY <2>19 DEF WriteAcquire, Acquire
  <2>20. CASE WriteSkip
    BY <2>20 DEF WriteSkip
  <2>21. CASE Write
    BY <2>21 DEF Write, NotActivated, ReportOffline, Release
  <2>22. CASE MonitorTop
    BY <2>22 DEF MonitorTop
  <2>23. CASE MonitorTryLock
    BY <2>23 DEF MonitorTryLock
  <2>24. CASE MonitorCheck
    BY <2>24 DEF MonitorCheck, Release
  <2>25. CASE MonitorTest
    BY <2>25 DEF MonitorTest
  <2>26. CASE MonitorLock
    BY <2>26 DEF MonitorLock, Acquire
  <2>27. CASE MonitorRelease
    BY <2>27 DEF MonitorRelease, MasterDeactivate, Release
  <2>28. CASE BusChanges
    BY <2>28 DEF BusChanges
  <2>29. CASE UNCHANGED vars
    BY <2>29 DEF vars
  <2> QED
    BY <2>1, <2>2, <2>3, <2>4, <2>5, <2>6, <2>7, <2>8, <2>9, <2>10, <2>11,
       <2>12, <2>13, <2>14, <2>15, <2>16, <2>17, <2>18, <2>19, <2>20, <2>21,
       <2>22, <2>23, <2>24, <2>25, <2>26, <2>27, <2>28, <2>29
       DEF Next, Rm, Rt, Monitor
<1> QED
  BY <1>1, <1>2, PTL DEF Spec

\* If on_error finalizes the component then on_activate never terminates the
\* process by assigning to a joinable health_thread_ (NoAbort).
THEOREM NeverAborts ==
  ASSUME ErrorState = "finalized"
  PROVE  Spec => []NoAbort
<1>1. ThreadInv => NoAbort
  BY DEF ThreadInv
<1> QED
  BY <1>1, ThreadInductive, PTL

-----------------------------------------------------------------------------
(* The first activation waits for operational slaves.                      *)

\* In the first activation a cycle leaves is_operational_ equal to the cached
\* operational bits: both follow the sample.
LEMMA CycleAgrees ==
  ASSUME Cycle
  PROVE  /\ session' = session
         /\ session = 1 /\ initialized = seen.oper
              => initialized' = seen'.oper
<1>1. CASE counter = 0
  BY <1>1 DEF Cycle, CheckSlaveStates
<1>2. CASE counter # 0
  BY <1>2 DEF Cycle
<1> QED
  BY <1>1, <1>2

\* SampleInv is inductive.
LEMMA SampleInductive == Spec => []SampleInv
<1>1. Init => SampleInv
  BY DEF Init, SampleInv, NothingSeen
<1>2. SampleInv /\ [Next]_vars => SampleInv'
  <2> SUFFICES ASSUME SampleInv, [Next]_vars
               PROVE  SampleInv'
    OBVIOUS
  <2> USE DEF SampleInv, threads, driver, master
  <2>1. CASE Configure
    BY <2>1 DEF Configure
  <2>2. CASE Cleanup
    BY <2>2 DEF Cleanup
  <2>3. CASE CallActivate
    BY <2>3 DEF CallActivate
  <2>4. CASE ActivateLock
    BY <2>4 DEF ActivateLock, Acquire
  <2>5. CASE DoubleActivate
    BY <2>5 DEF DoubleActivate, FailActivate, Release
  <2>6. CASE ActivateMasterFails
    BY <2>6 DEF ActivateMasterFails, FailActivate, Release, AddSlaves
  <2>7. CASE ActivateMaster
    BY <2>7 DEF ActivateMaster, AddSlaves
  <2>8. CASE StartupCycle
    BY <2>8, CycleAgrees DEF StartupCycle
  <2>9. CASE StartupTimeout
    BY <2>9, CycleAgrees DEF StartupTimeout, FailActivate, Release
  <2>10. CASE FinishActivate
    BY <2>10, CycleAgrees DEF FinishActivate, Release
  <2>11. CASE AbortOnThread
    BY <2>11, CycleAgrees DEF AbortOnThread
  <2>12. CASE CallDeactivate
    BY <2>12 DEF CallDeactivate
  <2>13. CASE DeactivateLock
    BY <2>13 DEF DeactivateLock, Acquire
  <2>14. CASE DeactivateBegin
    BY <2>14 DEF DeactivateBegin
  <2>15. CASE DeactivateJoin
    BY <2>15 DEF DeactivateJoin, MasterDeactivate, Release
  <2>16. CASE ReadAcquire
    BY <2>16 DEF ReadAcquire, Acquire
  <2>17. CASE ReadSkip
    BY <2>17 DEF ReadSkip
  <2>18. CASE Read
    BY <2>18, CycleAgrees DEF Read, NotActivated, ReportOffline
  <2>19. CASE WriteAcquire
    BY <2>19 DEF WriteAcquire, Acquire
  <2>20. CASE WriteSkip
    BY <2>20 DEF WriteSkip
  <2>21. CASE Write
    BY <2>21 DEF Write, NotActivated, ReportOffline, Release
  <2>22. CASE MonitorTop
    BY <2>22 DEF MonitorTop
  <2>23. CASE MonitorTryLock
    BY <2>23 DEF MonitorTryLock
  <2>24. CASE MonitorCheck
    BY <2>24 DEF MonitorCheck, Release
  <2>25. CASE MonitorTest
    BY <2>25 DEF MonitorTest
  <2>26. CASE MonitorLock
    BY <2>26 DEF MonitorLock, Acquire
  <2>27. CASE MonitorRelease
    BY <2>27 DEF MonitorRelease, MasterDeactivate, Release
  <2>28. CASE BusChanges
    BY <2>28 DEF BusChanges
  <2>29. CASE UNCHANGED vars
    BY <2>29 DEF vars
  <2> QED
    BY <2>1, <2>2, <2>3, <2>4, <2>5, <2>6, <2>7, <2>8, <2>9, <2>10, <2>11,
       <2>12, <2>13, <2>14, <2>15, <2>16, <2>17, <2>18, <2>19, <2>20, <2>21,
       <2>22, <2>23, <2>24, <2>25, <2>26, <2>27, <2>28, <2>29
       DEF Next, Rm, Rt, Monitor
<1> QED
  BY <1>1, <1>2, PTL DEF Spec

\* The first activation ends its wait only with every slave sampled
\* operational in it (FirstStartOperational).
THEOREM FirstStart == Spec => FirstStartOperational
<1> DEFINE Ends == rmPc = "startup" /\ rmPc' = "finish" /\ session = 1
<1>1. SampleInv /\ [Next]_vars => [Ends => seen'.oper = Slaves]_vars
  <2> SUFFICES ASSUME SampleInv, Next, Ends
               PROVE  seen'.oper = Slaves
    BY Zenon
  <2>1. StartupCycle
    BY DEF Next, Rm, Rt, Monitor, Configure, Cleanup, CallActivate,
           ActivateLock, Acquire, DoubleActivate, FailActivate,
           ActivateMasterFails, ActivateMaster, StartupTimeout,
           FinishActivate, AbortOnThread, CallDeactivate, DeactivateLock,
           DeactivateBegin, DeactivateJoin, ReadAcquire, ReadSkip, Read,
           WriteAcquire, WriteSkip, Write, MonitorTop, MonitorTryLock,
           MonitorCheck, MonitorTest, MonitorLock, MonitorRelease, BusChanges,
           threads
  <2>2. initialized' = Slaves
    BY <2>1 DEF StartupCycle, AllInitialized
  <2> QED
    BY <2>1, <2>2, CycleAgrees DEF SampleInv, StartupCycle
<1> QED
  BY <1>1, SampleInductive, PTL DEF Spec, FirstStartOperational

\* The mutex, the flags, the health thread and the sampled state fit together in
\* every reachable state (IndInv), when on_error finalizes the component.
THEOREM Inductive ==
  ASSUME ErrorState = "finalized"
  PROVE  Spec => []IndInv
<1>1. ConfigInv /\ ThreadInv /\ SampleInv => IndInv
  BY DEF IndInv
<1> QED
  BY <1>1, ConfigInductive, ThreadInductive, SampleInductive, PTL

-----------------------------------------------------------------------------
(* The driver implements BusLease.                                         *)

\* Every step of the driver is one that BusLease allows, or leaves the bus alone
\* (ImplementsLease), whatever on_error answers.
THEOREM Refinement == Spec => ImplementsLease
<1>1. Init => Lease!Init
  BY DEF Init, Lease!Init, RmUses, RtUses, MonUses
<1>2. ConfigInv /\ [Next]_vars => [Lease!Next]_(Lease!vars)
  <2> SUFFICES ASSUME ConfigInv, [Next]_vars
               PROVE  Lease!Next \/ UNCHANGED Lease!vars
    BY Zenon
  <2> USE DEF ConfigInv, LockInv, MappedWhileUsed, RmUses, RtUses, MonUses,
              threads, driver, master, Lease!vars
  <2> USE DEF Lease!Next, Lease!Enter, Lease!Inside, Lease!Use, Lease!Lease,
              Lease!Serve, Lease!Stop, Lease!GiveBack
  <2>1. CASE Configure
    BY <2>1 DEF Configure
  <2>2. CASE Cleanup
    BY <2>2 DEF Cleanup
  <2>3. CASE CallActivate
    BY <2>3 DEF CallActivate
  <2>4. CASE ActivateLock
    BY <2>4 DEF ActivateLock, Acquire
  <2>5. CASE DoubleActivate
    BY <2>5 DEF DoubleActivate, FailActivate, Release
  <2>6. CASE ActivateMasterFails
    BY <2>6 DEF ActivateMasterFails, FailActivate, Release, AddSlaves
  <2>7. CASE ActivateMaster
    BY <2>7 DEF ActivateMaster, AddSlaves
  <2>8. CASE StartupCycle
    BY <2>8 DEF StartupCycle, Cycle
  <2>9. CASE StartupTimeout
    BY <2>9 DEF StartupTimeout, Cycle, FailActivate, Release
  <2>10. CASE FinishActivate
    BY <2>10 DEF FinishActivate, Cycle, Release
  <2>11. CASE AbortOnThread
    BY <2>11 DEF AbortOnThread, Cycle
  <2>12. CASE CallDeactivate
    BY <2>12 DEF CallDeactivate
  <2>13. CASE DeactivateLock
    BY <2>13 DEF DeactivateLock, Acquire
  <2>14. CASE DeactivateBegin
    BY <2>14 DEF DeactivateBegin
  <2>15. CASE DeactivateJoin
    BY <2>15 DEF DeactivateJoin, MasterDeactivate, Release
  <2>16. CASE ReadAcquire
    BY <2>16 DEF ReadAcquire, Acquire
  <2>17. CASE ReadSkip
    BY <2>17 DEF ReadSkip
  <2>18. CASE Read
    <3>1. RtUses /\ ~RtUses' /\ ~RmUses /\ ~RmUses' /\ ~MonUses /\ ~MonUses'
      BY <2>18 DEF Read
    <3>2. UNCHANGED <<activated, masterActive, rmPc>>
      BY <2>18 DEF Read, NotActivated, ReportOffline, Cycle
    <3>3. Lease!Use("rt")
      BY <3>1, <3>2
    <3> QED
      BY <3>3
  <2>19. CASE WriteAcquire
    BY <2>19 DEF WriteAcquire, Acquire
  <2>20. CASE WriteSkip
    BY <2>20 DEF WriteSkip
  <2>21. CASE Write
    <3>1. RtUses /\ ~RtUses' /\ ~RmUses /\ ~RmUses' /\ ~MonUses /\ ~MonUses'
      BY <2>21 DEF Write
    <3>2. UNCHANGED <<activated, masterActive, rmPc>>
      BY <2>21 DEF Write, NotActivated, ReportOffline
    <3>3. Lease!Use("rt")
      BY <3>1, <3>2
    <3> QED
      BY <3>3
  <2>22. CASE MonitorTop
    BY <2>22 DEF MonitorTop
  <2>23. CASE MonitorTryLock
    BY <2>23 DEF MonitorTryLock
  <2>24. CASE MonitorCheck
    BY <2>24 DEF MonitorCheck, Release
  <2>25. CASE MonitorTest
    BY <2>25 DEF MonitorTest
  <2>26. CASE MonitorLock
    BY <2>26 DEF MonitorLock, Acquire
  <2>27. CASE MonitorRelease
    BY <2>27 DEF MonitorRelease, MasterDeactivate, Release
  <2>28. CASE BusChanges
    BY <2>28 DEF BusChanges
  <2>29. CASE UNCHANGED vars
    BY <2>29 DEF vars
  <2> QED
    BY <2>1, <2>2, <2>3, <2>4, <2>5, <2>6, <2>7, <2>8, <2>9, <2>10, <2>11,
       <2>12, <2>13, <2>14, <2>15, <2>16, <2>17, <2>18, <2>19, <2>20, <2>21,
       <2>22, <2>23, <2>24, <2>25, <2>26, <2>27, <2>28, <2>29
       DEF Next, Rm, Rt, Monitor
<1> QED
  BY <1>1, <1>2, ConfigInductive, PTL DEF Spec, ImplementsLease, Lease!Spec
=============================================================================
