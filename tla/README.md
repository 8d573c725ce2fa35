# A TLA+ model of brainco_hand_ros2

This directory holds TLA+ modules for the concurrent and stateful parts of
`brainco_hand_ros2`: the ros2_control drivers of the Revo2 dexterous hand
(EtherCAT, Modbus, CAN FD) and the bridge that drives a hand and an RM65 arm
through the arm's tool port, and for the launch files that bring these programs up.
TLC checks them on small instances; the TLA+ proof system proves their safety properties
for every value of the constants, under assumptions that section 4 names.

## 1. The system

| Part | Source | State it keeps | Operations |
|---|---|---|---|
| EthercatDriver | `stark_ethercat_driver.cpp` | `activated_`, `deactivate_pending_`, the health thread, `ec_mutex_`, aggregated states and commands | `on_configure/activate/deactivate`, `read`, `write`, health thread |
| EcMaster | `ec_master.cpp` | slave list, domain, process image, sampled slave/link states, cycle counter | `addSlave`, `activate`, `update`, `readData`, `writeData`, `checkSlaveStates`, `deactivate` |
| Revo2 slave plugin | `revo2_joints_system_slave.cpp` | pointers into the aggregated vectors, unit mode | `setupSlave`, `processData` |
| PDO/SDO/sync managers | `ec_pdo_channel_manager.hpp`, `ec_sdo_manager.hpp` | channel layout | `ecRead`, `ecWrite`, `loadFromConfig` |
| BraincoHandHardware | `brainco_hand_hardware.cpp` | positions, commands, configuration with `slave_id` | lifecycle, `read`, `write` |
| Modbus and CAN FD sessions | `modbus_session.cpp`, `canfd_session.cpp` | SDK handle, adapter, global callbacks | `open`, `close`, requests |
| rm_revo2_bridge | `rm_revo2_bridge_node.py` | `hand_backend`, `_sdk_lock`, the result event, `last_command_rad` | hand and arm actions, hand topic, feedback timer, result callback |
| Scripts | `move_arm_pose_sequence.py`, `move_arm_to_pose.py`, `sequence_demo.py` | last joint state, last commanded position, what is left of the step | IK, goals for arm and hand, topic messages |
| TCP bridge | `tcp_realtime_bridge_ros2.py` | a buffer of bytes | lines to topic messages |
| Launch files | `launch/` of seven packages | the processes of a bring-up, the exits not handled yet | start, `OnProcessExit`, respawn, building the nodes of MoveIt when a spawner has exited |
| Gazebo, MoveIt, URDF | `brainco_gazebo`, `brainco_moveit_config`, ... | none | configuration |

How they interact. The controller manager calls `read()`, the controllers and
`write()` in a real-time loop, and the lifecycle handlers from its resource
manager. EthercatDriver owns an EcMaster and a thread that watches the bus and
releases it when it is lost; all three threads meet in `ec_mutex_`. The master
hands pieces of the process image to the slave plugin, which converts them to
and from the aggregated vectors the driver copies from and to the ros2_control
interfaces. The hand driver owns one session per hand; sessions of the same
process share the serial ports and the SDK's global CAN callbacks. The bridge
serves actions and topics with four executor threads and reaches the hand either
through topics of `rm_driver` or through a Python SDK. The scripts are its
clients: they ask MoveIt for positions of the arm and send goals to both actions. A launch
file starts the controller manager (or the simulator that contains one), the spawners of
its controllers, move_group and the bridge, some of them when others have exited.

What is hard here: the order in which three threads take `ec_mutex_`
and what is released in between; the pipeline of a cyclic fieldbus, where
outputs are computed before inputs; requests and results that are not correlated;
retries, fallbacks and reinitializations that overlap; devices that come and go
while they are detected; clients that give up while their goals go on; a start-up that is
driven by the exits of processes, whether these succeeded or not. `hazards` in
`PROJECT.json` lists each at its line, with the properties that would catch it.

What makes each part correct:

- EthercatDriver: mutual exclusion inside the master, no exchange of process data
  without an active configuration, an activation that ends and that does not
  report success before the hands are operational, a lost bus that is noticed.
- Command flow: the motor never moves to a position that neither it reported nor a
  controller commanded, and a command that is kept arrives.
- Bridge: success means that the registers were written; no two callbacks are in calls of
  the SDK at once, for which `_sdk_lock` is there (two places do without it, see section 5);
  every caller is answered; the state it publishes is the hand's.
- Scripts: in strict mode no motion begins before those before it were answered with
  success, and the solution that is executed is the nearest one.
- Hand driver: each component finds its own hand when it can be found; the global
  callbacks belong to the session that is open; a lost hand is noticed.
- Launch files: all processes of a bring-up speak of one robot, every controller that is
  spawned or planned for is served, and the order a file asks for is kept whatever fails.

## 2. The modules

### EthercatDriver

Three threads: the resource manager (`rm`: lifecycle handlers), the control loop
(`rt`: `read`, `write`) and the health monitor (`mon`). Each handler is split into
actions where another thread can come in between: `ActivateLock`, one
`StartupCycle` per pass of the startup loop, `StartupTimeout` or `FinishActivate`;
`DeactivateLock`, `DeactivateBegin` (the flags) and `DeactivateJoin` (the join and
the release); `ReadAcquire`/`ReadSkip`, `Read`, and the same for `write`;
`MonitorTop`, `MonitorTryLock`, `MonitorCheck`, `MonitorTest`, `MonitorLock`,
`MonitorRelease`. The master is a part of the state: the configurations of slaves
that were added and by which session, whether it is active, the sampled states,
the cycle counter that decides when they are sampled (`Cycle`). `BusChanges` is
the environment: slaves change state and the link goes up and down at any time.

Abstractions: process data is not in this module (it is in CommandFlow), the
module only says whether an exchange goes through a configuration that is live.
Reading a slave configuration that the master has released is undefined behaviour
and yields any state. SDO failures are only logged by the code and left out. What
`on_error` does is the library's: the default finalizes the component
(`ErrorState = "finalized"`); `ErrorState = "unconfigured"` is a library that lets
the component be configured again, a superset of the default's behaviours in which
`on_activate` meets a master that is still active and a thread that still runs.
The controller manager does not serialise the resource manager's handlers with
the control loop beyond `ec_mutex_`, which the comment at
`stark_ethercat_driver.cpp:514` takes for granted too.

`BusLease` is what the driver promises about the bus: one thread at a time inside the
master, a lease that only the lifecycle thread takes and that it or the health thread gives
back, and an exchange that has stopped by then. `EthercatDriver` implements it
(`ImplementsLease`): the user of the lease is the thread whose program counter is inside
the master, the lease is the active configuration, and the exchange may go on while
`activated_` is set and during the startup loop.

`EthercatDriverProofs` holds the proofs.

### CommandFlow

One joint of one hand, from the command interface to the motor and back, in the
first session: the interface variables, the aggregated vectors, the process image,
the frame on the wire, what the slave has latched, its EtherCAT state. `Encodings`
and `Measurable` are the conversions, in raw units (physical or permille mode, the
latter clamping to `1..Full`), with the cast of a NaN as a choice of any value.
`Send` and `Receive` are one bus cycle, in which the frame or its answer may be
lost. The order of outputs and inputs within a cycle is the one of `readData`,
`writeData` and the startup loop.

The slave answers at least `SafeOpFrames` cycles in SAFEOP before it is operational.
This is an assumption about the slave; TLC finds a jump with 2 and the proof
needs 3.

`CommandFlowProofs` holds the proofs.

### RmBridgeHand

The callbacks of the bridge that touch the hand: goals (reentrant group), topic
messages, the result callback and the feedback timer (one mutually exclusive
group), scheduled on `Threads` executor threads. Each callback is a small program
whose program counter follows `_write_hand_registers`, `_write_rm_driver_registers`,
`_write_hand_registers_sdk` and `_reinit_modbus`. Constants say which parameters
the node runs with (`Retries`, `Reinit`) and what the environment may do
(`SdkRaises`, `DriverSlow`). `Configs` are the ways in which the node is used, of which a
behaviour takes one (`config`): the parameter `hand_backend`, with the feedback timer or not,
with the mode write of the constructor or not, by goals that overlap or come one after the other. An exception
in a goal aborts it, an exception in a topic callback ends the node. `InSdk` are the callers
inside calls of the SDK. Besides the write and the reinitialization under `_sdk_lock` these
are two places without the lock (`Unlocked`): `_init_rm_arm` (`init_arm`), and the calls of
`_reinit_modbus` (`rm_sdk`, `UnlockedReinit`) that the loop of rm_driver gets to after a write
that failed, when another goal has switched `hand_backend` to sdk (`ReinitThroughSdk`). The feedback timer, which reads without the lock, is no caller. Saving and
switching `hand_backend`, adjacent and under the lock, are one step. The clients are any
set without the value `None`, which stands for no client (`CallersAssumption`).

`RmBridgeHandProofs` holds the proofs.

### HandDriver

The hands of one controller manager, each a BraincoHandHardware with a Modbus or a
CAN FD session. `Configure` begins `open_connection()`; with `auto_detect` it goes
on as `SdkDetect`, `SdkConfirm`, one `ScanPort` per port, `Choose` and `OpenPort`,
between which devices are plugged and unplugged. With CAN FD it goes on as `OpenCan`, which
takes the slot, starts the adapter and sets the callbacks, and `CanInit`, in which
`canfd_init()` succeeds or fails; a failure takes back all three (`CloseSession`). The resource manager runs one
lifecycle handler at a time, so one `job` is enough; `read()` of the other hands
goes on. `slot` is `CanfdSession::active_instance_`. `steady` is a history variable:
the devices that could have been found throughout the detection. Devices are named
by the `slave_id` of the hand they belong to. `on_error` is the library's default,
which finalizes. Left out: a requested `slave_id` of 0, two devices of one
`slave_id`, the scaling of positions; `write()` never changes the driver's state.

`HandDriverProofs` holds the proofs.

### PoseSequence

The scripts as clients of the two actions. `plan` is the sequence file, `todo` what is
left of a step: the calls of `_send_goal_get_handle` (`send`, `accept`),
`_wait_goal_result` (`wait`) and of the publisher (`publish`), in the order that
`Program` derives from `order`, `parallel` and `--hand-mode`. `Attempt`, `TakeBest`,
`RetryWithCollisions` and `NoSolution` are `_solve_ik`. Every wait can time out at any
moment (`TimeOut`); the goal that was waited for goes on. `Execute` and `Finish` are the
actions of the bridge: the arm half for the one point that the scripts send, the hand
half by the ways in which it can end. The arm gets to its command later than the action
succeeds (`ArmMoves`). `tool` says which of the three scripts runs: the single pose takes
the first solution and has no jump limit, the demo has no IK.

`StrictSequence` is the strict mode without the script: goals are sent in the order of the
program, each one when those before it have been answered with success, and a failure is
the end. `PoseSequence` implements it (`ImplementsStrict`), timeouts, rejections and
solutions of the IK being steps that it does not see or its failure.

`PoseSequenceProofs` holds the proofs, the one of this refinement among them.

### LaunchFiles and Bringup

`LaunchFiles` has one operator per launch file. Its value is a description: the processes
that start at once and the pairs of `OnProcessExit`, each process with what it is given,
the robot description (package, model and the files that xacro reads; `XacroArg` is the
default of the xacro file for an argument that is passed on without a value), the controllers a
manager is configured with or a client sends to, and for a spawner its controller. What
a file computes at two places is computed at two places: `SystemProtocolFile` is the
substitution, `MoveitProtocolFile` the Python code that runs again when the last spawner has
exited. `OpaqueFunction(generate_moveit_nodes)` is the set of nodes it returns. The lists
of controllers are those of the YAML files, the virtual joints those of the SRDF files.

`Bringup` runs a description. `Visit` starts the processes and registers the handlers,
`HandleExit` handles one exit, `Respawn` is `respawn=True`. Launch is a library: a handler
runs on every exit of its target, whatever the return code, and a substitution that raises
ends the bring-up (`stopped`). What xacro cannot read are the names of files in the constant
`Unreadable`. The processes are external too: spawners and `create`
end with success or not, a manager gets ready, and `Crash` takes any other process at any
time. `create` can only succeed while the simulator runs. A spawner succeeds when a manager that is ready knows its controller and no active
controller claims the same interfaces.

`BringupProofs` holds the proofs.

MC modules (`MCEthercatDriver`, ...) only add symmetry sets or bounds.

## 3. The runs

| Run | Configuration | What it checks |
|---|---|---|
| `ethercat_safety` | 2 slaves, sampling every 2nd cycle, 2 sessions, `on_error` to unconfigured | `TypeOK`, `ExclusiveUse`, `MappedWhileUsed`, `FirstStartOperational`, `ImplementsLease` |
| `ethercat_liveness` | 1 slave, fair, `on_error` finalizes | `NoAbort`, `IndInv`, `OfflineNoticed`, `PendingReleases`, `StartupEnds` |
| `ethercat_mapping` | violation | `MappingLive`: a second activation exchanges data through a released domain |
| `ethercat_release` | violation | `ReleaseHappens`: join under the mutex the thread waits for |
| `command_flow` | permille mode, fair | `TypeOK`, `MotionIsGrounded`, `FlowInv`, `FramesAreGrounded`, `CommandArrives` |
| `rm_hand` | exceptions; 2 overlapping goals with each backend, with sdk also beside the feedback timer; with auto goals one after the other, too | `TypeOK`, `SdkExclusive`, `SdkLockOwned`, `SerialAckMeansWritten`, `JointStatesFollowHand`, `BackendRestored` |
| `rm_live` | a goal and a topic message on 2 threads, fair | `CallersEnd` |
| `rm_ack` | violation, backend rm_driver | `AckMeansWritten`: a late result acknowledges the next write |
| `pose_sequence` | 2 steps of every kind, 2 IK attempts, all scripts | `TypeOK`, `StrictOrder`, `CompleteMeansAnswered`, `NearestSolution`, `ImplementsStrict` |
| `hand_driver` | 2 hands, 2 ports, all protocols, faults | `TypeOK`, `CallbacksGoHome`, `AskedForIsFound`, `LossNoticed` |
| `hand_can` | violation, CAN FD, nothing fails | `HandsComeUp`: the second hand of a process is refused |
| `bringup` | every launch file, every choice of its arguments, 1 crash, fair | `TypeOK`, `SameRobot`, `SpawnersAreServed`, `OneJointStateSource`, `NoCompetition`, `NoSpawnerAfterMoveGroup`, `BroadcasterFirst`, `BringUpCompletes`, `MoveGroupIsServed` |

`SerialAckMeansWritten`, `JointStatesFollowHand` and `BackendRestored` speak of the
configuration in which trajectories come one after the other: with goals that overlap
none of the three holds, which the hazards of the bridge say at their lines. There `rm_driver`
answers within the 12 seconds of the timeout (`DriverSlow = FALSE`): an
answer that is later than that acknowledges the next write, as in `rm_ack`. `rm_live` has
answers of any delay.

Bounds. Two slaves distinguish "all" from "some" operational. The code samples the
states every tenth cycle; every second cycle already separates a sampled from an
unsampled cycle, and the counter wraps. Two sessions are enough for everything a
session can leave to the next one. For a joint only equality and NaN matter, so
few raw values do. Two goals give every overlap of two callbacks, and one retry
every way through the retry loop. Two steps give every
pair of motions that may overlap and every use of an earlier solution as a seed; three
positions of the arm have two distances, one within the jump limit and one beyond; two
attempts tell the nearest from the first and the last solution. Two hands and two ports give a hand whose device is
on the first port, on the second, in use by the other hand, or absent. A bring-up is finite;
its 80 descriptions are all files with both hands, both protocols, all flags, and of the
optional names of files none, one that can be read and one that cannot. One process dies at a time
(`MaxCrashes = 1`), beside any number of spawners and creations that fail.

The permille mode is the one in which the 0 of a fresh image is not a position a slave
can report; the proofs cover both modes.

Deadlock checking is off where the system may really stop: all callers of the
bridge have been answered, all hands are finalized, the script has ended, or the bring-up is
complete.

### Fairness

- EthercatDriver: weak fairness of the steps of a running thread, strong fairness of
  taking a mutex that is free again and again (the control loop gives it back in every
  cycle), and the assumption that the control loop's `try_lock` does not collide with
  the health thread for ever (`ReadsDoNotAlwaysCollide`): one runs at 100 Hz and the
  other every 50 ms, for microseconds.
- CommandFlow: the control loop runs, the bus delivers a frame now and then, the
  motor moves.
- RmBridgeHand: the executor runs callbacks for which it has a thread, and timeouts expire.
- Bringup: launch handles its events; a manager that lives gets ready; spawners end, with or
  without success, since their waits are bounded. `create` waits without a bound, both for the
  simulator's list of worlds, as no file gives it `-world`, and for a description on its topic:
  it is only fair while the simulator and the state publisher run (`CreateIsServed`).
  `BringUpCompletes` says the same: a bring-up may stop at a `create` that is not served, and
  launch gives up only when a file that the user named cannot be read. Nothing makes a
  process crash.
- HandDriver: `read()` of every hand that is not finalized is called again and again.

## 4. The proofs

`EthercatDriverProofs` proves, for every set of slaves, sampling interval and bound on
sessions: `TypeCorrect`, `MutualExclusion`, `ExchangeIsMapped`, `NeverAborts` and `Inductive`
(when `on_error` finalizes), `FirstStart` and `Refinement`. `ExclusiveUse` and `MappedWhileUsed` are not
inductive alone. The strengthening `IndInv` adds who holds the mutex at which program
counter (`LockInv`), that an activated driver has an active master whenever the mutex is
free or held by a thread that will not release it (`ConfigInv`), when a health thread
exists and whether it was told to stop (`ThreadInv`) and that a state sampled in the
first session is one the slave had (`SampleInv`). The run `ethercat_liveness` checks
`IndInv` before it is proved. `Refinement` maps each action, under `ConfigInv`, to a step of
`BusLease` or to a stutter: `DeactivateBegin` is `Stop`, the release by either thread
`GiveBack`, the activation of the master `Serve`, its timeout a `Stop` under a lease that lasts.

`CommandFlowProofs` proves `FlowTypes` for every slave, and `NoJump` and `GroundedFrames` for
every range of raw values, both modes and every slave that takes at least three cycles in
SAFEOP. The argument follows the pipeline: a frame the slave latches in OP was computed from
aggregated values that a receive had filled, which needs one cycle for the answer, one for
the fallback and one for the frame. `FlowInv` says this stage by stage (`StateInv`,
`PipelineInv`), and `FlowInvariant` proves it.

`RmBridgeHandProofs` proves the six invariants of `rm_hand` for any clients, threads, retries
and ways of use.

- `SdkIsExclusive`: whoever is inside calls of the SDK owns the lock or is in one of the two
  places without it (`Unlocked`). That nobody gets there unless the backend is auto is
  `WaysInv`: with the backend sdk the arm has been open since the constructor, `hand_backend`
  never changes and no callback takes the way of rm_driver; with rm_driver none takes that of
  the SDK. With auto the exception is real, see section 5.
- `BridgeTypes`, `SdkLockIsOwned`: who owns `_sdk_lock` follows from where a
  callback is and what it writes (`LockInv`), but only together with what its local
  variables can be at each place (`CallerInv`): a write of the mode register is, on the way of
  the SDK, inside the block of the lock, and the attempts counted there are below the limit, since
  otherwise the last retry would leave the loop.
- `BackendIsRestored`: where goals come one after the other one callback runs (`AloneInv`),
  so the backend is either the parameter or has been saved by that callback
  (`RestoreInv`). With goals that overlap it is false.
- `SerialAcksAreTrue` and `SerialStatesAreTrue`: `SerialInv` follows the one request of a
  waiting callback from `rm_driver` to the event (`InFlight`). Its heart is `NoTimeOut`: the wait
  of a goal that is alone never times out, so no request and no answer is left behind for
  the next write. Both theorems assume `GoalsInTime`: no trajectory comes on the topic, whose callback
  shares a mutually exclusive group with the result and always runs into its timeout; there are two
  threads at least, and `rm_driver` answers within the timeout. The assumption is needed: TLC finds
  `SerialAckMeansWritten` violated with a topic message or a slow `rm_driver`, and
  `JointStatesFollowHand` with one thread.

`HandDriverProofs` proves for any number of hands, ports and devices, with plugging, busy
ports and failing adapters: `HandTypes`; `CallbacksAreHome`, which needs that a hand under
detection has no session (`JobInv`); and the action property `FoundWhenAskedFor`. For the
latter `SearchInv` says that, as long as the device that was asked for could be found all along
(`steady`), it is on a port that is still to be scanned or is what the search will choose,
through `sdk_detect`, its confirmation, the scan of the ports and the opening.

`PoseSequenceProofs` proves for plans of any length and any number of IK attempts:

- `SequenceTypes`, `StrictModeIsStrict`, `CompletionIsTrue`: `PlaceInv` says that the steps ahead
  have sent nothing, `RestInv` that what is left to do is the rest of the program of the step,
  `StrictInv` that what was waited for has been answered with success. The programs of a
  step are nine sequences of operations; `ProgramIsSound` goes through them once and shows that a goal that precedes another one is waited for before that one is sent.
- `NearestIsExecuted`: `SolveInv` says that the search holds the nearest solution of its mode
  and has left a mode only without any.
- `SequenceIsStrict`, the refinement: a step begins, advances, ends or leaves the script where
  it is (`FourKindsOfStep`), and each kind maps to a step of `StrictSequence` or a stutter. Sending is
  a step there because `StrictOrder` holds in the next state, completion because
  `CompleteMeansAnswered` does.

`BringupProofs` proves for every set of descriptions and every number of crashes:
`TypeCorrect`; `Chain`, that whatever a handler starts comes after the exit of its target,
if no target is respawned; `Order`, that in every description whose spawners form a chain
(`Chained`) `BroadcasterFirst` holds. The chain is followed by induction over the steps:
an exit that launch still has to handle has happened (`EventsHappened`), and a process that
is not respawned stays ended (`EndedStays`). `TogetherInductive` says that launch starts the
processes of a description, and those of a handler, together, so that what has been started
is closed under the handlers backwards (`StartedTogether`). The other properties then are
properties of the description: they are collected in `Consistent`, and one lemma per launch file
shows that the file is consistent whatever value its arguments have, by one of six shapes
(everything at once, a broadcaster with a set of spawners, a chain of two or three, and the same
behind the creation of the robot). `FilesAreConsistent` puts the 19 files together, and
`FilesDescribeOneRobot`, `FilesServeTheirSpawners`, `FilesHaveOneSource`, `FilesDoNotCompete`,
`FilesStartMoveGroupLast`, `FilesStartBroadcasterFirst` and `FilesKeepTheirChains` are the results,
for every bring-up of these files (`OnlyFiles`), every argument and every number of crashes, where the
run has the arguments listed in `MCBringup` and one crash.

Every safety property of the passing runs is thereby proved. Only model-checked are:

- the liveness properties (`OfflineNoticed`, `PendingReleases`, `StartupEnds`, `CommandArrives`,
  `CallersEnd`, `LossNoticed`, `BringUpCompletes`, `MoveGroupIsServed`): they need fairness, which
  is stated with ENABLED, and TLAPS has no rules for it;
- that the assumptions `GoalsInTime`, `SafeOpFrames >= 3` and `ErrorState = "finalized"` are
  needed: that is shown by counterexamples, which are TLC's to find.

## 5. Findings

- `ethercat_mapping`: a second activation after a deactivation uses the slave
  configurations and the domain of the released master.
- `ethercat_release`: `on_deactivate()` and a health thread that has seen a pending release
  wait for each other.
- `rm_ack`: a result without an address acknowledges the next write.
- `hand_can`: two CAN FD hands cannot be used in one process, which the driver's README
  offers.

Not runs, but worth knowing: with the backend auto and goals that overlap, the SDK is used
without `_sdk_lock` in two places while another callback may be inside it. The loop of
rm_driver calls `_reinit_modbus` (`rm_revo2_bridge_node.py:472`), which makes three calls of the
SDK (344-352) when another goal has set `hand_backend` to sdk (441-442); and
`_ensure_sdk_arm` opens the arm (283-310) before the lock is taken, so that two goals may open it
twice. `SdkExclusive` excepts these two, and no others.

The comment at `rm_revo2_bridge_node.py:440` says that a reinitialization is forced to be
SDK-style even with the backend auto. After an exception the backend is put back outside of the
lock (line 447), which can undo the switch of another goal: that goal then reinitializes
through rm_driver, waiting up to 12 s for the result inside `_sdk_lock`. The model has this
step (`CheckBackend` with the backend auto); `SdkLockOwned` admits it.

The jump limit of the pose sequence is skipped when no joint
state has come (`move_arm_pose_sequence.py:328`), and a callback of the bridge that raises
looks like a success to the scripts, because the empty result has error code 0 and they do
not look at the status of the goal (`move_arm_pose_sequence.py:229`).

Of the launch files, also without a run:

- `dual_revo2_hand_gazebo_moveit.launch.py:332` says that MoveGroup is started after all
  controllers, line 333 that it follows the right hand only. The left spawner may still run:
  `ControllersBeforeMoveGroup`, which is not part of a run, fails for this file and
  for no other one. What holds is the weaker `NoSpawnerAfterMoveGroup`.
- A handler runs whatever the return code, so a failed broadcaster is followed by the next
  spawner in every chain (`dual_revo2_system.launch.py:213`).
- `brainco_moveit_config/README.md:166` starts `dual_revo2_real_moveit` with `protocol:=canfd`.
  The file declares no such argument, so both hands come up with the default, Modbus.
- `revo2_real_moveit` (line 268), `revo2_ethercat_real_moveit` (line 238) and
  `revo2_hand_gazebo_moveit` (line 305) publish the transforms of the right hand's virtual
  joints for either hand, since these are the same, as the comments say. They are not:
  the child is `left_base_link` in `revo2_left.srdf:69` and `right_base_link` in
  `revo2_right.srdf:69`, so a left hand has no transform from `world`.
- Two arguments are declared and not used: `rviz_config` of `gazebo_rm65_with_revo2_moveit`
  and `robot_controller` of the EtherCAT `revo2_system`.

## 6. Not modelled

- The closed SDK and the USB-CAN FD library: the environment of HandDriver.
- Worlds, meshes, limits and planners of Gazebo and MoveIt: data without behaviour.
- `rm_driver`, MoveIt, the controller manager and launch are external and modelled by what
  this repository uses of them.
- The PDO, SDO and sync managers: sequential parsing and encoding of one channel.
- The TCP bridge: one thread that turns lines into the messages RmBridgeHand receives.
- Trajectories of several points in the arm half of the bridge, which MoveIt sends.
- The manual test script, the build and download scripts, the parsing of parameters.
- The single-finger mode of the slave plugin is compiled but never selected
  (`revo2_joints_system_slave.cpp:21`), so the model has the multi-finger mode only.

## 7. Plan

The modules were written in the order in which a failure would hurt most:

1. EthercatDriver with its proofs and BusLease: the threads that share the bus.
2. CommandFlow with its proofs: what the motor is told. It is composed with
   EthercatDriver by abstraction: `Skip`, `Released` and the offline cycles are what that
   module allows at any time.
3. RmBridgeHand: results, retries and fallbacks of the bridge.
4. HandDriver: detection and the callbacks shared by the sessions.
5. PoseSequence and StrictSequence: the clients of the bridge.
6. LaunchFiles and Bringup with their proofs: how all of this is started.

What comes next:

- Proofs: an abstract specification of the bridge's hand half (a trajectory is written, then
  acknowledged) and of detection, with the refinement proved from `SerialInv` and `SearchInv`.
- The unit mode as a variable of the slave in CommandFlow, with a power cycle in between.
- Commands and states of BraincoHandHardware (`write()`, scaling and clamping, the commands
  taken over in `on_activate`), and the PDO channels of the interface package, as algorithm
  modules with lemmas: what is written is read back, and limits are kept.
- The TCP bridge, and trajectories of several points in the arm half of the bridge.
