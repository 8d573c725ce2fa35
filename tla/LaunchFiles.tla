---------------------------- MODULE LaunchFiles ----------------------------
(***************************************************************************)
(* The launch files of the repository, one operator each: which processes   *)
(* a file starts at once, which ones when another process has exited, and   *)
(* what each of them is given.  A value a file computes from its arguments  *)
(* (the robot description and the protocol file in it, the names of the     *)
(* controllers) is computed here as it is there, since the same value is     *)
(* computed at several places.  Names of topics, output, displays, rates     *)
(* and use_sim_time are left out.                                           *)
(*                                                                         *)
(* The name of a file is a sequence, <<>> the empty one, which stands for an *)
(* optional argument that the user does not give.                           *)
(***************************************************************************)
EXTENDS Naturals, Sequences, FiniteSets

-----------------------------------------------------------------------------
(***************************************************************************)
(* What a process is given.                                                *)
(***************************************************************************)

\* A robot description: the package and model of the xacro file, and the files
\* or values that are passed to it.
Robot(package, model, values) ==
  [package |-> package, model |-> model, values |-> values]

NoRobot == Robot("none", "none", {})

\* A controller, and whose command interfaces it claims when it is active.
Broadcaster   == <<"joint_state_broadcaster">>
Trajectory(h) == <<"trajectory", h>>
Position(h)   == <<"position", h>>

Process(exec, arg, robot, controllers) ==
  [exec |-> exec, arg |-> arg, robot |-> robot, controllers |-> controllers,
   respawn |-> FALSE, inactive |-> FALSE]

\* A process that has controllers manages them, or sends trajectories to them.
ControlNode(robot, controllers) ==
  Process("ros2_control_node", <<>>, robot, controllers)
MoveGroup(robot, controllers) ==
  Process("move_group", <<>>, robot, controllers)
Spawner(c)         == Process("spawner", c, NoRobot, {})
InactiveSpawner(c) == [Spawner(c) EXCEPT !.inactive = TRUE]
Publisher(robot)   == Process("robot_state_publisher", <<>>, robot, {})
Respawned(p)       == [p EXCEPT !.respawn = TRUE]
Rviz(robot)        == Process("rviz2", <<>>, robot, {})
StaticTf(frame)    == Process("static_transform_publisher", frame, NoRobot, {})

\* The simulator, and the process that puts the robot into it.  The controller
\* manager is a plugin that the description names, with its controllers.
Gazebo == {Process("gz_sim", <<>>, NoRobot, {}),
           Process("parameter_bridge", <<>>, NoRobot, {})}
Create(robot, controllers) == Process("create", <<>>, robot, controllers)

RmBridge == Process("rm_revo2_bridge_node", <<>>, NoRobot,
                    {Trajectory("arm"), Trajectory("hand")})

If(condition, processes) == IF condition THEN processes ELSE {}

\* A launch description: its name, what it starts, and its OnProcessExit
\* handlers as pairs of the target and what is started when it exits.
Description(file, start, onExit) ==
  [file |-> file, start |-> start, onExit |-> onExit]

-----------------------------------------------------------------------------
(***************************************************************************)
(* Configuration files that the launch files choose.                       *)
(***************************************************************************)

Sides == {"left", "right"}

\* config/revo2_<hand>_controllers.yaml: of brainco_hand_driver, and of the
\* other packages.
DriverControllers(h) == {Broadcaster, Position(h), Trajectory(h)}
HandControllers(h)   == {Broadcaster, Trajectory(h)}

\* config/dual_revo2_controllers.yaml, the same ones in each package.
DualControllers == {Broadcaster, Trajectory("left"), Trajectory("right")}

\* config/ros2_controllers.yaml and config/revo2_controllers.yaml of the RM65.
Rm65Controllers == {Broadcaster, Trajectory("arm"), Trajectory("hand")}

\* controller_names of the moveit_controllers.yaml of a model.
MoveitControllers(model) ==
  CASE model = "dual" -> {Trajectory("left"), Trajectory("right")}
    [] model = "rm65" -> {Trajectory("arm"), Trajectory("hand")}
    [] OTHER          -> {Trajectory(model)}

\* The virtual joints of the srdf of a model: parent frame and child link.
VirtualJoints(model) ==
  CASE model = "dual" -> {}
    [] model = "rm65" -> {<<"world", "base_link">>}
    [] OTHER          -> {<<"world", model, "base_link">>}

StaticTfs(model) == {StaticTf(frame) : frame \in VirtualJoints(model)}

-----------------------------------------------------------------------------
(***************************************************************************)
(* brainco_hand_driver/launch.                                             *)
(***************************************************************************)

ProtocolFile(protocol, h) == <<protocol, h>>

\* The file that the launch argument names, or the PythonExpression.
SystemProtocolFile(a) ==
  IF a.config # <<>> THEN a.config
  ELSE IF a.hand = "left" /\ a.protocol = "canfd"
       THEN ProtocolFile("canfd", "left")
  ELSE IF a.hand = "left" THEN ProtocolFile("modbus", "left")
  ELSE IF a.protocol = "canfd" THEN ProtocolFile("canfd", "right")
  ELSE ProtocolFile("modbus", "right")

\* Mutant of Revo2System: the position controller is activated, too.
Revo2SystemBothActive(a) ==
  LET robot == Robot("brainco_hand_driver", a.hand, {SystemProtocolFile(a)})
  IN  Description("revo2_system",
        {ControlNode(robot, DriverControllers(a.hand)), Publisher(robot),
         Spawner(Broadcaster), Spawner(Position(a.hand)),
         Spawner(Trajectory(a.hand))},
        {})

Revo2System(a) ==
  LET robot == Robot("brainco_hand_driver", a.hand, {SystemProtocolFile(a)})
  IN  Description("revo2_system",
        {ControlNode(robot, DriverControllers(a.hand)), Publisher(robot),
         Spawner(Broadcaster), InactiveSpawner(Position(a.hand)),
         Spawner(Trajectory(a.hand))},
        {})

\* An absolute path stands for itself, any other one is taken relative to the
\* package, and an empty one is the default.
DualFile(given, default) ==
  IF given = <<>> THEN default
  ELSE IF given[1] = "/" THEN given
  ELSE <<"brainco_hand_driver/config">> \o given

DualSystem(a) ==
  LET robot == Robot("brainco_hand_driver", "dual",
                 {DualFile(a.left, ProtocolFile("modbus", "left")),
                  DualFile(a.right, ProtocolFile("modbus", "right")),
                  DualFile(a.positions, <<"initial_positions">>)})
      broadcaster == Spawner(Broadcaster)
  IN  Description("dual_revo2_system",
        {ControlNode(robot, DualControllers), Publisher(robot), broadcaster},
        {<<broadcaster,
           {Spawner(Trajectory("left")), Spawner(Trajectory("right"))}>>})

\* brainco_hand_ethercat_driver/launch: its argument robot_controller is read
\* and not used, the name of the controller follows from the hand.
EthercatSystem(a) ==
  LET robot == Robot("brainco_hand_ethercat_driver", a.hand, {<<a.duration>>})
  IN  Description("ethercat_system",
        {ControlNode(robot, HandControllers(a.hand)), Publisher(robot),
         Spawner(Broadcaster), Spawner(Trajectory(a.hand))},
        {})

-----------------------------------------------------------------------------
(***************************************************************************)
(* brainco_moveit_config/launch, on hardware: the nodes of MoveIt are built  *)
(* when the last spawner has exited, from the arguments again.              *)
(***************************************************************************)

MoveitNodes(a, robot, model) ==
  {MoveGroup(robot, MoveitControllers(model))} \union If(a.rviz, {Rviz(robot)})

\* Mutant of MoveitProtocolFile: the branches of the protocol are swapped.
MoveitProtocolFileSwapped(a) ==
  IF a.config # <<>> THEN a.config
  ELSE IF a.hand = "left"
       THEN IF a.protocol = "canfd" THEN ProtocolFile("canfd", "left")
            ELSE ProtocolFile("modbus", "left")
  ELSE IF a.protocol = "canfd" THEN ProtocolFile("modbus", "right")
       ELSE ProtocolFile("canfd", "right")

\* generate_moveit_nodes() finds the file once more, in Python.
MoveitProtocolFile(a) ==
  IF a.config # <<>> THEN a.config
  ELSE IF a.hand = "left"
       THEN IF a.protocol = "canfd" THEN ProtocolFile("canfd", "left")
            ELSE ProtocolFile("modbus", "left")
  ELSE IF a.protocol = "canfd" THEN ProtocolFile("canfd", "right")
       ELSE ProtocolFile("modbus", "right")

RealMoveitNodes(a) ==
  MoveitNodes(a, Robot("brainco_hand_driver", a.hand, {MoveitProtocolFile(a)}),
              a.hand)

\* The virtual joints are those of the right hand, whatever the hand is.
RealMoveit(a) ==
  LET robot == Robot("brainco_hand_driver", a.hand, {SystemProtocolFile(a)})
      broadcaster == Spawner(Broadcaster)
      hand == Spawner(Trajectory(a.hand))
  IN  Description("revo2_real_moveit",
        {Publisher(robot), ControlNode(robot, HandControllers(a.hand)),
         broadcaster} \union StaticTfs("right"),
        {<<broadcaster, {hand}>>, <<hand, RealMoveitNodes(a)>>})

EthercatMoveitNodes(a) ==
  MoveitNodes(a,
              Robot("brainco_hand_ethercat_driver", a.hand, {<<a.duration>>}),
              a.hand)

EthercatMoveit(a) ==
  LET robot == Robot("brainco_hand_ethercat_driver", a.hand, {<<a.duration>>})
      broadcaster == Spawner(Broadcaster)
      hand == Spawner(Trajectory(a.hand))
  IN  Description("revo2_ethercat_real_moveit",
        {Publisher(robot), ControlNode(robot, HandControllers(a.hand)),
         broadcaster} \union StaticTfs("right"),
        {<<broadcaster, {hand}>>, <<hand, EthercatMoveitNodes(a)>>})

\* An argument that is given to xacro with an empty value counts as not given.
XacroArg(given, default) == IF given = <<>> THEN default ELSE given

\* The arguments go to xacro as they are, and the defaults are those of
\* config/dual_revo2.urdf.xacro.
DualMoveitRobot(a) ==
  Robot("brainco_hand_driver", "dual",
        {XacroArg(a.left, ProtocolFile("modbus", "left")),
         XacroArg(a.right, ProtocolFile("modbus", "right"))})

DualMoveitNodes(a) == MoveitNodes(a, DualMoveitRobot(a), "dual")

\* Mutant of DualRealMoveit: MoveIt follows the broadcaster, together with the
\* spawner of the left hand.
DualRealMoveitEarly(a) ==
  LET broadcaster == Spawner(Broadcaster)
      left  == Spawner(Trajectory("left"))
      right == Spawner(Trajectory("right"))
  IN  Description("dual_revo2_real_moveit",
        {Publisher(DualMoveitRobot(a)),
         ControlNode(DualMoveitRobot(a), DualControllers), broadcaster}
          \union StaticTfs("dual"),
        {<<broadcaster, {left} \union DualMoveitNodes(a)>>, <<left, {right}>>})

DualRealMoveit(a) ==
  LET broadcaster == Spawner(Broadcaster)
      left  == Spawner(Trajectory("left"))
      right == Spawner(Trajectory("right"))
  IN  Description("dual_revo2_real_moveit",
        {Publisher(DualMoveitRobot(a)),
         ControlNode(DualMoveitRobot(a), DualControllers), broadcaster}
          \union StaticTfs("dual"),
        {<<broadcaster, {left}>>, <<left, {right}>>,
         <<right, DualMoveitNodes(a)>>})

-----------------------------------------------------------------------------
(***************************************************************************)
(* brainco_moveit_config/launch, on the FakeSystem: everything at once.      *)
(***************************************************************************)

\* Mutant of MoveitSpawners: the controller of the arm is forgotten.
MoveitSpawnersNoArm(model) ==
  {Spawner(c) : c \in (MoveitControllers(model) \ {Trajectory("arm")})
                        \union {Broadcaster}}

\* The spawners of the controllers that MoveIt is configured with.
MoveitSpawners(model) ==
  {Spawner(c) : c \in MoveitControllers(model) \union {Broadcaster}}

FakeSystem(a, file, model, controllers) ==
  LET robot == Robot("brainco_moveit_config", model, {})
  IN  Description(file,
        {Respawned(Publisher(robot)), ControlNode(robot, controllers),
         MoveGroup(robot, MoveitControllers(model))}
          \union If(a.rviz, {Rviz(NoRobot)})
          \union StaticTfs(model) \union MoveitSpawners(model),
        {})

LeftMoveit(a) ==
  FakeSystem(a, "revo2_left_moveit", "left", HandControllers("left"))
RightMoveit(a) ==
  FakeSystem(a, "revo2_right_moveit", "right", HandControllers("right"))
DualMoveit(a) == FakeSystem(a, "dual_revo2_moveit", "dual", DualControllers)

-----------------------------------------------------------------------------
(***************************************************************************)
(* brainco_gazebo/launch: the controllers follow the creation of the robot.  *)
(***************************************************************************)

\* rviz starts when the argument is exactly "true", a string comparison.
HandGazebo(a) ==
  LET robot == Robot("brainco_gazebo", a.hand, {})
      create == Create(robot, HandControllers(a.hand))
      broadcaster == Spawner(Broadcaster)
  IN  Description("revo2_hand_gazebo",
        Gazebo \union {Publisher(robot), create}
          \union If(a.rviz, {Rviz(NoRobot)}),
        {<<create, {broadcaster}>>,
         <<broadcaster, {Spawner(Trajectory(a.hand))}>>})

HandGazeboMoveitNodes(a) ==
  MoveitNodes(a, Robot("brainco_gazebo", a.hand, {}), a.hand)

\* Mutant of HandGazeboMoveit: the hand's spawner follows gz_sim, which goes on
\* until the bring-up is stopped.
HandGazeboMoveitStuck(a) ==
  LET robot == Robot("brainco_gazebo", a.hand, {})
      create == Create(robot, HandControllers(a.hand))
      broadcaster == Spawner(Broadcaster)
      hand == Spawner(Trajectory(a.hand))
  IN  Description("revo2_hand_gazebo_moveit",
        Gazebo \union {Publisher(robot), create} \union StaticTfs("right"),
        {<<create, {broadcaster}>>,
         <<Process("gz_sim", <<>>, NoRobot, {}), {hand}>>,
         <<hand, HandGazeboMoveitNodes(a)>>})

\* Mutant of HandGazeboMoveit: the spawners follow the creation together.
HandGazeboMoveitTogether(a) ==
  LET robot == Robot("brainco_gazebo", a.hand, {})
      create == Create(robot, HandControllers(a.hand))
      hand == Spawner(Trajectory(a.hand))
  IN  Description("revo2_hand_gazebo_moveit",
        Gazebo \union {Publisher(robot), create} \union StaticTfs("right"),
        {<<create, {Spawner(Broadcaster), hand}>>,
         <<hand, HandGazeboMoveitNodes(a)>>})

HandGazeboMoveit(a) ==
  LET robot == Robot("brainco_gazebo", a.hand, {})
      create == Create(robot, HandControllers(a.hand))
      broadcaster == Spawner(Broadcaster)
      hand == Spawner(Trajectory(a.hand))
  IN  Description("revo2_hand_gazebo_moveit",
        Gazebo \union {Publisher(robot), create} \union StaticTfs("right"),
        {<<create, {broadcaster}>>, <<broadcaster, {hand}>>,
         <<hand, HandGazeboMoveitNodes(a)>>})

DualGazeboRobot == Robot("brainco_gazebo", "dual", {})
DualSpawners == {Spawner(Trajectory("left")), Spawner(Trajectory("right"))}

DualGazebo(a) ==
  LET create == Create(DualGazeboRobot, DualControllers)
      broadcaster == Spawner(Broadcaster)
  IN  Description("dual_revo2_hand_gazebo",
        Gazebo \union {Publisher(DualGazeboRobot), create}
          \union If(a.rviz, {Rviz(NoRobot)}),
        {<<create, {broadcaster}>>, <<broadcaster, DualSpawners>>})

\* rviz does not wait; move_group waits for the spawner of the right hand.
DualGazeboMoveit(a) ==
  LET create == Create(DualGazeboRobot, DualControllers)
      broadcaster == Spawner(Broadcaster)
  IN  Description("dual_revo2_hand_gazebo_moveit",
        Gazebo \union {Publisher(DualGazeboRobot), create}
          \union StaticTfs("dual") \union If(a.rviz, {Rviz(DualGazeboRobot)}),
        {<<create, {broadcaster}>>, <<broadcaster, DualSpawners>>,
         <<Spawner(Trajectory("right")),
           {MoveGroup(DualGazeboRobot, MoveitControllers("dual"))}>>})

-----------------------------------------------------------------------------
(***************************************************************************)
(* revo2_with_rm65_demo: the arm with the right hand.                       *)
(***************************************************************************)

Rm65GazeboRobot == Robot("gazebo_rm_65_6f_with_revo2_demo", "rm65", {})
ArmSpawner  == Spawner(Trajectory("arm"))
HandSpawner == Spawner(Trajectory("hand"))

Rm65Gazebo(a) ==
  LET create == Create(Rm65GazeboRobot, Rm65Controllers)
      broadcaster == Spawner(Broadcaster)
  IN  Description("gazebo_rm_65_6f_with_revo2",
        Gazebo \union {Publisher(Rm65GazeboRobot), create}
          \union If(a.rviz, {Rviz(NoRobot)}),
        {<<create, {broadcaster}>>, <<broadcaster, {ArmSpawner}>>,
         <<ArmSpawner, {HandSpawner}>>})

\* The argument rviz_config is read and not used.
Rm65GazeboMoveit(a) ==
  LET create == Create(Rm65GazeboRobot, Rm65Controllers)
      broadcaster == Spawner(Broadcaster)
  IN  Description("gazebo_rm65_with_revo2_moveit",
        Gazebo \union {Publisher(Rm65GazeboRobot), create}
          \union StaticTfs("rm65") \union If(a.rviz, {Rviz(Rm65GazeboRobot)}),
        {<<create, {broadcaster}>>, <<broadcaster, {ArmSpawner}>>,
         <<ArmSpawner, {HandSpawner}>>,
         <<HandSpawner,
           {MoveGroup(Rm65GazeboRobot, MoveitControllers("rm65"))}>>})

Rm65Robot == Robot("rm65_with_revo2_right_moveit_config", "rm65", {})

\* Mutant of Rm65Moveit: the spawners are started on the real arm, too.
Rm65MoveitSpawnersAlways(a) ==
  Description("rm65_with_revo2_right_moveit",
    StaticTfs("rm65")
      \union {Respawned(Publisher(Rm65Robot)),
              MoveGroup(Rm65Robot, MoveitControllers("rm65"))}
      \union If(a.rviz, {Rviz(NoRobot)})
      \union If(~a.fake /\ a.bridge, {Respawned(RmBridge)})
      \union If(a.fake, {ControlNode(Rm65Robot, Rm65Controllers)})
      \union MoveitSpawners("rm65"),
    {})

\* On the FakeSystem the controllers serve MoveIt, on the arm the bridge does.
Rm65Moveit(a) ==
  Description("rm65_with_revo2_right_moveit",
    StaticTfs("rm65")
      \union {Respawned(Publisher(Rm65Robot)),
              MoveGroup(Rm65Robot, MoveitControllers("rm65"))}
      \union If(a.rviz, {Rviz(NoRobot)})
      \union If(~a.fake /\ a.bridge, {Respawned(RmBridge)})
      \union If(a.fake, {ControlNode(Rm65Robot, Rm65Controllers)}
                         \union MoveitSpawners("rm65")),
    {})

\* demo.launch.py and the files that it includes.
VirtualJointTfs == StaticTfs("rm65")
Rsp             == {Respawned(Publisher(Rm65Robot))}
MoveGroupLaunch == {MoveGroup(Rm65Robot, MoveitControllers("rm65"))}
MoveitRviz      == {Rviz(NoRobot)}
SpawnControllers == MoveitSpawners("rm65")

Rm65Demo(a) ==
  Description("demo",
    VirtualJointTfs \union Rsp \union MoveGroupLaunch
      \union If(a.rviz, MoveitRviz)
      \union {ControlNode(Rm65Robot, Rm65Controllers)} \union SpawnControllers,
    {})

\* rm_revo2_bridge.launch.py and setup_assistant.launch.py: one process each.
BridgeLaunch   == Description("rm_revo2_bridge", {RmBridge}, {})
SetupAssistant == Description("setup_assistant",
  {Process("moveit_setup_assistant", <<>>, NoRobot, {})}, {})
=============================================================================
