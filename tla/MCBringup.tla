----------------------------- MODULE MCBringup -----------------------------
\* Bringup of every launch file, with every choice of the hand, the protocol
\* and the flags; of the names of files, none, one that exists and one that
\* does not.
EXTENDS Bringup

MissingFiles == {<<"/", "missing">>}

SingleArguments ==
  [hand : Sides, protocol : {"modbus", "canfd"},
   config : {<<>>, <<"/", "mine">>} \union MissingFiles,
   rviz : BOOLEAN, duration : {"10"}]

DualArguments ==
  [left : {<<>>, <<"mine">>},
   right : {<<>>, <<"/", "mine">>} \union MissingFiles,
   positions : {<<>>, <<"mine">>}, rviz : {TRUE}]

DemoArguments == [rviz : BOOLEAN, fake : BOOLEAN, bridge : BOOLEAN]

LaunchDescriptions ==
  UNION { {Revo2System(a), EthercatSystem(a), RealMoveit(a), EthercatMoveit(a),
           HandGazebo(a), HandGazeboMoveit(a)} : a \in SingleArguments }
  \union UNION { {DualSystem(a), DualRealMoveit(a)} : a \in DualArguments }
  \union UNION { {LeftMoveit(a), RightMoveit(a), DualMoveit(a), DualGazebo(a),
                  DualGazeboMoveit(a), Rm65Gazebo(a), Rm65GazeboMoveit(a),
                  Rm65Moveit(a), Rm65Demo(a)} : a \in DemoArguments }
  \union {BridgeLaunch, SetupAssistant}
=============================================================================
