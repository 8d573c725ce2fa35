------------------------------ MODULE Bringup ------------------------------
(***************************************************************************)
(* A launch description at run time: launch starts processes and handles    *)
(* their exits one event at a time, while the processes run beside it.  Of   *)
(* the processes (external) it is modelled when a controller manager is     *)
(* ready, what its spawners make of it, and that any process may die.       *)
(*                                                                         *)
(* Launch itself is external: an OnProcessExit handler runs on every exit of *)
(* its target, whatever the return code, and an action that fails ends the   *)
(* whole bring-up.                                                         *)
(***************************************************************************)
EXTENDS LaunchFiles

CONSTANTS
  Descriptions, \* the launch descriptions that are looked at
  Unreadable,   \* names of files that are missing or no protocol files
  MaxCrashes    \* bound: processes that die

ASSUME MaxCrashesAssumption == MaxCrashes \in Nat

VARIABLES
  desc,     \* the launch description
  launched, \* the processes that launch has started
  ended,    \* those of them that do not run any more
  failed,   \* those that ended with an error
  events,   \* processes whose exit launch has not handled yet
  ready,    \* the processes whose controller manager serves requests
  active,   \* the controllers that are active
  stopped,  \* launch has given up
  crashes

launch    == <<launched, events, stopped>>
processes == <<ended, failed, crashes>>
manager   == <<ready, active>>
vars      == <<desc, launch, processes, manager>>

\* A launch description, and the processes that it names.
Handled(d, p) == UNION {h[2] : h \in {k \in d.onExit : k[1] = p}}
Everything(d) == d.start \union UNION {h[2] : h \in d.onExit}

Running == launched \ ended
Runs(exec) == \E p \in Running : p.exec = exec

Init ==
  /\ desc \in Descriptions
  /\ launched = {} /\ ended = {} /\ failed = {} /\ events = {}
  /\ ready = {} /\ active = {}
  /\ stopped = FALSE /\ crashes = 0

-----------------------------------------------------------------------------
(***************************************************************************)
(* Launch.                                                                 *)
(***************************************************************************)

\* xacro reads the files that it is given.
Expands(robot) == robot.values \cap Unreadable = {}

\* Starting processes: a robot description that xacro cannot expand raises.
LaunchAll(processes_) ==
  IF \A p \in processes_ : Expands(p.robot)
  THEN launched' = launched \union processes_ /\ UNCHANGED stopped
  ELSE stopped' = TRUE /\ UNCHANGED launched

\* The description is visited: every handler is registered before any event.
Visit ==
  /\ ~stopped /\ launched = {}
  /\ LaunchAll(desc.start)
  /\ UNCHANGED <<desc, events, processes, manager>>

HandleExit(p) ==
  /\ ~stopped /\ p \in events
  /\ events' = events \ {p}
  /\ LaunchAll(Handled(desc, p))
  /\ UNCHANGED <<desc, processes, manager>>

\* respawn = True.
Respawn(p) ==
  /\ ~stopped /\ p \in ended /\ p.respawn
  /\ ended' = ended \ {p}
  /\ UNCHANGED <<desc, launch, failed, crashes, manager>>

-----------------------------------------------------------------------------
(***************************************************************************)
(* The processes (external).                                               *)
(***************************************************************************)

Exit(p, ok) ==
  /\ ended' = ended \union {p}
  /\ events' = events \union {p}
  /\ failed' = IF ok THEN failed ELSE failed \union {p}

\* Where a controller manager lives: ros2_control_node, or the plugin of a robot
\* that was put into a simulation that runs.
IsManager(p) ==
  \/ p.exec = "ros2_control_node" /\ p \in Running
  \/ /\ p.exec = "create" /\ p \in ended \ failed
     /\ Runs("gz_sim")

ManagerReady(p) ==
  /\ ~stopped /\ p \in launched \ ready /\ IsManager(p)
  /\ ready' = ready \union {p}
  /\ UNCHANGED <<desc, launch, processes, active>>

\* create asks the simulator for its worlds, as the files name none, waits for
\* the description on its topic and puts the robot into the simulation, or
\* cannot.
CreateEnds(p) ==
  /\ ~stopped /\ p.exec = "create" /\ p \in Running
  /\ \/ Exit(p, FALSE)
     \/ Runs("gz_sim") /\ Exit(p, TRUE)
  /\ UNCHANGED <<desc, launched, stopped, crashes, manager>>

\* Two controllers claim the same command interfaces.
Conflict(c, d) == c # d /\ Len(c) = 2 /\ Len(d) = 2 /\ c[2] = d[2]

Manager(p) == {m \in ready : p.arg \in m.controllers}

\* The controller is loaded, and activated when its interfaces are free.
SpawnerSucceeds(p) ==
  /\ ~stopped /\ p.exec = "spawner" /\ p \in Running
  /\ Manager(p) # {}
  /\ p.inactive \/ \A c \in active : ~Conflict(c, p.arg)
  /\ Exit(p, TRUE)
  /\ active' = IF p.inactive THEN active ELSE active \union {p.arg}
  /\ UNCHANGED <<desc, launched, stopped, crashes, ready>>

\* The manager does not come up, dies, or refuses the controller.
SpawnerFails(p) ==
  /\ ~stopped /\ p.exec = "spawner" /\ p \in Running
  /\ Exit(p, FALSE)
  /\ UNCHANGED <<desc, launched, stopped, crashes, manager>>

\* Mutant of Crash: the bound is one too high.
CrashOnceMore(p) ==
  /\ ~stopped /\ p \in Running /\ p.exec \notin {"spawner", "create"}
  /\ crashes <= MaxCrashes /\ crashes' = crashes + 1
  /\ Exit(p, FALSE)
  /\ UNCHANGED <<desc, launched, stopped, manager>>

\* Any process that does not end by itself may die; a manager takes its
\* controllers along.
Crash(p) ==
  /\ ~stopped /\ p \in Running /\ p.exec \notin {"spawner", "create"}
  /\ crashes < MaxCrashes /\ crashes' = crashes + 1
  /\ Exit(p, FALSE)
  /\ IF p.exec \in {"ros2_control_node", "gz_sim"}
     THEN ready' = {} /\ active' = {}
     ELSE UNCHANGED manager
  /\ UNCHANGED <<desc, launched, stopped>>

Next ==
  \/ Visit
  \/ \E p \in launched :
       \/ HandleExit(p) \/ Respawn(p) \/ ManagerReady(p) \/ CreateEnds(p)
       \/ SpawnerSucceeds(p) \/ SpawnerFails(p) \/ Crash(p)

Spec == Init /\ [][Next]_vars

(***************************************************************************)
(* Fairness: launch handles its events, a manager that lives gets ready, and *)
(* spawners end, with success or not, as their waits are bounded.  The waits *)
(* of create for the worlds and for the description are not: it ends when    *)
(* the simulator and the state publisher run.                              *)
(***************************************************************************)
CreateIsServed == Runs("gz_sim") /\ Runs("robot_state_publisher")

FairSpec ==
  /\ Spec
  /\ WF_vars(Visit)
  /\ WF_vars(\E p \in launched : HandleExit(p) \/ Respawn(p))
  /\ WF_vars(\E p \in launched : ManagerReady(p))
  /\ WF_vars(\E p \in launched : \/ CreateIsServed /\ CreateEnds(p)
                                 \/ SpawnerSucceeds(p) \/ SpawnerFails(p))

-----------------------------------------------------------------------------
TypeOK ==
  /\ desc \in Descriptions
  /\ launched \subseteq Everything(desc)
  /\ ended \subseteq launched /\ failed \subseteq launched
  /\ events \subseteq launched /\ ready \subseteq launched
  /\ active \subseteq {p.arg : p \in launched}
  /\ stopped \in BOOLEAN
  /\ crashes \in 0..MaxCrashes

(***************************************************************************)
(* Safety.                                                                 *)
(***************************************************************************)

\* One bring-up has one robot: the description that move_group and rviz are
\* given later, computed from the arguments once more, is the one that the
\* controller manager and the state publisher got.
SameRobot ==
  \A p, q \in launched :
    p.robot # NoRobot /\ q.robot # NoRobot => p.robot = q.robot

\* A spawner is started only for a controller with which the manager of this
\* bring-up is configured.
SpawnersAreServed ==
  \A p \in launched : p.exec = "spawner" =>
    \E m \in launched : /\ m.exec \in {"ros2_control_node", "create"}
                        /\ p.arg \in m.controllers

\* The positions of the joints have one source: the broadcaster, or the bridge
\* to the real arm, never both.
OneJointStateSource ==
  ~ \E p, q \in launched : /\ p.exec = "rm_revo2_bridge_node"
                           /\ q.exec = "spawner" /\ q.arg = Broadcaster

\* No two spawners of one bring-up compete for the interfaces of a hand, in
\* whatever order they end.
NoCompetition ==
  \A p, q \in launched :
    /\ p.exec = "spawner" /\ q.exec = "spawner"
    /\ ~p.inactive /\ ~q.inactive
    => ~Conflict(p.arg, q.arg)

\* Where a file orders its processes at all, move_group comes when no spawner is
\* left to be started, whatever failed and in whatever order exits are handled.
NoSpawnerAfterMoveGroup ==
  (\E p \in launched : p.exec = "move_group")
    => \A p \in Everything(desc) : p.exec = "spawner" => p \in launched

\* Where a file orders its processes at all, no other spawner is started before
\* the one of the broadcaster has exited, and none before the robot is in the
\* simulation.
BroadcasterFirst ==
  desc.onExit # {} =>
    \A p \in launched : p.exec = "spawner" =>
      /\ p.arg = Broadcaster \/ Spawner(Broadcaster) \in ended
      /\ \A q \in desc.start : q.exec = "create" => q \in ended

\* An OnProcessExit handler only starts something once its target has exited.
ChainKept ==
  \A p \in launched \ desc.start :
    \E h \in desc.onExit : p \in h[2] /\ h[1] \in ended

\* "After all controllers have started, start MoveGroup": no spawner still runs
\* when move_group is there.  No run checks it: it fails for the file of the
\* comment, which follows one of two spawners, and for no other file.
ControllersBeforeMoveGroup ==
  desc.onExit # {} /\ (\E p \in launched : p.exec = "move_group")
    => \A p \in launched : p.exec = "spawner" => p \in ended

-----------------------------------------------------------------------------
(***************************************************************************)
(* Liveness, under FairSpec.                                               *)
(***************************************************************************)

\* Whatever fails and whoever dies, every process of the description is started
\* in the end, what is computed from the arguments once more included: the
\* chain of handlers waits for no process that does not end, except for create
\* when the simulator or the state publisher, for which it waits, is gone.
\* Launch only gives up when the robot of the processes that it starts first
\* cannot be expanded.
BringUpCompletes ==
  <>[](\/ launched = Everything(desc)
       \/ Runs("create") /\ ~CreateIsServed
       \/ \E p \in desc.start : ~Expands(p.robot))

\* Who serves a controller's trajectories: its manager when it is active, or the
\* bridge to the arm.
Served(c) ==
  c \in active \/ \E b \in Running : /\ b.exec = "rm_revo2_bridge_node"
                                     /\ c \in b.controllers

\* What move_group sends trajectories to is there in the end, and again after a
\* respawn, unless something else failed or the user started neither of the two.
MoveGroupIsServed ==
  <>[](\/ \E p \in failed : ~p.respawn
       \/ \A p \in launched : p.exec = "move_group" =>
            \A c \in p.controllers :
              (\E q \in Everything(desc) \ {p} : c \in q.controllers)
                => Served(c))
=============================================================================
