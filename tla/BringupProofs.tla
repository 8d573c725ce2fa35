--------------------------- MODULE BringupProofs ---------------------------
(***************************************************************************)
(* Theorems about the bring-up: what holds for every set of launch          *)
(* descriptions, and what the files of this repository make of it for every *)
(* value of their arguments.                                               *)
(***************************************************************************)
EXTENDS Bringup, TLAPS

-----------------------------------------------------------------------------
(* Type correctness.                                                       *)

\* What a handler starts is named by one of the description's pairs.
LEMMA HandledIsNamed ==
  ASSUME NEW d, NEW p, NEW q \in Handled(d, p)
  PROVE  \E h \in d.onExit : h[1] = p /\ q \in h[2]
BY DEF Handled

\* Launch only ever adds processes.
LEMMA LaunchAllAdds ==
  ASSUME NEW S, LaunchAll(S), stopped \in BOOLEAN
  PROVE  /\ launched \subseteq launched'
         /\ launched' \subseteq launched \union S
         /\ stopped' \in BOOLEAN
BY DEF LaunchAll

\* An exit is recorded for a process that was started.
LEMMA ExitType ==
  ASSUME NEW p \in launched, NEW ok, Exit(p, ok),
         ended \subseteq launched, failed \subseteq launched,
         events \subseteq launched
  PROVE  /\ ended' \subseteq launched /\ failed' \subseteq launched
         /\ events' \subseteq launched
         /\ ended \subseteq ended' /\ p \in ended'
BY DEF Exit

\* Every variable of the bring-up keeps its type, for every set of
\* descriptions.
THEOREM TypeCorrect == Spec => []TypeOK
<1>1. Init => TypeOK
  <2> SUFFICES ASSUME Init
               PROVE  TypeOK
    OBVIOUS
  <2>1. stopped \in BOOLEAN
    BY Zenon DEF Init
  <2> QED
    BY <2>1, MaxCrashesAssumption DEF Init, TypeOK
<1>2. TypeOK /\ [Next]_vars => TypeOK'
  <2> SUFFICES ASSUME TypeOK, [Next]_vars
               PROVE  TypeOK'
    OBVIOUS
  <2> USE DEF TypeOK, launch, processes, manager
  <2>1. CASE Visit
    <3>1. desc.start \subseteq Everything(desc)
      BY DEF Everything
    <3> QED
      BY <2>1, <3>1, LaunchAllAdds DEF Visit
  <2>2. ASSUME NEW p \in launched, HandleExit(p)
        PROVE  TypeOK'
    <3>1. Handled(desc, p) \subseteq Everything(desc)
      BY DEF Handled, Everything
    <3> QED
      BY <2>2, <3>1, LaunchAllAdds DEF HandleExit
  <2>3. ASSUME NEW p \in launched, Respawn(p)
        PROVE  TypeOK'
    BY <2>3 DEF Respawn
  <2>4. ASSUME NEW p \in launched, ManagerReady(p)
        PROVE  TypeOK'
    BY <2>4 DEF ManagerReady
  <2>5. ASSUME NEW p \in launched, CreateEnds(p)
        PROVE  TypeOK'
    BY <2>5, ExitType DEF CreateEnds
  <2>6. ASSUME NEW p \in launched, SpawnerSucceeds(p)
        PROVE  TypeOK'
    BY <2>6, ExitType DEF SpawnerSucceeds
  <2>7. ASSUME NEW p \in launched, SpawnerFails(p)
        PROVE  TypeOK'
    BY <2>7, ExitType DEF SpawnerFails
  <2>8. ASSUME NEW p \in launched, Crash(p)
        PROVE  TypeOK'
    <3>1. crashes' \in 0..MaxCrashes
      BY <2>8, MaxCrashesAssumption DEF Crash
    <3> QED
      BY <2>8, <3>1, ExitType DEF Crash
  <2>9. CASE UNCHANGED vars
    BY <2>9 DEF vars
  <2> QED
    BY <2>1, <2>2, <2>3, <2>4, <2>5, <2>6, <2>7, <2>8, <2>9 DEF Next
<1> QED
  BY <1>1, <1>2, PTL DEF Spec

-----------------------------------------------------------------------------
(* The chain of handlers.                                                  *)

\* Nothing waits for the exit of a process that comes back.
TargetsStayDown(d) == \A h \in d.onExit : ~h[1].respawn

\* A process that is not respawned stays ended.
LEMMA EndedStays ==
  ASSUME TypeOK, [Next]_vars, NEW p \in ended, ~p.respawn
  PROVE  p \in ended' /\ desc' = desc
BY DEF Next, vars, launch, processes, manager, Visit, HandleExit, Respawn,
       ManagerReady, CreateEnds, SpawnerSucceeds, SpawnerFails, Crash, Exit

\* Every step of a process leaves what launch has started alone.
LEMMA NewProcess ==
  ASSUME TypeOK, [Next]_vars, NEW q \in launched', q \notin launched
  PROVE  \/ Visit /\ q \in desc.start
         \/ \E p \in events : q \in Handled(desc, p)
<1>1. CASE Visit
  BY <1>1, LaunchAllAdds DEF Visit, TypeOK
<1>2. ASSUME NEW p \in launched, HandleExit(p)
      PROVE  p \in events /\ q \in Handled(desc, p)
  BY <1>2, LaunchAllAdds DEF HandleExit, TypeOK
<1> QED
  BY <1>1, <1>2
     DEF Next, vars, launch, processes, manager, Respawn, ManagerReady,
         CreateEnds, SpawnerSucceeds, SpawnerFails, Crash

\* An exit that is not handled yet has happened.
EventsHappened == \A p \in events : p \in ended \/ p.respawn

LEMMA EventsInductive == Spec => []EventsHappened
<1>1. Init => EventsHappened
  BY DEF Init, EventsHappened
<1>2. TypeOK /\ EventsHappened /\ [Next]_vars => EventsHappened'
  <2> SUFFICES ASSUME TypeOK, EventsHappened, [Next]_vars
               PROVE  EventsHappened'
    OBVIOUS
  <2> SUFFICES ASSUME NEW p \in events', ~p.respawn
               PROVE  p \in ended'
    BY DEF EventsHappened
  <2>1. p \in events \/ p \in ended'
    BY DEF Next, vars, launch, processes, manager, Visit, HandleExit, Respawn,
           ManagerReady, CreateEnds, SpawnerSucceeds, SpawnerFails, Crash, Exit
  <2>2. p \in events => p \in ended
    BY DEF EventsHappened
  <2> QED
    BY <2>1, <2>2, EndedStays
<1> QED
  BY <1>1, <1>2, TypeCorrect, PTL DEF Spec

\* Whatever a handler starts comes after the exit of its target (ChainKept), for
\* every set of descriptions whose targets are not respawned.
THEOREM Chain ==
  ASSUME \A d \in Descriptions : TargetsStayDown(d)
  PROVE  Spec => []ChainKept
<1>1. Init => ChainKept
  BY DEF Init, ChainKept
<1>2. TypeOK /\ EventsHappened /\ ChainKept /\ [Next]_vars => ChainKept'
  <2> SUFFICES ASSUME TypeOK, EventsHappened, ChainKept, [Next]_vars,
                      NEW q \in launched' \ desc'.start
               PROVE  \E h \in desc'.onExit : q \in h[2] /\ h[1] \in ended'
    BY DEF ChainKept
  <2>1. desc' = desc
    BY DEF Next, vars, launch, processes, manager, Visit, HandleExit, Respawn,
           ManagerReady, CreateEnds, SpawnerSucceeds, SpawnerFails, Crash
  <2>2. \E h \in desc.onExit : q \in h[2] /\ h[1] \in ended \union events
    <3>1. CASE q \in launched
      BY <2>1, <3>1 DEF ChainKept
    <3>2. CASE q \notin launched
      BY <2>1, <3>2, NewProcess, HandledIsNamed
    <3> QED
      BY <3>1, <3>2
  <2>3. PICK h \in desc.onExit : q \in h[2] /\ h[1] \in ended \union events
    BY <2>2
  <2>4. ~h[1].respawn
    BY <2>3 DEF TypeOK, TargetsStayDown
  <2>5. h[1] \in ended
    BY <2>3, <2>4 DEF EventsHappened
  <2> QED
    BY <2>1, <2>3, <2>4, <2>5, EndedStays
<1> QED
  BY <1>1, <1>2, TypeCorrect, EventsInductive, PTL DEF Spec
-----------------------------------------------------------------------------
(* The order of the spawners.                                              *)

IsSpawner(p) == p.exec = "spawner"
IsCreate(p)  == p.exec = "create"

\* A file with one spawner for the broadcaster, which it starts at once, where
\* nothing has to be created, or upon the exit of what creates the robot, while
\* it starts every other spawner upon the exit of a spawner.
Chained(d) ==
  /\ TargetsStayDown(d)
  /\ \A p \in Everything(d) : IsSpawner(p) \/ IsCreate(p) => ~p.respawn
  /\ \A p \in Everything(d) :
       IsSpawner(p) /\ p.arg = Broadcaster => p = Spawner(Broadcaster)
  /\ \A p \in d.start :
       IsSpawner(p) => /\ p = Spawner(Broadcaster)
                       /\ \A c \in d.start : ~IsCreate(c)
  /\ \A h \in d.onExit : \A p \in h[2] :
       IsSpawner(p) =>
         \/ /\ p = Spawner(Broadcaster)
            /\ \A c \in d.start : IsCreate(c) => c = h[1]
         \/ IsSpawner(h[1])

\* What BroadcasterFirst says of one spawner.
InOrder(p) ==
  /\ p.arg = Broadcaster \/ Spawner(Broadcaster) \in ended
  /\ \A c \in desc.start : IsCreate(c) => c \in ended

\* In a file that is chained every spawner is in order: by induction along the
\* chain, whatever fails on the way.
THEOREM Order ==
  ASSUME \A d \in Descriptions : d.onExit = {} \/ Chained(d)
  PROVE  Spec => []BroadcasterFirst
<1> DEFINE Inv == desc.onExit # {} =>
                    \A p \in launched : IsSpawner(p) => InOrder(p)
<1> ~Spawner(Broadcaster).respawn /\ IsSpawner(Spawner(Broadcaster))
  BY DEF Spawner, Process, IsSpawner
<1> Spawner(Broadcaster).arg = Broadcaster
  BY DEF Spawner, Process
<1>1. Init => Inv
  BY DEF Init
<1>2. TypeOK /\ EventsHappened /\ Inv /\ [Next]_vars => Inv'
  <2> SUFFICES ASSUME TypeOK, EventsHappened, Inv, [Next]_vars,
                      desc'.onExit # {},
                      NEW p \in launched', IsSpawner(p)
               PROVE  InOrder(p)'
    BY DEF Inv
  <2>1. desc' = desc /\ desc \in Descriptions
    BY DEF Next, vars, launch, processes, manager, Visit, HandleExit, Respawn,
           ManagerReady, CreateEnds, SpawnerSucceeds, SpawnerFails, Crash,
           TypeOK
  <2>2. Chained(desc)
    BY <2>1
  <2>3. ASSUME InOrder(p)
        PROVE  InOrder(p)'
    <3>1. Spawner(Broadcaster) \in ended => Spawner(Broadcaster) \in ended'
      BY EndedStays
    <3>2. ASSUME NEW c \in desc.start, IsCreate(c), c \in ended
          PROVE  c \in ended'
      BY <2>2, <3>2, EndedStays DEF Chained, Everything
    <3> QED
      BY <2>1, <2>3, <3>1, <3>2 DEF InOrder
  <2>4. CASE p \in launched
    BY <2>1, <2>3, <2>4 DEF Inv
  <2>5. CASE Visit /\ p \in desc.start
    BY <2>2, <2>3, <2>5 DEF Chained, InOrder
  <2>6. ASSUME NEW t \in events, p \in Handled(desc, t)
        PROVE  InOrder(p)'
    <3>1. PICK h \in desc.onExit : h[1] = t /\ p \in h[2]
      BY <2>6, HandledIsNamed
    <3>2. t \in ended /\ t \in launched
      BY <2>2, <3>1 DEF EventsHappened, Chained, TargetsStayDown, TypeOK
    <3>3. CASE /\ p = Spawner(Broadcaster)
               /\ \A c \in desc.start : IsCreate(c) => c = h[1]
      BY <2>3, <3>1, <3>2, <3>3 DEF InOrder
    <3>4. CASE IsSpawner(h[1])
      <4>1. InOrder(t)
        BY <2>1, <3>1, <3>2, <3>4 DEF Inv
      <4>2. t.arg = Broadcaster => Spawner(Broadcaster) \in ended
        BY <2>2, <3>1, <3>2, <3>4 DEF Chained, TypeOK
      <4> QED
        BY <2>3, <3>2, <4>1, <4>2 DEF InOrder
    <3> QED
      BY <2>2, <3>1, <3>3, <3>4 DEF Chained
  <2> QED
    BY <2>4, <2>5, <2>6, NewProcess
<1>3. Inv => BroadcasterFirst
  BY DEF BroadcasterFirst, IsSpawner, IsCreate, InOrder
<1> QED
  BY <1>1, <1>2, <1>3, TypeCorrect, EventsInductive, PTL DEF Spec
-----------------------------------------------------------------------------
(* What launch starts together.                                            *)

\* L is what launch may have started of a description: all that it starts at
\* once, or nothing, and of the others only what a handler has started, whole,
\* after its target.
StartedTogether(d, L) ==
  /\ L # {} => d.start \subseteq L
  /\ \A p \in L \ d.start :
       \E h \in d.onExit : p \in h[2] /\ h[1] \in L /\ h[2] \subseteq L

\* Launch starts the processes of a description, and those of a handler, all
\* together.
LEMMA TogetherInductive == Spec => []StartedTogether(desc, launched)
<1> DEFINE Inv == StartedTogether(desc, launched)
<1>1. Init => Inv
  BY DEF Init, StartedTogether
<1>2. TypeOK /\ Inv /\ [Next]_vars => Inv'
  <2> SUFFICES ASSUME TypeOK, Inv, [Next]_vars
               PROVE  Inv'
    OBVIOUS
  <2>1. CASE Visit
    BY <2>1 DEF Visit, LaunchAll, StartedTogether
  <2>2. ASSUME NEW t \in launched, HandleExit(t)
        PROVE  Inv'
    <3>1. desc' = desc
      BY <2>2 DEF HandleExit
    <3>2. CASE launched' = launched
      BY <3>1, <3>2 DEF StartedTogether
    <3>3. CASE launched' = launched \union Handled(desc, t)
      <4>1. desc.start \subseteq launched'
        BY <3>3 DEF StartedTogether
      <4>2. ASSUME NEW p \in launched' \ desc.start
            PROVE  \E h \in desc.onExit :
                     /\ p \in h[2] /\ h[1] \in launched'
                      /\ h[2] \subseteq launched'
        <5>1. CASE p \in launched
          BY <3>3, <5>1 DEF StartedTogether
        <5>2. CASE p \in Handled(desc, t)
          <6>1. PICK h \in desc.onExit : h[1] = t /\ p \in h[2]
            BY <5>2, HandledIsNamed
          <6>2. h[2] \subseteq Handled(desc, t)
            BY <6>1 DEF Handled
          <6> QED
            BY <3>3, <6>1, <6>2
        <5> QED
          BY <3>3, <5>1, <5>2
      <4> QED
        BY <3>1, <4>1, <4>2 DEF StartedTogether
    <3> QED
      BY <2>2, <3>2, <3>3 DEF HandleExit, LaunchAll
  <2>3. CASE \/ UNCHANGED vars
             \/ \E p \in launched :
                  \/ Respawn(p) \/ ManagerReady(p) \/ CreateEnds(p)
                  \/ SpawnerSucceeds(p) \/ SpawnerFails(p) \/ Crash(p)
    <3>1. UNCHANGED <<desc, launched>>
      BY <2>3
         DEF vars, launch, Respawn, ManagerReady, CreateEnds, SpawnerSucceeds,
             SpawnerFails, Crash
    <3> QED
      BY <3>1
  <2> QED
    BY <2>1, <2>2, <2>3 DEF Next
<1> QED
  BY <1>1, <1>2, TypeCorrect, PTL DEF Spec

-----------------------------------------------------------------------------
(* What follows for a bring-up from what a file says.                       *)

\* Every process of the description that is given a robot is given the same one.
OneRobot(d) ==
  \A p, q \in Everything(d) :
    p.robot # NoRobot /\ q.robot # NoRobot => p.robot = q.robot

\* What a file starts at once has a manager for every spawner of the file.
HasManager(d) ==
  \A p \in Everything(d) : IsSpawner(p) =>
    \E m \in d.start : /\ m.exec \in {"ros2_control_node", "create"}
                       /\ p.arg \in m.controllers

\* A file names the bridge to the arm or a spawner of the broadcaster.
OneSource(d) ==
  ~ \E p, q \in Everything(d) : /\ p.exec = "rm_revo2_bridge_node"
                                /\ IsSpawner(q) /\ q.arg = Broadcaster

\* The controllers that a file activates do not conflict.
NoRivals(d) ==
  \A p, q \in Everything(d) :
    IsSpawner(p) /\ IsSpawner(q) /\ ~p.inactive /\ ~q.inactive
      => ~Conflict(p.arg, q.arg)

\* Whatever has been started when move_group is, all spawners are part of it.
MoveGroupIsLast(d) ==
  \A L \in SUBSET Everything(d) :
    StartedTogether(d, L) /\ (\E p \in L : p.exec = "move_group")
      => \A p \in Everything(d) : IsSpawner(p) => p \in L

Consistent(d) ==
  /\ OneRobot(d) /\ HasManager(d) /\ OneSource(d) /\ NoRivals(d)
  /\ MoveGroupIsLast(d)
  /\ d.onExit = {} \/ Chained(d)

\* One robot in the description is one robot in the bring-up (SameRobot).
LEMMA RobotKept ==
  ASSUME \A d \in Descriptions : OneRobot(d)
  PROVE  Spec => []SameRobot
<1>1. TypeOK => SameRobot
  BY DEF TypeOK, OneRobot, SameRobot
<1> QED
  BY <1>1, TypeCorrect, PTL

\* A spawner finds its controller in the manager of the bring-up
\* (SpawnersAreServed), because launch starts the manager, or what brings it,
\* together with or ahead of every spawner.
LEMMA SpawnersFindTheirManager ==
  ASSUME \A d \in Descriptions : HasManager(d)
  PROVE  Spec => []SpawnersAreServed
<1>1. TypeOK /\ StartedTogether(desc, launched) => SpawnersAreServed
  BY DEF TypeOK, HasManager, StartedTogether, SpawnersAreServed, IsSpawner
<1> QED
  BY <1>1, TypeCorrect, TogetherInductive, PTL

\* A file that does not name the bridge to the arm and a spawner of the
\* broadcaster has one source of joint states (OneJointStateSource).
LEMMA OneSourceKept ==
  ASSUME \A d \in Descriptions : OneSource(d)
  PROVE  Spec => []OneJointStateSource
<1>1. TypeOK => OneJointStateSource
  BY DEF TypeOK, OneSource, OneJointStateSource, IsSpawner
<1> QED
  BY <1>1, TypeCorrect, PTL

\* No two spawners compete in a file without rivals (NoCompetition).
LEMMA RivalsKeptApart ==
  ASSUME \A d \in Descriptions : NoRivals(d)
  PROVE  Spec => []NoCompetition
<1>1. TypeOK => NoCompetition
  BY DEF TypeOK, NoRivals, NoCompetition, IsSpawner
<1> QED
  BY <1>1, TypeCorrect, PTL

\* When move_group is there no spawner is left to be started
\* (NoSpawnerAfterMoveGroup), whatever fails and in whatever order the exits are
\* handled.
LEMMA MoveGroupComesLast ==
  ASSUME \A d \in Descriptions : MoveGroupIsLast(d)
  PROVE  Spec => []NoSpawnerAfterMoveGroup
<1>1. TypeOK /\ StartedTogether(desc, launched) => NoSpawnerAfterMoveGroup
  BY DEF TypeOK, MoveGroupIsLast, NoSpawnerAfterMoveGroup, IsSpawner
<1> QED
  BY <1>1, TypeCorrect, TogetherInductive, PTL

-----------------------------------------------------------------------------
(* The processes that the files name.                                      *)

\* A process for which no other one has to wait: no spawner, and nothing that
\* creates a robot.  A plain one does not wait for others, either, as
\* move_group does.
Bystander(p) == ~IsSpawner(p) /\ ~IsCreate(p)
Plain(p) == Bystander(p) /\ p.exec # "move_group"

\* The roles of the processes that the files start.
LEMMA Roles ==
  ASSUME NEW x, NEW y
  PROVE  /\ Plain(Publisher(x)) /\ Plain(Respawned(Publisher(x)))
         /\ Plain(ControlNode(x, y)) /\ Plain(Rviz(x)) /\ Plain(StaticTf(x))
         /\ Bystander(MoveGroup(x, y))
         /\ IsCreate(Create(x, y)) /\ ~IsSpawner(Create(x, y))
         /\ ~Create(x, y).respawn /\ Create(x, y).exec # "move_group"
         /\ IsSpawner(Spawner(x)) /\ ~IsCreate(Spawner(x))
         /\ Spawner(x).arg = x /\ ~Spawner(x).respawn
BY DEF Plain, Bystander, IsSpawner, IsCreate, Publisher, Respawned, ControlNode,
       MoveGroup, Rviz, StaticTf, Create, Spawner, Process

\* The simulator and the static transforms are plain, MoveIt is a bystander.
LEMMA Bystanders ==
  ASSUME NEW a, NEW r, NEW model
  PROVE  /\ \A p \in Gazebo : Plain(p)
         /\ \A p \in StaticTfs(model) : Plain(p)
         /\ \A p \in MoveitNodes(a, r, model) : Bystander(p)
<1>1. \A p \in Gazebo : Plain(p)
  BY DEF Gazebo, Plain, Bystander, IsSpawner, IsCreate, Process
<1> QED
  BY <1>1, Roles DEF MoveitNodes, If, StaticTfs, Plain

\* A process of a bring-up of robot r, with a manager that is configured with
\* the controllers C and activates those in A.
Member(p, r, C, A) ==
  /\ p.robot \in {r, NoRobot} /\ p.exec # "rm_revo2_bridge_node"
  /\ IsSpawner(p) => p.arg \in C /\ (p.inactive \/ p.arg \in A)

\* What a file gives to its processes makes them members.
LEMMA Members ==
  ASSUME NEW r, NEW C, NEW A, NEW x
  PROVE  /\ Member(Publisher(r), r, C, A)
         /\ Member(Respawned(Publisher(r)), r, C, A)
         /\ Member(ControlNode(r, x), r, C, A)
         /\ Member(MoveGroup(r, x), r, C, A)
         /\ Member(Create(r, x), r, C, A)
         /\ Member(Rviz(r), r, C, A) /\ Member(Rviz(NoRobot), r, C, A)
         /\ Member(StaticTf(x), r, C, A)
         /\ x \in C \intersect A => Member(Spawner(x), r, C, A)
         /\ x \in C => Member(InactiveSpawner(x), r, C, A)
BY DEF Member, IsSpawner, Publisher, Respawned, ControlNode, MoveGroup, Create,
       Rviz, StaticTf, Spawner, InactiveSpawner, Process

\* So are the simulator, the static transforms and the nodes of MoveIt.
LEMMA MemberSets ==
  ASSUME NEW r, NEW C, NEW A, NEW a, NEW model
  PROVE  /\ \A p \in Gazebo : Member(p, r, C, A)
         /\ \A p \in StaticTfs(model) : Member(p, r, C, A)
         /\ \A p \in MoveitNodes(a, r, model) : Member(p, r, C, A)
<1>1. \A p \in Gazebo : Member(p, r, C, A)
  BY DEF Gazebo, Member, IsSpawner, Process
<1> QED
  BY <1>1, Members DEF MoveitNodes, If, StaticTfs

\* A manager with the controllers C.
Manages(m, C) ==
  m.exec \in {"ros2_control_node", "create"} /\ C \subseteq m.controllers

\* The node of ros2_control and the creation of a robot bring such a manager.
LEMMA Managers ==
  ASSUME NEW r, NEW x, NEW C \in SUBSET x
  PROVE  Manages(ControlNode(r, x), C) /\ Manages(Create(r, x), C)
BY DEF Manages, ControlNode, Create, Process

\* A file of members with a manager is consistent but for the order.
LEMMA MembersAgree ==
  ASSUME NEW d, NEW r, NEW C, NEW A, NEW m \in d.start,
         \A p \in d.start : Member(p, r, C, A),
         \A h \in d.onExit : \A p \in h[2] : Member(p, r, C, A),
         Manages(m, C),
         \A c, e \in A : ~Conflict(c, e)
  PROVE  OneRobot(d) /\ HasManager(d) /\ OneSource(d) /\ NoRivals(d)
<1>1. \A p \in Everything(d) : Member(p, r, C, A)
  BY DEF Everything
<1> QED
  BY <1>1 DEF Member, OneRobot, HasManager, OneSource, NoRivals, Manages

\* Without spawners there is nothing to be served and nothing to compete for.
LEMMA NoSpawners ==
  ASSUME NEW d, NEW r, d.onExit = {},
         \A p \in d.start : p.robot \in {r, NoRobot} /\ ~IsSpawner(p)
  PROVE  OneRobot(d) /\ HasManager(d) /\ OneSource(d) /\ NoRivals(d)
<1>1. Everything(d) = d.start
  BY DEF Everything
<1> QED
  BY <1>1 DEF OneRobot, HasManager, OneSource, NoRivals

\* The controllers of two hands, or of arm and hand, do not conflict, nor do
\* the broadcaster and one of them.
LEMMA NoConflicts ==
  ASSUME NEW h, NEW k
  PROVE  /\ \A c, e \in {Broadcaster, Trajectory(h)} : ~Conflict(c, e)
         /\ h # k => \A c, e \in {Broadcaster, Trajectory(h), Trajectory(k)} :
                       ~Conflict(c, e)
         /\ Trajectory(h) # Broadcaster
BY DEF Conflict, Trajectory, Broadcaster

-----------------------------------------------------------------------------
(* The shapes of the files.                                                *)

\* A file without handlers starts its spawners together with move_group.
LEMMA Flat ==
  ASSUME NEW d, d.onExit = {}
  PROVE  MoveGroupIsLast(d) /\ Everything(d) = d.start
BY DEF MoveGroupIsLast, StartedTogether, Everything

\* A spawner of a controller other than the broadcaster.
IsOtherSpawner(p) == \E c : c # Broadcaster /\ p = Spawner(c)

\* A broadcaster that starts at once, then a set of spawners.
AsBroadcasterThen(d, S, b, Q) ==
  /\ d.start = S \union {b}
  /\ \A h \in d.onExit : h[1] = b /\ h[2] = Q
  /\ b = Spawner(Broadcaster)
  /\ \A q \in Q : IsOtherSpawner(q)
  /\ \A p \in S : Plain(p)

\* The spawners of such a file come after the broadcaster.
LEMMA BroadcasterThen ==
  ASSUME NEW d, NEW S, NEW b, NEW Q,
         AsBroadcasterThen(d, S, b, Q)
  PROVE  Chained(d) /\ MoveGroupIsLast(d)
<1> USE DEF AsBroadcasterThen
<1>1. /\ IsSpawner(b) /\ ~IsCreate(b) /\ ~b.respawn /\ b.arg = Broadcaster
      /\ \A q \in Q : /\ IsSpawner(q) /\ ~IsCreate(q) /\ ~q.respawn
                      /\ q.arg # Broadcaster
      /\ \A p \in S : ~IsSpawner(p) /\ ~IsCreate(p) /\ p.exec # "move_group"
  BY Roles DEF IsOtherSpawner, Plain, Bystander, IsSpawner, IsCreate
<1>2. \A p \in Everything(d) : p \in S \union {b} \union Q
  <2> SUFFICES ASSUME NEW p \in Everything(d)
               PROVE  p \in S \union {b} \union Q
    OBVIOUS
  <2>1. p \in d.start \/ \E h \in d.onExit : p \in h[2]
    BY DEF Everything
  <2> QED
    BY <2>1
<1>3. Chained(d)
  <2>1. TargetsStayDown(d)
    BY <1>1 DEF TargetsStayDown
  <2>2. \A p \in Everything(d) :
          /\ IsSpawner(p) \/ IsCreate(p) => ~p.respawn
          /\ IsSpawner(p) /\ p.arg = Broadcaster => p = b
    BY <1>1, <1>2
  <2>3. \A c \in d.start : ~IsCreate(c) /\ (IsSpawner(c) => c = b)
    BY <1>1
  <2>4. \A h \in d.onExit : \A p \in h[2] : IsSpawner(h[1])
    BY <1>1
  <2> QED
    BY <2>1, <2>2, <2>3, <2>4 DEF Chained
<1>4. MoveGroupIsLast(d)
  <2>1. \A p \in Everything(d) : p.exec # "move_group"
    BY <1>1, <1>2 DEF IsSpawner
  <2> QED
    BY <2>1 DEF MoveGroupIsLast
<1> QED
  BY <1>3, <1>4

\* A broadcaster that starts at once, then a spawner, then no spawner.
AsChainOfTwo(d, S, b, s, T) ==
  /\ d.start = S \union {b}
  /\ \A h \in d.onExit :
       \/ h[1] = b /\ h[2] = {s}
       \/ h[1] = s /\ h[2] = T
  /\ b = Spawner(Broadcaster)
  /\ IsOtherSpawner(s)
  /\ \A p \in T : Bystander(p)
  /\ \A p \in S : Plain(p)

\* The chain of such a file is kept, and move_group comes last in it.
LEMMA ChainOfTwo ==
  ASSUME NEW d, NEW S, NEW b, NEW s, NEW T,
         AsChainOfTwo(d, S, b, s, T)
  PROVE  Chained(d) /\ MoveGroupIsLast(d)
<1> USE DEF AsChainOfTwo
<1>1. /\ IsSpawner(b) /\ ~IsCreate(b) /\ ~b.respawn /\ b.arg = Broadcaster
      /\ IsSpawner(s) /\ ~IsCreate(s) /\ ~s.respawn /\ s.arg # Broadcaster
      /\ \A p \in S : ~IsSpawner(p) /\ ~IsCreate(p) /\ p.exec # "move_group"
      /\ \A p \in T : ~IsSpawner(p) /\ ~IsCreate(p)
  BY Roles DEF IsOtherSpawner, Plain, Bystander, IsSpawner, IsCreate
<1>2. \A p \in Everything(d) : p \in S \union {b, s} \union T
  <2> SUFFICES ASSUME NEW p \in Everything(d)
               PROVE  p \in S \union {b, s} \union T
    OBVIOUS
  <2>1. p \in d.start \/ \E h \in d.onExit : p \in h[2]
    BY DEF Everything
  <2> QED
    BY <2>1
<1>3. Chained(d)
  <2>1. TargetsStayDown(d)
    BY <1>1 DEF TargetsStayDown
  <2>2. \A p \in Everything(d) :
          /\ IsSpawner(p) \/ IsCreate(p) => ~p.respawn
          /\ IsSpawner(p) /\ p.arg = Broadcaster => p = b
    BY <1>1, <1>2
  <2>3. \A c \in d.start : ~IsCreate(c) /\ (IsSpawner(c) => c = b)
    BY <1>1
  <2>4. \A h \in d.onExit : \A p \in h[2] : IsSpawner(h[1])
    BY <1>1
  <2> QED
    BY <2>1, <2>2, <2>3, <2>4 DEF Chained
<1>4. MoveGroupIsLast(d)
  <2>1. ASSUME NEW L \in SUBSET Everything(d), StartedTogether(d, L),
               NEW p \in L, p.exec = "move_group"
        PROVE  b \in L /\ s \in L
    <3>1. p \in T
      BY <1>1, <1>2, <2>1 DEF IsSpawner
    <3>2. p \notin d.start
      BY <1>1, <2>1 DEF IsSpawner
    <3>3. PICK h \in d.onExit : p \in h[2] /\ h[1] \in L
      BY <2>1, <3>2 DEF StartedTogether
    <3>4. s \in L
      BY <1>1, <2>1, <3>3 DEF IsSpawner
    <3>5. PICK h0 \in d.onExit : s \in h0[2] /\ h0[1] \in L
                                   /\ h0[2] \subseteq L
      BY <1>1, <2>1, <3>4 DEF StartedTogether
    <3>6. b \in L
      BY <1>1, <3>5
    <3> QED
      BY <3>4, <3>6
  <2>2. \A p \in Everything(d) : IsSpawner(p) => p \in {b, s}
    BY <1>1, <1>2
  <2> QED
    BY <2>1, <2>2 DEF MoveGroupIsLast
<1> QED
  BY <1>3, <1>4

\* The same with one spawner more.
AsChainOfThree(d, S, b, s, t, T) ==
  /\ d.start = S \union {b}
  /\ \A h \in d.onExit :
       \/ h[1] = b /\ h[2] = {s}
       \/ h[1] = s /\ h[2] = {t}
       \/ h[1] = t /\ h[2] = T
  /\ b = Spawner(Broadcaster)
  /\ IsOtherSpawner(s)
  /\ IsOtherSpawner(t)
  /\ s # t
  /\ \A p \in T : Bystander(p)
  /\ \A p \in S : Plain(p)

\* The chain of such a file is kept, and move_group comes last in it.
LEMMA ChainOfThree ==
  ASSUME NEW d, NEW S, NEW b, NEW s, NEW t, NEW T,
         AsChainOfThree(d, S, b, s, t, T)
  PROVE  Chained(d) /\ MoveGroupIsLast(d)
<1> USE DEF AsChainOfThree
<1>1. /\ IsSpawner(b) /\ ~IsCreate(b) /\ ~b.respawn /\ b.arg = Broadcaster
      /\ IsSpawner(s) /\ ~IsCreate(s) /\ ~s.respawn /\ s.arg # Broadcaster
      /\ IsSpawner(t) /\ ~IsCreate(t) /\ ~t.respawn /\ t.arg # Broadcaster
      /\ \A p \in S : ~IsSpawner(p) /\ ~IsCreate(p) /\ p.exec # "move_group"
      /\ \A p \in T : ~IsSpawner(p) /\ ~IsCreate(p)
  BY Roles DEF IsOtherSpawner, Plain, Bystander, IsSpawner, IsCreate
<1>2. \A p \in Everything(d) : p \in S \union {b, s, t} \union T
  <2> SUFFICES ASSUME NEW p \in Everything(d)
               PROVE  p \in S \union {b, s, t} \union T
    OBVIOUS
  <2>1. p \in d.start \/ \E h \in d.onExit : p \in h[2]
    BY DEF Everything
  <2> QED
    BY <2>1
<1>3. Chained(d)
  <2>1. TargetsStayDown(d)
    BY <1>1 DEF TargetsStayDown
  <2>2. \A p \in Everything(d) :
          /\ IsSpawner(p) \/ IsCreate(p) => ~p.respawn
          /\ IsSpawner(p) /\ p.arg = Broadcaster => p = b
    BY <1>1, <1>2
  <2>3. \A c \in d.start : ~IsCreate(c) /\ (IsSpawner(c) => c = b)
    BY <1>1
  <2>4. \A h \in d.onExit : \A p \in h[2] : IsSpawner(h[1])
    BY <1>1
  <2> QED
    BY <2>1, <2>2, <2>3, <2>4 DEF Chained
<1>4. MoveGroupIsLast(d)
  <2>1. ASSUME NEW L \in SUBSET Everything(d), StartedTogether(d, L),
               NEW p \in L, p.exec = "move_group"
        PROVE  b \in L /\ s \in L /\ t \in L
    <3>1. p \in T
      BY <1>1, <1>2, <2>1 DEF IsSpawner
    <3>2. p \notin d.start
      BY <1>1, <2>1 DEF IsSpawner
    <3>3. PICK h \in d.onExit : p \in h[2] /\ h[1] \in L
      BY <2>1, <3>2 DEF StartedTogether
    <3>4. t \in L
      BY <1>1, <2>1, <3>3 DEF IsSpawner
    <3>5. PICK h1 \in d.onExit : t \in h1[2] /\ h1[1] \in L
                                   /\ h1[2] \subseteq L
      BY <1>1, <2>1, <3>4 DEF StartedTogether
    <3>6. s \in L
      BY <1>1, <3>5
    <3>7. PICK h0 \in d.onExit : s \in h0[2] /\ h0[1] \in L
                                   /\ h0[2] \subseteq L
      BY <1>1, <2>1, <3>6 DEF StartedTogether
    <3>8. b \in L
      BY <1>1, <3>7
    <3> QED
      BY <3>4, <3>6, <3>8
  <2>2. \A p \in Everything(d) : IsSpawner(p) => p \in {b, s, t}
    BY <1>1, <1>2
  <2> QED
    BY <2>1, <2>2 DEF MoveGroupIsLast
<1> QED
  BY <1>3, <1>4

\* The robot is created, then comes the broadcaster, then a set of spawners, and
\* upon the exit of one of them perhaps something that is no spawner.
AsCreateThen(d, S, b, k, Q, e, T) ==
  /\ e \in Q
  /\ d.start = S \union {k}
  /\ \A h \in d.onExit :
       \/ h[1] = k /\ h[2] = {b}
       \/ h[1] = b /\ h[2] = Q
       \/ h[1] = e /\ h[2] = T
  /\ b = Spawner(Broadcaster)
  /\ \A q \in Q : IsOtherSpawner(q)
  /\ IsCreate(k) /\ ~k.respawn
  /\ \A p \in T : Bystander(p)
  /\ \A p \in S : Plain(p)

\* The chain of such a file is kept, and move_group comes last in it.
LEMMA CreateThen ==
  ASSUME NEW d, NEW S, NEW b, NEW k, NEW Q, NEW e, NEW T,
         AsCreateThen(d, S, b, k, Q, e, T)
  PROVE  Chained(d) /\ MoveGroupIsLast(d)
<1> USE DEF AsCreateThen
<1>1. /\ IsSpawner(b) /\ ~IsCreate(b) /\ ~b.respawn /\ b.arg = Broadcaster
      /\ \A q \in Q : /\ IsSpawner(q) /\ ~IsCreate(q) /\ ~q.respawn
                      /\ q.arg # Broadcaster
      /\ ~IsSpawner(k) /\ k.exec # "move_group"
      /\ \A p \in S : ~IsSpawner(p) /\ ~IsCreate(p) /\ p.exec # "move_group"
      /\ \A p \in T : ~IsSpawner(p) /\ ~IsCreate(p)
  BY Roles DEF IsOtherSpawner, Plain, Bystander, IsSpawner, IsCreate
<1>2. \A p \in Everything(d) : p \in S \union {k, b} \union Q \union T
  <2> SUFFICES ASSUME NEW p \in Everything(d)
               PROVE  p \in S \union {k, b} \union Q \union T
    OBVIOUS
  <2>1. p \in d.start \/ \E h \in d.onExit : p \in h[2]
    BY DEF Everything
  <2> QED
    BY <2>1
<1>3. Chained(d)
  <2>1. TargetsStayDown(d)
    BY <1>1 DEF TargetsStayDown
  <2>2. \A p \in Everything(d) :
          /\ IsSpawner(p) \/ IsCreate(p) => ~p.respawn
          /\ IsSpawner(p) /\ p.arg = Broadcaster => p = b
    BY <1>1, <1>2
  <2>3. \A c \in d.start : ~IsSpawner(c) /\ (IsCreate(c) => c = k)
    BY <1>1
  <2>4. \A h \in d.onExit : \A p \in h[2] :
          IsSpawner(p) => (p = b /\ h[1] = k) \/ IsSpawner(h[1])
    BY <1>1
  <2> QED
    BY <2>1, <2>2, <2>3, <2>4 DEF Chained
<1>4. MoveGroupIsLast(d)
  <2>1. ASSUME NEW L \in SUBSET Everything(d), StartedTogether(d, L),
               NEW p \in L, p.exec = "move_group"
        PROVE  b \in L /\ Q \subseteq L
    <3>1. p \in T
      BY <1>1, <1>2, <2>1 DEF IsSpawner
    <3>2. p \notin d.start
      BY <1>1, <2>1 DEF IsSpawner
    <3>3. PICK h \in d.onExit : p \in h[2] /\ h[1] \in L
      BY <2>1, <3>2 DEF StartedTogether
    <3>4. e \in L
      BY <1>1, <2>1, <3>3 DEF IsSpawner
    <3>5. PICK h1 \in d.onExit : e \in h1[2] /\ h1[1] \in L
                                   /\ h1[2] \subseteq L
      BY <1>1, <2>1, <3>4 DEF StartedTogether
    <3>6. b \in L /\ Q \subseteq L
      BY <1>1, <3>5
    <3> QED
      BY <3>4, <3>6
  <2>2. \A p \in Everything(d) : IsSpawner(p) => p \in {b} \union Q
    BY <1>1, <1>2
  <2> QED
    BY <2>1, <2>2 DEF MoveGroupIsLast
<1> QED
  BY <1>3, <1>4

\* The robot is created, then come the broadcaster and two spawners, one after
\* the other, and perhaps something that is no spawner.
AsCreateThenTwo(d, S, b, s, t, k, T) ==
  /\ d.start = S \union {k}
  /\ \A h \in d.onExit :
       \/ h[1] = k /\ h[2] = {b}
       \/ h[1] = b /\ h[2] = {s}
       \/ h[1] = s /\ h[2] = {t}
       \/ h[1] = t /\ h[2] = T
  /\ b = Spawner(Broadcaster)
  /\ IsOtherSpawner(s)
  /\ IsOtherSpawner(t)
  /\ s # t
  /\ IsCreate(k) /\ ~k.respawn
  /\ \A p \in T : Bystander(p)
  /\ \A p \in S : Plain(p)

\* The chain of such a file is kept, and move_group comes last in it.
LEMMA CreateThenTwo ==
  ASSUME NEW d, NEW S, NEW b, NEW s, NEW t, NEW k, NEW T,
         AsCreateThenTwo(d, S, b, s, t, k, T)
  PROVE  Chained(d) /\ MoveGroupIsLast(d)
<1> USE DEF AsCreateThenTwo
<1>1. /\ IsSpawner(b) /\ ~IsCreate(b) /\ ~b.respawn /\ b.arg = Broadcaster
      /\ IsSpawner(s) /\ ~IsCreate(s) /\ ~s.respawn /\ s.arg # Broadcaster
      /\ IsSpawner(t) /\ ~IsCreate(t) /\ ~t.respawn /\ t.arg # Broadcaster
      /\ ~IsSpawner(k) /\ k.exec # "move_group"
      /\ \A p \in S : ~IsSpawner(p) /\ ~IsCreate(p) /\ p.exec # "move_group"
      /\ \A p \in T : ~IsSpawner(p) /\ ~IsCreate(p)
  BY Roles DEF IsOtherSpawner, Plain, Bystander, IsSpawner, IsCreate
<1>2. \A p \in Everything(d) : p \in S \union {k, b, s, t} \union T
  <2> SUFFICES ASSUME NEW p \in Everything(d)
               PROVE  p \in S \union {k, b, s, t} \union T
    OBVIOUS
  <2>1. p \in d.start \/ \E h \in d.onExit : p \in h[2]
    BY DEF Everything
  <2> QED
    BY <2>1
<1>3. Chained(d)
  <2>1. TargetsStayDown(d)
    BY <1>1 DEF TargetsStayDown
  <2>2. \A p \in Everything(d) :
          /\ IsSpawner(p) \/ IsCreate(p) => ~p.respawn
          /\ IsSpawner(p) /\ p.arg = Broadcaster => p = b
    BY <1>1, <1>2
  <2>3. \A c \in d.start : ~IsSpawner(c) /\ (IsCreate(c) => c = k)
    BY <1>1
  <2>4. \A h \in d.onExit : \A p \in h[2] :
          IsSpawner(p) => (p = b /\ h[1] = k) \/ IsSpawner(h[1])
    BY <1>1
  <2> QED
    BY <2>1, <2>2, <2>3, <2>4 DEF Chained
<1>4. MoveGroupIsLast(d)
  <2>1. ASSUME NEW L \in SUBSET Everything(d), StartedTogether(d, L),
               NEW p \in L, p.exec = "move_group"
        PROVE  b \in L /\ s \in L /\ t \in L
    <3>1. p \in T
      BY <1>1, <1>2, <2>1 DEF IsSpawner
    <3>2. p \notin d.start
      BY <1>1, <2>1 DEF IsSpawner
    <3>3. PICK h \in d.onExit : p \in h[2] /\ h[1] \in L
      BY <2>1, <3>2 DEF StartedTogether
    <3>4. t \in L
      BY <1>1, <2>1, <3>3 DEF IsSpawner
    <3>5. PICK h2 \in d.onExit : t \in h2[2] /\ h2[1] \in L
                                   /\ h2[2] \subseteq L
      BY <1>1, <2>1, <3>4 DEF StartedTogether
    <3>6. s \in L
      BY <1>1, <3>5
    <3>7. PICK h1 \in d.onExit : s \in h1[2] /\ h1[1] \in L
                                   /\ h1[2] \subseteq L
      BY <1>1, <2>1, <3>6 DEF StartedTogether
    <3>8. b \in L
      BY <1>1, <3>7
    <3> QED
      BY <3>4, <3>6, <3>8
  <2>2. \A p \in Everything(d) : IsSpawner(p) => p \in {b, s, t}
    BY <1>1, <1>2
  <2> QED
    BY <2>1, <2>2 DEF MoveGroupIsLast
<1> QED
  BY <1>3, <1>4

-----------------------------------------------------------------------------
(* The files.                                                              *)

\* The two ways in which a file finds the protocol file agree.
LEMMA ProtocolFilesAgree ==
  ASSUME NEW a
  PROVE  SystemProtocolFile(a) = MoveitProtocolFile(a)
BY DEF SystemProtocolFile, MoveitProtocolFile

\* The controllers of two hands, and of arm and hand.
LEMMA PairsOfControllers ==
  /\ DualControllers = {Broadcaster, Trajectory("left"), Trajectory("right")}
  /\ Rm65Controllers = {Broadcaster, Trajectory("arm"), Trajectory("hand")}
  /\ \A c, e \in DualControllers : ~Conflict(c, e)
  /\ \A c, e \in Rm65Controllers : ~Conflict(c, e)
  /\ Spawner(Trajectory("left")) # Spawner(Trajectory("right"))
  /\ Spawner(Trajectory("arm")) # Spawner(Trajectory("hand"))
<1>1. Spawner(Trajectory("left")).arg # Spawner(Trajectory("right")).arg
      /\ Spawner(Trajectory("arm")).arg # Spawner(Trajectory("hand")).arg
  BY DEF Spawner, Process, Trajectory
<1> QED
  BY <1>1, NoConflicts DEF DualControllers, Rm65Controllers

\* A spawner of a trajectory controller is not the one of the broadcaster.
LEMMA TrajectorySpawner ==
  ASSUME NEW h
  PROVE  IsOtherSpawner(Spawner(Trajectory(h)))
BY NoConflicts DEF IsOtherSpawner

\* revo2_system: the position controller is left inactive.
LEMMA Revo2SystemFile ==
  ASSUME NEW a
  PROVE  Consistent(Revo2System(a))
<1> DEFINE robot == Robot("brainco_hand_driver", a.hand,
                          {SystemProtocolFile(a)})
           C == DriverControllers(a.hand)
           A == HandControllers(a.hand)
           m == ControlNode(robot, C)
           S == {m, Publisher(robot), Spawner(Broadcaster),
                 InactiveSpawner(Position(a.hand)), Spawner(Trajectory(a.hand))}
           d == Revo2System(a)
<1>1. d.start = S
  BY DEF Revo2System, Description
<1>2. d.onExit = {}
  BY DEF Revo2System, Description
<1>3. \A p \in S : Member(p, robot, C, A)
  BY Members, PairsOfControllers DEF HandControllers, DriverControllers
<1>4. m \in d.start /\ Manages(m, C)
  BY <1>1, Managers
<1>5. \A c, f \in A : ~Conflict(c, f)
  BY NoConflicts DEF HandControllers
<1> HIDE DEF robot, C, A, m, S, d
<1>6. \A h \in d.onExit : \A p \in h[2] : Member(p, robot, C, A)
  BY <1>2
<1>7. \A p \in d.start : Member(p, robot, C, A)
  BY <1>1, <1>3
<1>8. OneRobot(d) /\ HasManager(d) /\ OneSource(d) /\ NoRivals(d)
  BY <1>4, <1>5, <1>6, <1>7, MembersAgree
<1>9. d.onExit = {} /\ MoveGroupIsLast(d)
  BY <1>2, Flat
<1>10. Consistent(d)
  BY <1>8, <1>9 DEF Consistent
<1> QED
  BY <1>10 DEF d

\* ethercat_system.
LEMMA EthercatSystemFile ==
  ASSUME NEW a
  PROVE  Consistent(EthercatSystem(a))
<1> DEFINE robot == Robot("brainco_hand_ethercat_driver", a.hand,
                          {<<a.duration>>})
           C == HandControllers(a.hand)
           m == ControlNode(robot, C)
           S == {m, Publisher(robot), Spawner(Broadcaster),
                 Spawner(Trajectory(a.hand))}
           d == EthercatSystem(a)
<1>1. d.start = S
  BY DEF EthercatSystem, Description
<1>2. d.onExit = {}
  BY DEF EthercatSystem, Description
<1>3. \A p \in S : Member(p, robot, C, C)
  BY Members DEF HandControllers
<1>4. m \in d.start /\ Manages(m, C)
  BY <1>1, Managers
<1>5. \A c, f \in C : ~Conflict(c, f)
  BY NoConflicts DEF HandControllers
<1> HIDE DEF robot, C, m, S, d
<1>6. \A h \in d.onExit : \A p \in h[2] : Member(p, robot, C, C)
  BY <1>2
<1>7. \A p \in d.start : Member(p, robot, C, C)
  BY <1>1, <1>3
<1>8. OneRobot(d) /\ HasManager(d) /\ OneSource(d) /\ NoRivals(d)
  BY <1>4, <1>5, <1>6, <1>7, MembersAgree
<1>9. d.onExit = {} /\ MoveGroupIsLast(d)
  BY <1>2, Flat
<1>10. Consistent(d)
  BY <1>8, <1>9 DEF Consistent
<1> QED
  BY <1>10 DEF d

\* revo2_real_moveit, where the protocol file is looked up again for MoveIt.
LEMMA RealMoveitFile ==
  ASSUME NEW a
  PROVE  Consistent(RealMoveit(a))
<1> DEFINE robot == Robot("brainco_hand_driver", a.hand,
                          {SystemProtocolFile(a)})
           C == HandControllers(a.hand)
           b == Spawner(Broadcaster)
           s == Spawner(Trajectory(a.hand))
           m == ControlNode(robot, C)
           S == {Publisher(robot), m} \union StaticTfs("right")
           T == RealMoveitNodes(a)
           d == RealMoveit(a)
<1>1. d.start = S \union {b}
  BY DEF RealMoveit, Description
<1>2. \A h \in d.onExit :
        \/ h[1] = b /\ h[2] = {s}
        \/ h[1] = s /\ h[2] = T
  BY DEF RealMoveit, Description
<1>3. \A p \in S : Plain(p)
  BY Roles, Bystanders
<1>4. \A p \in T : Bystander(p)
  BY Bystanders DEF RealMoveitNodes
<1>5. /\ b = Spawner(Broadcaster)
      /\ IsOtherSpawner(s)
  BY TrajectorySpawner
<1>6. \A p \in S \union {b} : Member(p, robot, C, C)
  <2>1. \A p \in StaticTfs("right") : Member(p, robot, C, C)
    BY MemberSets
  <2>2. Member(Publisher(robot), robot, C, C)
        /\ Member(m, robot, C, C) /\ Member(b, robot, C, C)
    BY Members DEF HandControllers
  <2> HIDE DEF robot, C, b, m
  <2> QED
    BY <2>1, <2>2
<1>7. \A p \in {s} \union T : Member(p, robot, C, C)
  BY Members, MemberSets, ProtocolFilesAgree
     DEF HandControllers, RealMoveitNodes
<1>8. m \in d.start /\ Manages(m, C)
  BY <1>1, Managers
<1>9. \A c, f \in C : ~Conflict(c, f)
  BY NoConflicts DEF HandControllers
<1> HIDE DEF robot, C, b, s, m, S, T, d
<1>10. \A h \in d.onExit : \A p \in h[2] : Member(p, robot, C, C)
  BY <1>2, <1>7
<1>11. \A p \in d.start : Member(p, robot, C, C)
  BY <1>1, <1>6
<1>12. OneRobot(d) /\ HasManager(d) /\ OneSource(d) /\ NoRivals(d)
  BY <1>8, <1>9, <1>10, <1>11, MembersAgree
<1>13. AsChainOfTwo(d, S, b, s, T)
  BY <1>1, <1>2, <1>3, <1>4, <1>5 DEF AsChainOfTwo
<1>14. Consistent(d)
  BY <1>12, <1>13, ChainOfTwo DEF Consistent
<1> QED
  BY <1>14 DEF d

\* revo2_ethercat_real_moveit, where the trajectory duration is read again.
LEMMA EthercatMoveitFile ==
  ASSUME NEW a
  PROVE  Consistent(EthercatMoveit(a))
<1> DEFINE robot == Robot("brainco_hand_ethercat_driver", a.hand,
                          {<<a.duration>>})
           C == HandControllers(a.hand)
           b == Spawner(Broadcaster)
           s == Spawner(Trajectory(a.hand))
           m == ControlNode(robot, C)
           S == {Publisher(robot), m} \union StaticTfs("right")
           T == EthercatMoveitNodes(a)
           d == EthercatMoveit(a)
<1>1. d.start = S \union {b}
  BY DEF EthercatMoveit, Description
<1>2. \A h \in d.onExit :
        \/ h[1] = b /\ h[2] = {s}
        \/ h[1] = s /\ h[2] = T
  BY DEF EthercatMoveit, Description
<1>3. \A p \in S : Plain(p)
  BY Roles, Bystanders
<1>4. \A p \in T : Bystander(p)
  BY Bystanders DEF EthercatMoveitNodes
<1>5. /\ b = Spawner(Broadcaster)
      /\ IsOtherSpawner(s)
  BY TrajectorySpawner
<1>6. \A p \in S \union {b} : Member(p, robot, C, C)
  <2>1. \A p \in StaticTfs("right") : Member(p, robot, C, C)
    BY MemberSets
  <2>2. Member(Publisher(robot), robot, C, C)
        /\ Member(m, robot, C, C) /\ Member(b, robot, C, C)
    BY Members DEF HandControllers
  <2> HIDE DEF robot, C, b, m
  <2> QED
    BY <2>1, <2>2
<1>7. \A p \in {s} \union T : Member(p, robot, C, C)
  BY Members, MemberSets DEF HandControllers, EthercatMoveitNodes
<1>8. m \in d.start /\ Manages(m, C)
  BY <1>1, Managers
<1>9. \A c, f \in C : ~Conflict(c, f)
  BY NoConflicts DEF HandControllers
<1> HIDE DEF robot, C, b, s, m, S, T, d
<1>10. \A h \in d.onExit : \A p \in h[2] : Member(p, robot, C, C)
  BY <1>2, <1>7
<1>11. \A p \in d.start : Member(p, robot, C, C)
  BY <1>1, <1>6
<1>12. OneRobot(d) /\ HasManager(d) /\ OneSource(d) /\ NoRivals(d)
  BY <1>8, <1>9, <1>10, <1>11, MembersAgree
<1>13. AsChainOfTwo(d, S, b, s, T)
  BY <1>1, <1>2, <1>3, <1>4, <1>5 DEF AsChainOfTwo
<1>14. Consistent(d)
  BY <1>12, <1>13, ChainOfTwo DEF Consistent
<1> QED
  BY <1>14 DEF d

\* dual_revo2_system.
LEMMA DualSystemFile ==
  ASSUME NEW a
  PROVE  Consistent(DualSystem(a))
<1> DEFINE robot == Robot("brainco_hand_driver", "dual",
                      {DualFile(a.left, ProtocolFile("modbus", "left")),
                       DualFile(a.right, ProtocolFile("modbus", "right")),
                       DualFile(a.positions, <<"initial_positions">>)})
           C == DualControllers
           b == Spawner(Broadcaster)
           Q == DualSpawners
           m == ControlNode(robot, C)
           S == {m, Publisher(robot)}
           d == DualSystem(a)
<1>1. d.start = S \union {b}
  BY DEF DualSystem, Description
<1>2. \A h \in d.onExit : h[1] = b /\ h[2] = Q
  BY DEF DualSystem, DualSpawners, Description
<1>3. \A p \in S : Plain(p)
  BY Roles
<1>4. /\ b = Spawner(Broadcaster)
      /\ \A q \in Q : IsOtherSpawner(q)
  BY TrajectorySpawner DEF DualSpawners
<1>5. \A p \in S \union {b} : Member(p, robot, C, C)
  <2>1. Member(Publisher(robot), robot, C, C)
        /\ Member(m, robot, C, C) /\ Member(b, robot, C, C)
    BY Members, PairsOfControllers
  <2> HIDE DEF robot, C, b, m
  <2> QED
    BY <2>1
<1>6. \A p \in Q : Member(p, robot, C, C)
  BY Members, PairsOfControllers DEF DualSpawners
<1>7. m \in d.start /\ Manages(m, C)
  BY <1>1, Managers
<1>8. \A c, f \in C : ~Conflict(c, f)
  BY PairsOfControllers
<1> HIDE DEF robot, C, b, Q, m, S, d
<1>9. \A h \in d.onExit : \A p \in h[2] : Member(p, robot, C, C)
  BY <1>2, <1>6
<1>10. \A p \in d.start : Member(p, robot, C, C)
  BY <1>1, <1>5
<1>11. OneRobot(d) /\ HasManager(d) /\ OneSource(d) /\ NoRivals(d)
  BY <1>7, <1>8, <1>9, <1>10, MembersAgree
<1>12. AsBroadcasterThen(d, S, b, Q)
  BY <1>1, <1>2, <1>3, <1>4 DEF AsBroadcasterThen
<1>13. Consistent(d)
  BY <1>11, <1>12, BroadcasterThen DEF Consistent
<1> QED
  BY <1>13 DEF d

\* dual_revo2_real_moveit.
LEMMA DualRealMoveitFile ==
  ASSUME NEW a
  PROVE  Consistent(DualRealMoveit(a))
<1> DEFINE robot == DualMoveitRobot(a)
           C == DualControllers
           b == Spawner(Broadcaster)
           s == Spawner(Trajectory("left"))
           t == Spawner(Trajectory("right"))
           m == ControlNode(robot, C)
           S == {Publisher(robot), m} \union StaticTfs("dual")
           T == DualMoveitNodes(a)
           d == DualRealMoveit(a)
<1>1. d.start = S \union {b}
  BY DEF DualRealMoveit, Description
<1>2. \A h \in d.onExit :
        \/ h[1] = b /\ h[2] = {s}
        \/ h[1] = s /\ h[2] = {t}
        \/ h[1] = t /\ h[2] = T
  BY DEF DualRealMoveit, Description
<1>3. \A p \in S : Plain(p)
  BY Roles, Bystanders
<1>4. \A p \in T : Bystander(p)
  BY Bystanders DEF DualMoveitNodes
<1>5. /\ b = Spawner(Broadcaster)
      /\ IsOtherSpawner(s)
      /\ IsOtherSpawner(t)
      /\ s # t
  BY TrajectorySpawner, PairsOfControllers
<1>6. \A p \in S \union {b} : Member(p, robot, C, C)
  <2>1. \A p \in StaticTfs("dual") : Member(p, robot, C, C)
    BY MemberSets
  <2>2. Member(Publisher(robot), robot, C, C)
        /\ Member(m, robot, C, C) /\ Member(b, robot, C, C)
    BY Members, PairsOfControllers
  <2> HIDE DEF robot, C, b, m
  <2> QED
    BY <2>1, <2>2
<1>7. \A p \in {s, t} \union T : Member(p, robot, C, C)
  BY Members, MemberSets, PairsOfControllers DEF DualMoveitNodes
<1>8. m \in d.start /\ Manages(m, C)
  BY <1>1, Managers
<1>9. \A c, f \in C : ~Conflict(c, f)
  BY PairsOfControllers
<1> HIDE DEF robot, C, b, s, t, m, S, T, d
<1>10. \A h \in d.onExit : \A p \in h[2] : Member(p, robot, C, C)
  BY <1>2, <1>7
<1>11. \A p \in d.start : Member(p, robot, C, C)
  BY <1>1, <1>6
<1>12. OneRobot(d) /\ HasManager(d) /\ OneSource(d) /\ NoRivals(d)
  BY <1>8, <1>9, <1>10, <1>11, MembersAgree
<1>13. AsChainOfThree(d, S, b, s, t, T)
  BY <1>1, <1>2, <1>3, <1>4, <1>5 DEF AsChainOfThree
<1>14. Consistent(d)
  BY <1>12, <1>13, ChainOfThree DEF Consistent
<1> QED
  BY <1>14 DEF d

\* revo2_hand_gazebo.
LEMMA HandGazeboFile ==
  ASSUME NEW a
  PROVE  Consistent(HandGazebo(a))
<1> DEFINE robot == Robot("brainco_gazebo", a.hand, {})
           C == HandControllers(a.hand)
           b == Spawner(Broadcaster)
           k == Create(robot, C)
           e == Spawner(Trajectory(a.hand))
           Q == {e}
           S == Gazebo \union {Publisher(robot)}
                  \union If(a.rviz, {Rviz(NoRobot)})
           T == {}
           d == HandGazebo(a)
<1>1. d.start = S \union {k}
  BY DEF HandGazebo, Description
<1>2. \A h \in d.onExit :
        \/ h[1] = k /\ h[2] = {b}
        \/ h[1] = b /\ h[2] = Q
        \/ h[1] = e /\ h[2] = T
  BY DEF HandGazebo, Description
<1>3. \A p \in S : Plain(p)
  BY Roles, Bystanders DEF If
<1>4. \A p \in T : Bystander(p)
  OBVIOUS
<1>5. /\ b = Spawner(Broadcaster)
      /\ \A q \in Q : IsOtherSpawner(q)
      /\ e \in Q
      /\ IsCreate(k)
      /\ ~k.respawn
  BY TrajectorySpawner, Roles
<1>6. \A p \in S \union {k} : Member(p, robot, C, C)
  <2>1. \A p \in Gazebo : Member(p, robot, C, C)
    BY MemberSets
  <2>2. Member(Publisher(robot), robot, C, C)
        /\ Member(k, robot, C, C)
    BY Members
  <2>3. Member(Rviz(NoRobot), robot, C, C)
    BY Members
  <2> HIDE DEF robot, C, b, k
  <2> QED
    BY <2>1, <2>2, <2>3 DEF If
<1>7. \A p \in {b} \union Q \union T : Member(p, robot, C, C)
  BY Members DEF HandControllers
<1>8. k \in d.start /\ Manages(k, C)
  BY <1>1, Managers
<1>9. \A c, f \in C : ~Conflict(c, f)
  BY NoConflicts DEF HandControllers
<1> HIDE DEF robot, C, b, k, e, Q, S, T, d
<1>10. \A h \in d.onExit : \A p \in h[2] : Member(p, robot, C, C)
  BY <1>2, <1>7
<1>11. \A p \in d.start : Member(p, robot, C, C)
  BY <1>1, <1>6
<1>12. OneRobot(d) /\ HasManager(d) /\ OneSource(d) /\ NoRivals(d)
  BY <1>8, <1>9, <1>10, <1>11, MembersAgree
<1>13. AsCreateThen(d, S, b, k, Q, e, T)
  BY <1>1, <1>2, <1>3, <1>4, <1>5 DEF AsCreateThen
<1>14. Consistent(d)
  BY <1>12, <1>13, CreateThen DEF Consistent
<1> QED
  BY <1>14 DEF d

\* revo2_hand_gazebo_moveit.
LEMMA HandGazeboMoveitFile ==
  ASSUME NEW a
  PROVE  Consistent(HandGazeboMoveit(a))
<1> DEFINE robot == Robot("brainco_gazebo", a.hand, {})
           C == HandControllers(a.hand)
           b == Spawner(Broadcaster)
           k == Create(robot, C)
           e == Spawner(Trajectory(a.hand))
           Q == {e}
           S == Gazebo \union {Publisher(robot)} \union StaticTfs("right")
           T == HandGazeboMoveitNodes(a)
           d == HandGazeboMoveit(a)
<1>1. d.start = S \union {k}
  BY DEF HandGazeboMoveit, Description
<1>2. \A h \in d.onExit :
        \/ h[1] = k /\ h[2] = {b}
        \/ h[1] = b /\ h[2] = Q
        \/ h[1] = e /\ h[2] = T
  BY DEF HandGazeboMoveit, Description
<1>3. \A p \in S : Plain(p)
  BY Roles, Bystanders
<1>4. \A p \in T : Bystander(p)
  BY Bystanders DEF HandGazeboMoveitNodes
<1>5. /\ b = Spawner(Broadcaster)
      /\ \A q \in Q : IsOtherSpawner(q)
      /\ e \in Q
      /\ IsCreate(k)
      /\ ~k.respawn
  BY TrajectorySpawner, Roles
<1>6. \A p \in S \union {k} : Member(p, robot, C, C)
  <2>1. \A p \in Gazebo : Member(p, robot, C, C)
    BY MemberSets
  <2>2. \A p \in StaticTfs("right") : Member(p, robot, C, C)
    BY MemberSets
  <2>3. Member(Publisher(robot), robot, C, C)
        /\ Member(k, robot, C, C)
    BY Members
  <2> HIDE DEF robot, C, b, k
  <2> QED
    BY <2>1, <2>2, <2>3
<1>7. \A p \in {b} \union Q \union T : Member(p, robot, C, C)
  BY Members, MemberSets DEF HandControllers, HandGazeboMoveitNodes
<1>8. k \in d.start /\ Manages(k, C)
  BY <1>1, Managers
<1>9. \A c, f \in C : ~Conflict(c, f)
  BY NoConflicts DEF HandControllers
<1> HIDE DEF robot, C, b, k, e, Q, S, T, d
<1>10. \A h \in d.onExit : \A p \in h[2] : Member(p, robot, C, C)
  BY <1>2, <1>7
<1>11. \A p \in d.start : Member(p, robot, C, C)
  BY <1>1, <1>6
<1>12. OneRobot(d) /\ HasManager(d) /\ OneSource(d) /\ NoRivals(d)
  BY <1>8, <1>9, <1>10, <1>11, MembersAgree
<1>13. AsCreateThen(d, S, b, k, Q, e, T)
  BY <1>1, <1>2, <1>3, <1>4, <1>5 DEF AsCreateThen
<1>14. Consistent(d)
  BY <1>12, <1>13, CreateThen DEF Consistent
<1> QED
  BY <1>14 DEF d

\* dual_revo2_hand_gazebo.
LEMMA DualGazeboFile ==
  ASSUME NEW a
  PROVE  Consistent(DualGazebo(a))
<1> DEFINE robot == DualGazeboRobot
           C == DualControllers
           b == Spawner(Broadcaster)
           k == Create(robot, C)
           e == Spawner(Trajectory("right"))
           Q == DualSpawners
           S == Gazebo \union {Publisher(robot)}
                  \union If(a.rviz, {Rviz(NoRobot)})
           T == {}
           d == DualGazebo(a)
<1>1. d.start = S \union {k}
  BY DEF DualGazebo, Description
<1>2. \A h \in d.onExit :
        \/ h[1] = k /\ h[2] = {b}
        \/ h[1] = b /\ h[2] = Q
        \/ h[1] = e /\ h[2] = T
  BY DEF DualGazebo, Description
<1>3. \A p \in S : Plain(p)
  BY Roles, Bystanders DEF If
<1>4. \A p \in T : Bystander(p)
  OBVIOUS
<1>5. /\ b = Spawner(Broadcaster)
      /\ \A q \in Q : IsOtherSpawner(q)
      /\ e \in Q
      /\ IsCreate(k)
      /\ ~k.respawn
  BY TrajectorySpawner, Roles DEF DualSpawners
<1>6. \A p \in S \union {k} : Member(p, robot, C, C)
  <2>1. \A p \in Gazebo : Member(p, robot, C, C)
    BY MemberSets
  <2>2. Member(Publisher(robot), robot, C, C)
        /\ Member(k, robot, C, C)
    BY Members
  <2>3. Member(Rviz(NoRobot), robot, C, C)
    BY Members
  <2> HIDE DEF robot, C, b, k
  <2> QED
    BY <2>1, <2>2, <2>3 DEF If
<1>7. \A p \in {b} \union Q \union T : Member(p, robot, C, C)
  BY Members, PairsOfControllers DEF DualSpawners
<1>8. k \in d.start /\ Manages(k, C)
  BY <1>1, Managers
<1>9. \A c, f \in C : ~Conflict(c, f)
  BY PairsOfControllers
<1> HIDE DEF robot, C, b, k, e, Q, S, T, d
<1>10. \A h \in d.onExit : \A p \in h[2] : Member(p, robot, C, C)
  BY <1>2, <1>7
<1>11. \A p \in d.start : Member(p, robot, C, C)
  BY <1>1, <1>6
<1>12. OneRobot(d) /\ HasManager(d) /\ OneSource(d) /\ NoRivals(d)
  BY <1>8, <1>9, <1>10, <1>11, MembersAgree
<1>13. AsCreateThen(d, S, b, k, Q, e, T)
  BY <1>1, <1>2, <1>3, <1>4, <1>5 DEF AsCreateThen
<1>14. Consistent(d)
  BY <1>12, <1>13, CreateThen DEF Consistent
<1> QED
  BY <1>14 DEF d

\* dual_revo2_hand_gazebo_moveit.
LEMMA DualGazeboMoveitFile ==
  ASSUME NEW a
  PROVE  Consistent(DualGazeboMoveit(a))
<1> DEFINE robot == DualGazeboRobot
           C == DualControllers
           b == Spawner(Broadcaster)
           k == Create(robot, C)
           e == Spawner(Trajectory("right"))
           Q == DualSpawners
           S == Gazebo \union {Publisher(robot)} \union StaticTfs("dual")
                 \union If(a.rviz, {Rviz(robot)})
           T == {MoveGroup(robot, MoveitControllers("dual"))}
           d == DualGazeboMoveit(a)
<1>1. d.start = S \union {k}
  BY DEF DualGazeboMoveit, Description
<1>2. \A h \in d.onExit :
        \/ h[1] = k /\ h[2] = {b}
        \/ h[1] = b /\ h[2] = Q
        \/ h[1] = e /\ h[2] = T
  BY DEF DualGazeboMoveit, Description
<1>3. \A p \in S : Plain(p)
  BY Roles, Bystanders DEF If
<1>4. \A p \in T : Bystander(p)
  BY Roles
<1>5. /\ b = Spawner(Broadcaster)
      /\ \A q \in Q : IsOtherSpawner(q)
      /\ e \in Q
      /\ IsCreate(k)
      /\ ~k.respawn
  BY TrajectorySpawner, Roles DEF DualSpawners
<1>6. \A p \in S \union {k} : Member(p, robot, C, C)
  <2>1. \A p \in Gazebo : Member(p, robot, C, C)
    BY MemberSets
  <2>2. \A p \in StaticTfs("dual") : Member(p, robot, C, C)
    BY MemberSets
  <2>3. Member(Publisher(robot), robot, C, C)
        /\ Member(k, robot, C, C)
    BY Members
  <2>4. Member(Rviz(robot), robot, C, C)
    BY Members
  <2> HIDE DEF robot, C, b, k
  <2> QED
    BY <2>1, <2>2, <2>3, <2>4 DEF If
<1>7. \A p \in {b} \union Q \union T : Member(p, robot, C, C)
  BY Members, PairsOfControllers DEF DualSpawners
<1>8. k \in d.start /\ Manages(k, C)
  BY <1>1, Managers
<1>9. \A c, f \in C : ~Conflict(c, f)
  BY PairsOfControllers
<1> HIDE DEF robot, C, b, k, e, Q, S, T, d
<1>10. \A h \in d.onExit : \A p \in h[2] : Member(p, robot, C, C)
  BY <1>2, <1>7
<1>11. \A p \in d.start : Member(p, robot, C, C)
  BY <1>1, <1>6
<1>12. OneRobot(d) /\ HasManager(d) /\ OneSource(d) /\ NoRivals(d)
  BY <1>8, <1>9, <1>10, <1>11, MembersAgree
<1>13. AsCreateThen(d, S, b, k, Q, e, T)
  BY <1>1, <1>2, <1>3, <1>4, <1>5 DEF AsCreateThen
<1>14. Consistent(d)
  BY <1>12, <1>13, CreateThen DEF Consistent
<1> QED
  BY <1>14 DEF d

\* gazebo_rm_65_6f_with_revo2.
LEMMA Rm65GazeboFile ==
  ASSUME NEW a
  PROVE  Consistent(Rm65Gazebo(a))
<1> DEFINE robot == Rm65GazeboRobot
           C == Rm65Controllers
           b == Spawner(Broadcaster)
           k == Create(robot, C)
           s == ArmSpawner
           t == HandSpawner
           S == Gazebo \union {Publisher(robot)}
                  \union If(a.rviz, {Rviz(NoRobot)})
           T == {}
           d == Rm65Gazebo(a)
<1>1. d.start = S \union {k}
  BY DEF Rm65Gazebo, Description
<1>2. \A h \in d.onExit :
        \/ h[1] = k /\ h[2] = {b}
        \/ h[1] = b /\ h[2] = {s}
        \/ h[1] = s /\ h[2] = {t}
        \/ h[1] = t /\ h[2] = T
  BY DEF Rm65Gazebo, Description
<1>3. \A p \in S : Plain(p)
  BY Roles, Bystanders DEF If
<1>4. \A p \in T : Bystander(p)
  OBVIOUS
<1>5. /\ b = Spawner(Broadcaster)
      /\ IsOtherSpawner(s)
      /\ IsOtherSpawner(t)
      /\ s # t
      /\ IsCreate(k)
      /\ ~k.respawn
  BY TrajectorySpawner, PairsOfControllers, Roles DEF ArmSpawner, HandSpawner
<1>6. \A p \in S \union {k} : Member(p, robot, C, C)
  <2>1. \A p \in Gazebo : Member(p, robot, C, C)
    BY MemberSets
  <2>2. Member(Publisher(robot), robot, C, C)
        /\ Member(k, robot, C, C)
    BY Members
  <2>3. Member(Rviz(NoRobot), robot, C, C)
    BY Members
  <2> HIDE DEF robot, C, b, k
  <2> QED
    BY <2>1, <2>2, <2>3 DEF If
<1>7. \A p \in {b, s, t} \union T : Member(p, robot, C, C)
  BY Members, PairsOfControllers DEF ArmSpawner, HandSpawner
<1>8. k \in d.start /\ Manages(k, C)
  BY <1>1, Managers
<1>9. \A c, f \in C : ~Conflict(c, f)
  BY PairsOfControllers
<1> HIDE DEF robot, C, b, k, s, t, S, T, d
<1>10. \A h \in d.onExit : \A p \in h[2] : Member(p, robot, C, C)
  BY <1>2, <1>7
<1>11. \A p \in d.start : Member(p, robot, C, C)
  BY <1>1, <1>6
<1>12. OneRobot(d) /\ HasManager(d) /\ OneSource(d) /\ NoRivals(d)
  BY <1>8, <1>9, <1>10, <1>11, MembersAgree
<1>13. AsCreateThenTwo(d, S, b, s, t, k, T)
  BY <1>1, <1>2, <1>3, <1>4, <1>5 DEF AsCreateThenTwo
<1>14. Consistent(d)
  BY <1>12, <1>13, CreateThenTwo DEF Consistent
<1> QED
  BY <1>14 DEF d

\* gazebo_rm65_with_revo2_moveit.
LEMMA Rm65GazeboMoveitFile ==
  ASSUME NEW a
  PROVE  Consistent(Rm65GazeboMoveit(a))
<1> DEFINE robot == Rm65GazeboRobot
           C == Rm65Controllers
           b == Spawner(Broadcaster)
           k == Create(robot, C)
           s == ArmSpawner
           t == HandSpawner
           S == Gazebo \union {Publisher(robot)} \union StaticTfs("rm65")
                 \union If(a.rviz, {Rviz(robot)})
           T == {MoveGroup(robot, MoveitControllers("rm65"))}
           d == Rm65GazeboMoveit(a)
<1>1. d.start = S \union {k}
  BY DEF Rm65GazeboMoveit, Description
<1>2. \A h \in d.onExit :
        \/ h[1] = k /\ h[2] = {b}
        \/ h[1] = b /\ h[2] = {s}
        \/ h[1] = s /\ h[2] = {t}
        \/ h[1] = t /\ h[2] = T
  BY DEF Rm65GazeboMoveit, Description
<1>3. \A p \in S : Plain(p)
  BY Roles, Bystanders DEF If
<1>4. \A p \in T : Bystander(p)
  BY Roles
<1>5. /\ b = Spawner(Broadcaster)
      /\ IsOtherSpawner(s)
      /\ IsOtherSpawner(t)
      /\ s # t
      /\ IsCreate(k)
      /\ ~k.respawn
  BY TrajectorySpawner, PairsOfControllers, Roles DEF ArmSpawner, HandSpawner
<1>6. \A p \in S \union {k} : Member(p, robot, C, C)
  <2>1. \A p \in Gazebo : Member(p, robot, C, C)
    BY MemberSets
  <2>2. \A p \in StaticTfs("rm65") : Member(p, robot, C, C)
    BY MemberSets
  <2>3. Member(Publisher(robot), robot, C, C)
        /\ Member(k, robot, C, C)
    BY Members
  <2>4. Member(Rviz(robot), robot, C, C)
    BY Members
  <2> HIDE DEF robot, C, b, k
  <2> QED
    BY <2>1, <2>2, <2>3, <2>4 DEF If
<1>7. \A p \in {b, s, t} \union T : Member(p, robot, C, C)
  BY Members, PairsOfControllers DEF ArmSpawner, HandSpawner
<1>8. k \in d.start /\ Manages(k, C)
  BY <1>1, Managers
<1>9. \A c, f \in C : ~Conflict(c, f)
  BY PairsOfControllers
<1> HIDE DEF robot, C, b, k, s, t, S, T, d
<1>10. \A h \in d.onExit : \A p \in h[2] : Member(p, robot, C, C)
  BY <1>2, <1>7
<1>11. \A p \in d.start : Member(p, robot, C, C)
  BY <1>1, <1>6
<1>12. OneRobot(d) /\ HasManager(d) /\ OneSource(d) /\ NoRivals(d)
  BY <1>8, <1>9, <1>10, <1>11, MembersAgree
<1>13. AsCreateThenTwo(d, S, b, s, t, k, T)
  BY <1>1, <1>2, <1>3, <1>4, <1>5 DEF AsCreateThenTwo
<1>14. Consistent(d)
  BY <1>12, <1>13, CreateThenTwo DEF Consistent
<1> QED
  BY <1>14 DEF d

\* A file that starts everything at once is consistent when its processes are
\* members and one of them is the manager.
LEMMA MembersAtOnce ==
  ASSUME NEW d, NEW r, NEW C, NEW m \in d.start, d.onExit = {},
         \A p \in d.start : Member(p, r, C, C),
         Manages(m, C),
         \A c, e \in C : ~Conflict(c, e)
  PROVE  Consistent(d)
<1>1. OneRobot(d) /\ HasManager(d) /\ OneSource(d) /\ NoRivals(d)
  BY MembersAgree
<1> QED
  BY <1>1, Flat DEF Consistent

\* The spawners of what MoveIt is configured with are members of a bring-up
\* whose manager has these controllers.
LEMMA SpawnersAreMembers ==
  ASSUME NEW r, NEW C, NEW model,
         MoveitControllers(model) \union {Broadcaster} \subseteq C
  PROVE  \A p \in MoveitSpawners(model) : Member(p, r, C, C)
<1> SUFFICES ASSUME NEW c \in MoveitControllers(model) \union {Broadcaster}
             PROVE  Member(Spawner(c), r, C, C)
  BY DEF MoveitSpawners
<1> QED
  BY Members

\* The controllers of MoveIt are among those of the manager, for each model.
LEMMA MoveitIsServed ==
  /\ \A h : h \notin {"dual", "rm65"} =>
       MoveitControllers(h) \union {Broadcaster} \subseteq HandControllers(h)
  /\ MoveitControllers("dual") \union {Broadcaster} \subseteq DualControllers
  /\ MoveitControllers("rm65") \union {Broadcaster} \subseteq Rm65Controllers
BY DEF MoveitControllers, HandControllers, DualControllers, Rm65Controllers

\* The files that bring MoveIt up on the FakeSystem.
LEMMA FakeSystemFile ==
  ASSUME NEW a, NEW file, NEW model, NEW C,
         MoveitControllers(model) \union {Broadcaster} \subseteq C,
         \A c, e \in C : ~Conflict(c, e)
  PROVE  Consistent(FakeSystem(a, file, model, C))
<1> DEFINE robot == Robot("brainco_moveit_config", model, {})
           m == ControlNode(robot, C)
           d == FakeSystem(a, file, model, C)
<1>1. /\ d.start =
           {Respawned(Publisher(robot)),
            MoveGroup(robot, MoveitControllers(model)), m}
             \union If(a.rviz, {Rviz(NoRobot)})
             \union StaticTfs(model) \union MoveitSpawners(model)
      /\ d.onExit = {}
  BY DEF FakeSystem, Description
<1>2. /\ Member(Respawned(Publisher(robot)), robot, C, C)
      /\ Member(MoveGroup(robot, MoveitControllers(model)), robot, C, C)
      /\ Member(m, robot, C, C) /\ Member(Rviz(NoRobot), robot, C, C)
  BY Members
<1>3. \A p \in StaticTfs(model) \union MoveitSpawners(model) :
        Member(p, robot, C, C)
  BY MemberSets, SpawnersAreMembers
<1>4. Manages(m, C)
  BY Managers
<1> HIDE DEF robot, m, d
<1>5. m \in d.start
  BY <1>1
<1>6. \A p \in d.start : Member(p, robot, C, C)
  BY <1>1, <1>2, <1>3 DEF If
<1>7. Consistent(d)
  BY <1>1, <1>4, <1>5, <1>6, MembersAtOnce
<1> QED
  BY <1>7 DEF d

\* revo2_left_moveit, revo2_right_moveit and dual_revo2_moveit.
LEMMA FakeSystemFiles ==
  ASSUME NEW a
  PROVE  /\ Consistent(LeftMoveit(a)) /\ Consistent(RightMoveit(a))
         /\ Consistent(DualMoveit(a))
<1>1. /\ MoveitControllers("left") \union {Broadcaster}
           \subseteq HandControllers("left")
      /\ MoveitControllers("right") \union {Broadcaster}
           \subseteq HandControllers("right")
  BY MoveitIsServed
<1>2. /\ \A c, e \in HandControllers("left") : ~Conflict(c, e)
      /\ \A c, e \in HandControllers("right") : ~Conflict(c, e)
  BY NoConflicts DEF HandControllers
<1>3. Consistent(LeftMoveit(a))
  BY <1>1, <1>2, FakeSystemFile DEF LeftMoveit
<1>4. Consistent(RightMoveit(a))
  BY <1>1, <1>2, FakeSystemFile DEF RightMoveit
<1>5. Consistent(DualMoveit(a))
  BY MoveitIsServed, PairsOfControllers, FakeSystemFile DEF DualMoveit
<1> QED
  BY <1>3, <1>4, <1>5

\* What the arm's file starts in any case, its managers and its spawners are
\* members of one bring-up.
LEMMA Rm65Members ==
  /\ \A p \in StaticTfs("rm65") \union MoveitSpawners("rm65")
                \union {Respawned(Publisher(Rm65Robot)),
                        MoveGroup(Rm65Robot, MoveitControllers("rm65")),
                        Rviz(NoRobot),
                        ControlNode(Rm65Robot, Rm65Controllers)} :
       Member(p, Rm65Robot, Rm65Controllers, Rm65Controllers)
  /\ Manages(ControlNode(Rm65Robot, Rm65Controllers), Rm65Controllers)
<1> DEFINE r == Rm65Robot
           C == Rm65Controllers
<1>1. /\ Member(Respawned(Publisher(r)), r, C, C)
      /\ Member(MoveGroup(r, MoveitControllers("rm65")), r, C, C)
      /\ Member(Rviz(NoRobot), r, C, C) /\ Member(ControlNode(r, C), r, C, C)
  BY Members
<1>2. \A p \in StaticTfs("rm65") : Member(p, r, C, C)
  BY MemberSets
<1>3. \A p \in MoveitSpawners("rm65") : Member(p, r, C, C)
  BY MoveitIsServed, SpawnersAreMembers
<1>4. Manages(ControlNode(r, C), C)
  BY Managers
<1> QED
  BY <1>1, <1>2, <1>3, <1>4

\* rm65_with_revo2_right_moveit: on the FakeSystem with its spawners, and on the
\* arm without any, but perhaps with the bridge.
LEMMA Rm65MoveitFile ==
  ASSUME NEW a
  PROVE  Consistent(Rm65Moveit(a))
<1> DEFINE m == ControlNode(Rm65Robot, Rm65Controllers)
           Always == StaticTfs("rm65")
                       \union {Respawned(Publisher(Rm65Robot)),
                               MoveGroup(Rm65Robot, MoveitControllers("rm65"))}
                       \union If(a.rviz, {Rviz(NoRobot)})
           d == Rm65Moveit(a)
<1>1. d.onExit = {}
  BY DEF Rm65Moveit, Description
<1>2. CASE a.fake
  <2>1. d.start = Always \union {m} \union MoveitSpawners("rm65")
    BY <1>2 DEF Rm65Moveit, Description, If
  <2>2. \A p \in d.start :
          Member(p, Rm65Robot, Rm65Controllers, Rm65Controllers)
    BY <2>1, Rm65Members DEF If
  <2> HIDE DEF d
  <2>3. m \in d.start /\ Manages(m, Rm65Controllers)
    BY <2>1, Rm65Members
  <2>4. Consistent(d)
    BY <1>1, <2>2, <2>3, PairsOfControllers, MembersAtOnce
  <2> QED
    BY <2>4 DEF d
<1>3. CASE ~a.fake
  <2>1. d.start = Always \union If(a.bridge, {Respawned(RmBridge)})
    BY <1>3 DEF Rm65Moveit, Description, If
  <2>2. Respawned(RmBridge).robot = NoRobot /\ ~IsSpawner(Respawned(RmBridge))
    BY DEF Respawned, RmBridge, Process, IsSpawner
  <2>3. /\ Plain(Respawned(Publisher(Rm65Robot))) /\ Plain(Rviz(NoRobot))
        /\ Bystander(MoveGroup(Rm65Robot, MoveitControllers("rm65")))
        /\ \A p \in StaticTfs("rm65") : Plain(p)
    BY Roles, Bystanders
  <2>4. \A p \in Always : ~IsSpawner(p)
    BY <2>3 DEF If, Plain, Bystander
  <2>5. \A p \in Always : p.robot \in {Rm65Robot, NoRobot}
    BY Rm65Members DEF If, Member
  <2>6. \A p \in d.start : p.robot \in {Rm65Robot, NoRobot} /\ ~IsSpawner(p)
    BY <2>1, <2>2, <2>4, <2>5 DEF If
  <2> HIDE DEF d
  <2>7. OneRobot(d) /\ HasManager(d) /\ OneSource(d) /\ NoRivals(d)
    BY <1>1, <2>6, NoSpawners
  <2>8. Consistent(d)
    BY <1>1, <2>7, Flat DEF Consistent
  <2> QED
    BY <2>8 DEF d
<1> QED
  BY <1>2, <1>3

\* demo.launch.py, with the files that it includes.
LEMMA Rm65DemoFile ==
  ASSUME NEW a
  PROVE  Consistent(Rm65Demo(a))
<1> DEFINE m == ControlNode(Rm65Robot, Rm65Controllers)
           d == Rm65Demo(a)
<1>1. d.onExit = {}
  BY DEF Rm65Demo, Description
<1>2. d.start = VirtualJointTfs \union Rsp \union MoveGroupLaunch
                  \union If(a.rviz, MoveitRviz) \union {m}
                  \union SpawnControllers
  BY DEF Rm65Demo, Description
<1>3. \A p \in d.start : Member(p, Rm65Robot, Rm65Controllers, Rm65Controllers)
  BY <1>2, Rm65Members
     DEF If, VirtualJointTfs, Rsp, MoveGroupLaunch, MoveitRviz, SpawnControllers
<1> HIDE DEF d
<1>4. m \in d.start /\ Manages(m, Rm65Controllers)
  BY <1>2, Rm65Members
<1>5. Consistent(d)
  BY <1>1, <1>3, <1>4, PairsOfControllers, MembersAtOnce
<1> QED
  BY <1>5 DEF d

\* The files that start one process.
LEMMA SingleProcessFiles ==
  Consistent(BridgeLaunch) /\ Consistent(SetupAssistant)
<1>1. ASSUME NEW d, d \in {BridgeLaunch, SetupAssistant}
      PROVE  Consistent(d)
  <2>1. /\ d.onExit = {}
        /\ \A p \in d.start : p.robot \in {NoRobot, NoRobot} /\ ~IsSpawner(p)
    BY <1>1
       DEF BridgeLaunch, SetupAssistant, Description, RmBridge, Process,
           IsSpawner
  <2>2. OneRobot(d) /\ HasManager(d) /\ OneSource(d) /\ NoRivals(d)
    BY <2>1, NoSpawners
  <2> QED
    BY <2>1, <2>2, Flat DEF Consistent
<1> QED
  BY <1>1

-----------------------------------------------------------------------------
(* Every launch file of the repository.                                    *)

\* The description of a file, for some arguments.
IsFile(d) ==
  \E a :
    \/ d \in {Revo2System(a), DualSystem(a), EthercatSystem(a)}
    \/ d \in {RealMoveit(a), EthercatMoveit(a), DualRealMoveit(a)}
    \/ d \in {LeftMoveit(a), RightMoveit(a), DualMoveit(a)}
    \/ d \in {HandGazebo(a), HandGazeboMoveit(a)}
    \/ d \in {DualGazebo(a), DualGazeboMoveit(a)}
    \/ d \in {Rm65Gazebo(a), Rm65GazeboMoveit(a), Rm65Moveit(a), Rm65Demo(a)}
    \/ d \in {BridgeLaunch, SetupAssistant}

\* Whatever arguments the user gives, the file is consistent.
LEMMA FilesAreConsistent ==
  ASSUME NEW d, IsFile(d)
  PROVE  Consistent(d)
<1>1. PICK a :
        \/ d \in {Revo2System(a), DualSystem(a), EthercatSystem(a)}
        \/ d \in {RealMoveit(a), EthercatMoveit(a), DualRealMoveit(a)}
        \/ d \in {LeftMoveit(a), RightMoveit(a), DualMoveit(a)}
        \/ d \in {HandGazebo(a), HandGazeboMoveit(a)}
        \/ d \in {DualGazebo(a), DualGazeboMoveit(a)}
        \/ d \in {Rm65Gazebo(a), Rm65GazeboMoveit(a), Rm65Moveit(a),
                  Rm65Demo(a)}
        \/ d \in {BridgeLaunch, SetupAssistant}
  BY DEF IsFile
<1>2. CASE d \in {Revo2System(a), DualSystem(a), EthercatSystem(a)}
  BY <1>2, Revo2SystemFile, DualSystemFile, EthercatSystemFile
<1>3. CASE d \in {RealMoveit(a), EthercatMoveit(a), DualRealMoveit(a)}
  BY <1>3, RealMoveitFile, EthercatMoveitFile, DualRealMoveitFile
<1>4. CASE d \in {LeftMoveit(a), RightMoveit(a), DualMoveit(a)}
  BY <1>4, FakeSystemFiles
<1>5. CASE d \in {HandGazebo(a), HandGazeboMoveit(a)}
  BY <1>5, HandGazeboFile, HandGazeboMoveitFile
<1>6. CASE d \in {DualGazebo(a), DualGazeboMoveit(a)}
  BY <1>6, DualGazeboFile, DualGazeboMoveitFile
<1>7. CASE d \in {Rm65Gazebo(a), Rm65GazeboMoveit(a), Rm65Moveit(a),
                 Rm65Demo(a)}
  BY <1>7, Rm65GazeboFile, Rm65GazeboMoveitFile, Rm65MoveitFile, Rm65DemoFile
<1>8. CASE d \in {BridgeLaunch, SetupAssistant}
  BY <1>8, SingleProcessFiles
<1> QED
  BY <1>1, <1>2, <1>3, <1>4, <1>5, <1>6, <1>7, <1>8

\* The assumption of the theorems below: the bring-up is that of a launch file
\* of the repository, with any arguments.
OnlyFiles == \A d \in Descriptions : IsFile(d)

\* What a launch file starts late, from its arguments once more, is given the
\* robot description that the manager and the state publisher got (SameRobot).
THEOREM FilesDescribeOneRobot ==
  ASSUME OnlyFiles
  PROVE  Spec => []SameRobot
BY FilesAreConsistent, RobotKept DEF OnlyFiles, Consistent

\* In every launch file a spawner finds its controller in the manager of that
\* bring-up, which is started together with it or ahead of it
\* (SpawnersAreServed).
THEOREM FilesServeTheirSpawners ==
  ASSUME OnlyFiles
  PROVE  Spec => []SpawnersAreServed
BY FilesAreConsistent, SpawnersFindTheirManager DEF OnlyFiles, Consistent

\* No launch file brings up both the bridge to the arm and the broadcaster
\* (OneJointStateSource), the file that has a flag for each included.
THEOREM FilesHaveOneSource ==
  ASSUME OnlyFiles
  PROVE  Spec => []OneJointStateSource
BY FilesAreConsistent, OneSourceKept DEF OnlyFiles, Consistent

\* No launch file has two active controllers claim the interfaces of one hand
\* (NoCompetition).
THEOREM FilesDoNotCompete ==
  ASSUME OnlyFiles
  PROVE  Spec => []NoCompetition
BY FilesAreConsistent, RivalsKeptApart DEF OnlyFiles, Consistent

\* In every launch file no spawner is left to be started when move_group is
\* there, whatever failed and in whatever order exits are handled
\* (NoSpawnerAfterMoveGroup).
THEOREM FilesStartMoveGroupLast ==
  ASSUME OnlyFiles
  PROVE  Spec => []NoSpawnerAfterMoveGroup
BY FilesAreConsistent, MoveGroupComesLast DEF OnlyFiles, Consistent

\* In every launch file that orders its processes the robot is in the simulation
\* before any spawner starts, and the spawner of the broadcaster has exited
\* before any other one does (BroadcasterFirst).
THEOREM FilesStartBroadcasterFirst ==
  ASSUME OnlyFiles
  PROVE  Spec => []BroadcasterFirst
BY FilesAreConsistent, Order DEF OnlyFiles, Consistent

\* In every launch file what an exit handler starts comes after the exit of its
\* target (ChainKept).
THEOREM FilesKeepTheirChains ==
  ASSUME OnlyFiles
  PROVE  Spec => []ChainKept
<1>1. \A d \in Descriptions : TargetsStayDown(d)
  BY FilesAreConsistent DEF OnlyFiles, Consistent, Chained, TargetsStayDown
<1> QED
  BY <1>1, Chain
=============================================================================
