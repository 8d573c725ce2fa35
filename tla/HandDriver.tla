------------------------------ MODULE HandDriver ------------------------------
(***************************************************************************)
(* BraincoHandHardware: the hands of one controller manager, each a         *)
(* hardware component with a Modbus or a CAN FD session of its own.         *)
(*                                                                         *)
(* With auto_detect a hand looks for its device on every serial port: first *)
(* the SDK's own detection, then port by port, then a choice, then the      *)
(* connection is opened.  Ports are taken by other hands and devices are    *)
(* plugged and unplugged between any two of these steps.  A CAN FD session   *)
(* uses the SDK's callbacks, which are global: active_instance_ says whose  *)
(* they are.                                                               *)
(*                                                                         *)
(* The resource manager runs one lifecycle handler at a time; read() and     *)
(* write() of every hand that is inactive or active go on meanwhile.        *)
(***************************************************************************)
EXTENDS Naturals, FiniteSetsExt

CONSTANTS
  Hands,    \* the components, named by the slave_id they are configured with
  NumPorts, \* serial ports, in the order in which they are scanned
  Modes,    \* the configurations that may be launched
  Faults    \* detection, devices and adapters may fail to answer (environment)

\* An integer, hence no hand (hands are model values).
None == 0

ASSUME HandsAssumption == None \notin Hands
ASSUME NumPortsAssumption == NumPorts \in Nat \ {0}
ASSUME ModesAssumption == Modes \subseteq {"auto", "manual", "canfd"}
ASSUME FaultsAssumption == Faults \in BOOLEAN

Ports == 1..NumPorts

\* A device is named by its slave_id; every hand has one.
Devices == Hands

Can == NumPorts + 1  \* where a CAN FD session is connected

VARIABLES
  mode,     \* protocol and auto_detect of this launch
  manual,   \* per hand: the port of its configuration
  plugged,  \* per port: the device behind it (environment)
  hwState,  \* per hand: the lifecycle state
  wanted,   \* per hand: config_.transport.slave_id
  session,  \* per hand: where its session is open
  live,     \* per hand: the line of the open session was never cut
  slot,     \* active_instance_: the hand whose session the callbacks call
  started,  \* the hands whose CAN adapter is open (device_started_)
  job,      \* the open() that is running
  steady    \* history: devices that could be found ever since it began

env  == <<mode, manual, plugged>>
link == <<wanted, session, live>>
can  == <<slot, started>>
open == <<job, steady>>
vars == <<env, hwState, link, can, open>>

\* A port and its device, when one has been found.
Nothing == <<>>
Finds == {Nothing} \union (Ports \X Devices)

\* What the running open() has found; only the first match and the first
\* other device matter to its choice.
Job == [pc   : {"sdk", "confirm", "scan", "open", "can_open", "can_init"},
        hand : Hands,
        todo : SUBSET Ports,  \* ports of the list that are not scanned yet
        port : Ports \union {None},     \* detected by the SDK, then chosen
        id   : Devices \union {None},   \* its slave_id
        match : Finds,                  \* the first device of that slave_id
        other : Finds]                  \* the first other one

Idle == [pc |-> "idle"]

TypeOK ==
  /\ mode \in Modes
  /\ manual \in [Hands -> Ports]
  /\ plugged \in [Ports -> Devices \union {None}]
  /\ hwState \in [Hands -> {"unconfigured", "inactive", "active", "finalized"}]
  /\ wanted \in [Hands -> Devices]
  /\ session \in [Hands -> Ports \union {Can, None}]
  /\ live \in [Hands -> BOOLEAN]
  /\ slot \in Hands \union {None}
  /\ started \subseteq Hands
  /\ job \in Job \union {Idle}
  /\ steady \subseteq Devices

Init ==
  /\ mode \in Modes
  /\ manual \in [Hands -> Ports]
  /\ plugged = [p \in Ports |-> None]
  /\ hwState = [h \in Hands |-> "unconfigured"]
  /\ wanted = [h \in Hands |-> h]
  /\ session = [h \in Hands |-> None]
  /\ live = [h \in Hands |-> FALSE]
  /\ slot = None /\ started = {}
  /\ job = Idle /\ steady = {}

-----------------------------------------------------------------------------
(***************************************************************************)
(* The SDK and the serial ports (external).                                *)
(***************************************************************************)

\* modbus_open() succeeds on a port that exists and that nobody has open.
CanBeOpened(p) ==
  /\ plugged[p] # None
  /\ \A h \in Hands : ~(session[h] = p /\ live[h])

\* auto_detect_modbus_revo2() of one port answers d.  A device that does not
\* answer is no longer one that could be found all along.
Detect(p, d) ==
  \/ /\ d = plugged[p]
     /\ UNCHANGED steady
  \/ /\ Faults /\ d = None
     /\ steady' = steady \ {plugged[p]}

\* The device a session talks to answers to the slave_id it is asked for.  On
\* CAN FD the frames go to the adapter of the session in the slot.
Answers(h) ==
  IF session[h] = Can
  THEN slot \in started /\ live[slot]
  ELSE live[h] /\ plugged[session[h]] = wanted[h]

-----------------------------------------------------------------------------
(***************************************************************************)
(* on_configure(): open_connection().                                      *)
(***************************************************************************)

\* close() of either session: the callbacks are given up only by the session
\* that has them.
CloseSession(h) ==
  /\ session' = [session EXCEPT ![h] = None]
  /\ live' = [live EXCEPT ![h] = FALSE]
  /\ slot' = IF slot = h THEN None ELSE slot
  /\ started' = started \ {h}

\* The old connection is closed, and open() begins; in auto mode with the list
\* of the ports that exist.
Configure(h) ==
  /\ job = Idle /\ hwState[h] = "unconfigured"
  /\ CloseSession(h)
  /\ job' = [pc   |-> CASE mode = "auto"   -> "sdk"
                        [] mode = "manual" -> "open"
                        [] mode = "canfd"  -> "can_open",
             hand |-> h,
             todo |-> {p \in Ports : plugged[p] # None},
             port |-> IF mode = "manual" THEN manual[h] ELSE None,
             id   |-> IF mode = "manual" THEN wanted[h] ELSE None,
             match |-> Nothing, other |-> Nothing]
  /\ steady' = {plugged[p] : p \in {q \in Ports : CanBeOpened(q)}}
  /\ UNCHANGED <<env, hwState, wanted>>

\* A device goes to the list of its kind; the first one of a list counts.
Classified(j, p, d, id) ==
  IF id = wanted[j.hand]
  THEN [j EXCEPT !.match = IF @ = Nothing THEN <<p, d>> ELSE @]
  ELSE [j EXCEPT !.other = IF @ = Nothing THEN <<p, d>> ELSE @]

\* The SDK finds some device, on a port in use even, or none.
SdkDetect ==
  /\ job.pc = "sdk"
  /\ \/ \E p \in Ports :
          /\ plugged[p] # None
          /\ job' = [job EXCEPT !.pc = "confirm", !.port = p,
                                !.id = plugged[p]]
     \/ /\ Faults \/ \A p \in Ports : plugged[p] = None
        /\ job' = [job EXCEPT !.pc = "scan"]
  /\ UNCHANGED <<env, hwState, link, can, steady>>

\* The port can be opened and is detected anew: what is found there now is
\* filed under the slave_id that was found first.  The scan leaves this port
\* out, whatever came of it.
SdkConfirm ==
  /\ job.pc = "confirm"
  /\ LET scan == [job EXCEPT !.pc = "scan", !.todo = @ \ {job.port}]
     IN  IF CanBeOpened(job.port)
         THEN \E d \in Devices \union {None} :
                /\ Detect(job.port, d)
                /\ job' = IF d = None THEN scan
                          ELSE Classified(scan, job.port, d, job.id)
         ELSE job' = scan /\ UNCHANGED steady
  /\ UNCHANGED <<env, hwState, link, can>>

\* Mutant of ScanPort: what auto_detect answers is not checked.
ScanPortUnchecked ==
  /\ job.pc = "scan" /\ job.todo # {}
  /\ LET p == Min(job.todo)
         rest == [job EXCEPT !.todo = @ \ {p}]
     IN  \E d \in Devices \union {None} :
           /\ Detect(p, d)
           /\ job' = IF CanBeOpened(p) THEN Classified(rest, p, d, d) ELSE rest
  /\ UNCHANGED <<env, hwState, link, can>>

\* Every other port of the list is detected and, if it can be opened, listed.
ScanPort ==
  /\ job.pc = "scan" /\ job.todo # {}
  /\ LET p == Min(job.todo)
         rest == [job EXCEPT !.todo = @ \ {p}]
     IN  \E d \in Devices \union {None} :
           /\ Detect(p, d)
           /\ job' = IF d # None /\ CanBeOpened(p)
                     THEN Classified(rest, p, d, d) ELSE rest
  /\ UNCHANGED <<env, hwState, link, can>>

\* on_configure() answers ERROR; on_error is the library's default, which
\* finalizes the component.
Refuse(h) ==
  /\ hwState' = [hwState EXCEPT ![h] = "finalized"]
  /\ job' = Idle

\* Mutant of Choose: the first device that was found is taken.
ChooseOtherFirst ==
  /\ job.pc = "scan" /\ job.todo = {}
  /\ LET chosen == IF job.other # Nothing THEN job.other ELSE job.match
     IN  IF chosen = Nothing THEN Refuse(job.hand)
         ELSE /\ job' = [job EXCEPT !.pc = "open", !.port = chosen[1],
                                    !.id = chosen[2]]
              /\ UNCHANGED hwState
  /\ UNCHANGED <<env, link, can, steady>>

\* A device with the requested slave_id is preferred; another one is taken
\* with a warning.
Choose ==
  /\ job.pc = "scan" /\ job.todo = {}
  /\ LET chosen == IF job.match # Nothing THEN job.match ELSE job.other
     IN  IF chosen = Nothing THEN Refuse(job.hand)
         ELSE /\ job' = [job EXCEPT !.pc = "open", !.port = chosen[1],
                                    !.id = chosen[2]]
              /\ UNCHANGED hwState
  /\ UNCHANGED <<env, link, can, steady>>

\* The connection is opened.  What was detected becomes the slave_id of the
\* component's configuration, for this session and for every later open().
OpenPort ==
  /\ job.pc = "open"
  /\ LET h == job.hand
     IN  IF CanBeOpened(job.port)
         THEN /\ session' = [session EXCEPT ![h] = job.port]
              /\ live' = [live EXCEPT ![h] = TRUE]
              /\ wanted' = [wanted EXCEPT ![h] = job.id]
              /\ hwState' = [hwState EXCEPT ![h] = "inactive"]
              /\ job' = Idle
         ELSE Refuse(h) /\ UNCHANGED link
  /\ UNCHANGED <<env, can, steady>>

\* CanfdSession::open(): another session is active, or the adapter fails.
OpenCanFails ==
  /\ job.pc = "can_open"
  /\ slot # None \/ Faults
  /\ Refuse(job.hand)
  /\ UNCHANGED <<env, link, can, steady>>

\* The adapter runs and the callbacks are this session's.
OpenCan ==
  /\ job.pc = "can_open" /\ slot = None
  /\ slot' = job.hand
  /\ started' = started \union {job.hand}
  /\ job' = [job EXCEPT !.pc = "can_init"]
  /\ UNCHANGED <<env, hwState, link, steady>>

CanReady(h) ==
  /\ session' = [session EXCEPT ![h] = Can]
  /\ live' = [live EXCEPT ![h] = TRUE]
  /\ hwState' = [hwState EXCEPT ![h] = "inactive"]
  /\ job' = Idle
  /\ UNCHANGED can

\* Mutant of CanInit: after a failure the session is not closed.
CanInitNotClosed ==
  /\ job.pc = "can_init"
  /\ \/ CanReady(job.hand)
     \/ Faults /\ Refuse(job.hand) /\ UNCHANGED <<session, live, can>>
  /\ UNCHANGED <<env, wanted, steady>>

\* canfd_init() succeeds, or fails and what was begun is taken back.
CanInit ==
  /\ job.pc = "can_init"
  /\ \/ CanReady(job.hand)
     \/ Faults /\ CloseSession(job.hand) /\ Refuse(job.hand)
  /\ UNCHANGED <<env, wanted, steady>>

-----------------------------------------------------------------------------
(***************************************************************************)
(* The other handlers, and the control loop.                               *)
(***************************************************************************)

\* A session that is open is all on_activate() asks for: that the device could
\* be put into physical units is not.
Activate(h) ==
  /\ job = Idle /\ hwState[h] = "inactive"
  /\ IF session[h] = None
     THEN Refuse(h)
     ELSE /\ hwState' = [hwState EXCEPT ![h] = "active"]
          /\ UNCHANGED job
  /\ UNCHANGED <<env, link, can, steady>>

Deactivate(h) ==
  /\ job = Idle /\ hwState[h] = "active"
  /\ hwState' = [hwState EXCEPT ![h] = "inactive"]
  /\ UNCHANGED <<env, link, can, open>>

Cleanup(h) ==
  /\ job = Idle /\ hwState[h] = "inactive"
  /\ CloseSession(h)
  /\ hwState' = [hwState EXCEPT ![h] = "unconfigured"]
  /\ UNCHANGED <<env, wanted, open>>

\* ERROR from read() or write(): on_error, which closes nothing.
Error(h) ==
  /\ hwState' = [hwState EXCEPT ![h] = "finalized"]
  /\ UNCHANGED <<env, link, can, open>>

Called(h) == hwState[h] \in {"inactive", "active"}

\* Mutant of ReadFails: a read() without data is answered with OK.
ReadFailureLogged(h) ==
  /\ Called(h)
  /\ session[h] = None
  /\ Error(h)

\* read() without a session or without an answer.  When there is an answer it
\* changes none of this.
ReadFails(h) ==
  /\ Called(h)
  /\ session[h] = None \/ ~Answers(h) \/ Faults
  /\ Error(h)

-----------------------------------------------------------------------------
(***************************************************************************)
(* The environment.                                                        *)
(***************************************************************************)

Plug(p, d) ==
  /\ plugged[p] = None
  /\ \A q \in Ports : plugged[q] # d
  /\ plugged' = [plugged EXCEPT ![p] = d]
  /\ UNCHANGED <<mode, manual, hwState, link, can, open>>

\* The line of every session on this port is cut; the device is missing.
Unplug(p) ==
  /\ plugged[p] # None
  /\ steady' = steady \ {plugged[p]}
  /\ plugged' = [plugged EXCEPT ![p] = None]
  /\ live' = [h \in Hands |-> live[h] /\ session[h] # p]
  /\ UNCHANGED <<mode, manual, hwState, wanted, session, can, job>>

UnplugAdapter ==
  /\ Faults
  /\ \E h \in Hands :
       /\ session[h] = Can /\ live[h]
       /\ live' = [live EXCEPT ![h] = FALSE]
  /\ UNCHANGED <<env, hwState, wanted, session, can, open>>

Next ==
  \/ \E h \in Hands : \/ Configure(h) \/ Activate(h) \/ Deactivate(h)
                      \/ Cleanup(h) \/ ReadFails(h)
  \/ SdkDetect \/ SdkConfirm \/ ScanPort \/ Choose \/ OpenPort
  \/ OpenCanFails \/ OpenCan \/ CanInit
  \/ \E p \in Ports : Unplug(p) \/ \E d \in Devices : Plug(p, d)
  \/ UnplugAdapter

Spec == Init /\ [][Next]_vars

(***************************************************************************)
(* Fairness.  The control loop calls read() of every hand that is inactive  *)
(* or active, again and again.                                             *)
(***************************************************************************)
FairSpec == Spec /\ \A h \in Hands : WF_vars(~Answers(h) /\ ReadFails(h))

-----------------------------------------------------------------------------
(***************************************************************************)
(* Properties.                                                             *)
(***************************************************************************)

\* A session is opened on another device than the one that was asked for only
\* if that one could not be found: it was missing, in use or silent at some
\* moment of the detection.  Plugging, ports in use, the port the SDK found
\* first and the order of the ports do not matter.
AskedForIsFound ==
  [][\A h \in Hands : wanted'[h] # wanted[h] => wanted[h] \notin steady]_vars

\* The SDK's callbacks, which are global, and a running adapter belong to the
\* session that is open or that is being opened, and to no other: neither a
\* close of another hand nor a failure halfway leaves or takes away one of them.
CallbacksGoHome ==
  \A h \in Hands :
    LET inUse == session[h] = Can \/ (job.pc = "can_init" /\ job.hand = h)
    IN  (inUse <=> slot = h) /\ (inUse <=> h \in started)

\* "CAN FD: supports controlling multiple hands simultaneously": when nothing
\* fails, every hand that is configured comes up.
HandsComeUp == \A h \in Hands : hwState[h] # "finalized"

\* write() never tells that a hand is gone, but read() does: a hand that does
\* not answer does not stay in operation (under FairSpec).
LossNoticed ==
  \A h \in Hands : Called(h) /\ ~Answers(h) ~> ~Called(h) \/ Answers(h)
=============================================================================
