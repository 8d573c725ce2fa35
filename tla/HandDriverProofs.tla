--------------------------- MODULE HandDriverProofs ---------------------------
(***************************************************************************)
(* The hands of one controller manager, for every number of hands and        *)
(* ports.  The SDK's global callbacks belong to the session that is open or  *)
(* being opened, whatever fails, and the device that was asked for is opened *)
(* whenever it could be found during the whole detection.                  *)
(***************************************************************************)
EXTENDS HandDriver, WellFoundedInduction, TLAPS

-----------------------------------------------------------------------------
(***************************************************************************)
(* The inductive invariants.                                               *)
(***************************************************************************)

\* While open() runs its hand has no session, and there is a port and a
\* slave_id as soon as one was found.
JobInv ==
  job # Idle =>
    /\ session[job.hand] = None
    /\ job.pc \in {"confirm", "open"} =>
         job.port \in Ports /\ job.id \in Devices

HandsInv == TypeOK /\ JobInv /\ CallbacksGoHome

\* d is on one of these ports, and nobody has that port open.
Findable(d, ports) == \E q \in ports : plugged[q] = d /\ CanBeOpened(q)

Asked == wanted[job.hand]

\* As long as the device that was asked for could be found all along, it is
\* still to be scanned or it is what the search is going to choose.  A port that
\* the SDK has found and that is not confirmed yet carries that device if, and
\* only if, the SDK has seen that device there.
SearchInv ==
  job # Idle /\ Asked \in steady =>
    /\ job.pc \in {"sdk", "confirm"} =>
         job.match = Nothing /\ Findable(Asked, job.todo)
    /\ job.pc = "confirm" => (job.id = Asked <=> plugged[job.port] = Asked)
    /\ job.pc = "scan" =>
         IF job.match = Nothing THEN Findable(Asked, job.todo)
         ELSE job.match[2] = Asked
    /\ job.pc = "open" => job.id = Asked

-----------------------------------------------------------------------------
(***************************************************************************)
(* Lemmas about the operators.                                             *)
(***************************************************************************)

\* A set of numbers that is not empty contains its least element, which is the
\* port that is scanned next.
LEMMA MinIsMember ==
  ASSUME NEW S, S \subseteq Nat, S # {}
  PROVE  Min(S) \in S
<1> DEFINE R == {p \in Nat \X Nat : p[1] < p[2]}
<1>1. OpToRel(<, Nat) = R
  BY Zenon DEF OpToRel
<1>2. IsWellFoundedOn(R, Nat)
  BY <1>1, NatLessThanWellFounded, Zenon
<1>3. PICK x \in S : \A y \in S : ~(<<y, x>> \in R)
  <2> HIDE DEF R
  <2> QED
    BY <1>2, WFMin
<1>4. \A y \in S : x <= y
  <2>1. \A y \in S : x \in Nat /\ y \in Nat /\ ~(<<y, x>> \in R)
    BY <1>3
  <2>2. \A m, n \in Nat : m < n => <<m, n>> \in R
    OBVIOUS
  <2>3. \A y \in S : ~(y < x)
    BY <2>1, <2>2, Zenon
  <2> QED
    BY <2>1, <2>3
<1> QED
  BY <1>4 DEF Min

\* So the port that is scanned next is one of the list.
LEMMA NextPort ==
  ASSUME NEW T, T \subseteq Ports, T # {}
  PROVE  Min(T) \in T
<1>1. T \subseteq Nat
  BY NumPortsAssumption DEF Ports
<1> QED
  BY <1>1, MinIsMember

\* Filing a device changes nothing but the two finds.
LEMMA ClassifiedType ==
  ASSUME NEW j \in Job, NEW p \in Ports, NEW d \in Devices, NEW id
  PROVE  /\ Classified(j, p, d, id) \in Job
         /\ Classified(j, p, d, id).pc = j.pc
         /\ Classified(j, p, d, id).hand = j.hand
BY DEF Classified, Job, Finds

\* And it is the match when it is the first one that was asked for.
LEMMA ClassifiedMatch ==
  ASSUME NEW j \in Job, NEW p \in Ports, NEW d \in Devices, NEW id
  PROVE  /\ Classified(j, p, d, id).todo = j.todo
         /\ Classified(j, p, d, id).match =
              IF id = wanted[j.hand] /\ j.match = Nothing THEN <<p, d>>
              ELSE j.match
BY DEF Classified, Job, Finds

\* A running open() is not the idle one.
LEMMA RunningJob ==
  ASSUME TypeOK, job # Idle
  PROVE  job \in Job /\ job.hand \in Hands
BY DEF TypeOK, Job

\* There is no hand, no port and no CAN connection by the name of None.
LEMMA Names ==
  None \notin Hands /\ None \notin Ports /\ Can \notin Ports /\ Can # None
BY HandsAssumption, NumPortsAssumption DEF None, Ports, Can

-----------------------------------------------------------------------------
(***************************************************************************)
(* Types, the running open() and the callbacks.                            *)
(***************************************************************************)

\* The initial states satisfy the inductive invariant.
LEMMA InitHands == Init => HandsInv
BY Names DEF Init, HandsInv, TypeOK, JobInv, CallbacksGoHome, Devices, Idle

\* on_configure() starts with no session, whoever has the callbacks.
LEMMA StepConfigure ==
  ASSUME HandsInv, NEW h \in Hands, Configure(h)
  PROVE  HandsInv'
<1> USE DEF HandsInv, TypeOK, Configure, CloseSession, env
<1>1. job' \in Job /\ job'.hand = h
  BY ModesAssumption DEF Job, Finds, Devices
<1>2. job'.pc = "open" => job'.port \in Ports /\ job'.id \in Devices
  BY ModesAssumption
<1>3. job.pc # "can_init" /\ job'.pc \notin {"confirm", "can_init"}
  BY ModesAssumption DEF Idle
<1>4. session' = [session EXCEPT ![h] = None]
  OBVIOUS
<1>5. TypeOK'
  <2>1. live' \in [Hands -> BOOLEAN] /\ steady' \subseteq Devices
    BY DEF CanBeOpened, Devices
  <2>2. slot' \in Hands \union {None} /\ started' \subseteq Hands
    OBVIOUS
  <2> QED
    BY <1>1, <1>4, <2>1, <2>2
<1>6. JobInv'
  BY <1>1, <1>2, <1>3, <1>4 DEF JobInv
<1>7. CallbacksGoHome'
  BY <1>3, <1>4, Names DEF CallbacksGoHome
<1> QED
  BY <1>5, <1>6, <1>7

\* Detection and choice go on with the same hand and touch no session.
LEMMA StepDetect ==
  ASSUME HandsInv, SdkDetect \/ SdkConfirm \/ ScanPort \/ Choose
  PROVE  /\ HandsInv'
         /\ UNCHANGED <<plugged, wanted, session, live>>
         /\ steady' \subseteq steady
         /\ job' # Idle => job'.hand = job.hand
<1> USE DEF HandsInv
<1>1. job # Idle
  <2>1. job.pc \in {"sdk", "confirm", "scan"}
    BY DEF SdkDetect, SdkConfirm, ScanPort, Choose
  <2> QED
    BY <2>1 DEF Idle
<1>2. job \in Job /\ job.hand \in Hands
  BY <1>1, RunningJob
<1>3. UNCHANGED <<mode, manual, plugged, wanted, session, live, slot, started>>
  BY DEF SdkDetect, SdkConfirm, ScanPort, Choose, env, link, can
<1>4. /\ job' \in Job \union {Idle}
      /\ job'.pc \in {"confirm", "scan", "open", "idle"}
      /\ job' # Idle =>
           /\ job'.hand = job.hand
           /\ job'.pc \in {"confirm", "open"} =>
                job'.port \in Ports /\ job'.id \in Devices
  <2>1. CASE SdkDetect
    BY <1>2, <2>1 DEF SdkDetect, TypeOK, Job, JobInv, Idle
  <2>2. CASE SdkConfirm
    <3> DEFINE scan == [job EXCEPT !.pc = "scan", !.todo = @ \ {job.port}]
    <3>1. scan \in Job /\ scan.pc = "scan" /\ scan.hand = job.hand
      BY <1>2 DEF Job
    <3>2. job.port \in Ports
      BY <2>2 DEF JobInv, SdkConfirm, Idle
    <3>3. \/ job' = scan
          \/ \E d \in Devices : job' = Classified(scan, job.port, d, job.id)
      BY <2>2 DEF SdkConfirm
    <3> HIDE DEF scan
    <3>4. ASSUME NEW d \in Devices, job' = Classified(scan, job.port, d, job.id)
          PROVE  job' \in Job /\ job'.pc = "scan" /\ job'.hand = job.hand
      <4>1. /\ Classified(scan, job.port, d, job.id) \in Job
            /\ Classified(scan, job.port, d, job.id).pc = scan.pc
            /\ Classified(scan, job.port, d, job.id).hand = scan.hand
        BY <3>1, <3>2, ClassifiedType
      <4> QED
        BY <3>1, <3>4, <4>1
    <3> QED
      BY <3>1, <3>3, <3>4
  <2>3. CASE ScanPort
    <3> DEFINE p == Min(job.todo)
               rest == [job EXCEPT !.todo = @ \ {p}]
    <3>1. p \in Ports
      BY <1>2, <2>3, NextPort DEF ScanPort, Job
    <3>2. rest \in Job /\ rest.pc = "scan" /\ rest.hand = job.hand
      BY <1>2, <2>3 DEF ScanPort, Job
    <3>3. job' = rest \/ \E d \in Devices : job' = Classified(rest, p, d, d)
      BY <2>3 DEF ScanPort
    <3> HIDE DEF p, rest
    <3>4. ASSUME NEW d \in Devices, job' = Classified(rest, p, d, d)
          PROVE  job' \in Job /\ job'.pc = "scan" /\ job'.hand = job.hand
      <4>1. /\ Classified(rest, p, d, d) \in Job
            /\ Classified(rest, p, d, d).pc = rest.pc
            /\ Classified(rest, p, d, d).hand = rest.hand
        BY <3>1, <3>2, ClassifiedType
      <4> QED
        BY <3>2, <3>4, <4>1
    <3> QED
      BY <3>2, <3>3, <3>4
  <2>4. CASE Choose
    <3> DEFINE chosen == IF job.match # Nothing THEN job.match ELSE job.other
    <3>1. chosen = Nothing \/ chosen \in Ports \X Devices
      BY <1>2 DEF Job, Finds
    <3>2. CASE chosen = Nothing
      BY <2>4, <3>2 DEF Choose, Refuse, Idle
    <3>3. CASE chosen # Nothing
      <4>1. chosen[1] \in Ports /\ chosen[2] \in Devices
        BY <3>1, <3>3
      <4>2. job' = [job EXCEPT !.pc = "open", !.port = chosen[1],
                               !.id = chosen[2]]
        BY <2>4, <3>3 DEF Choose
      <4> HIDE DEF chosen
      <4> QED
        BY <1>2, <4>1, <4>2 DEF Job
    <3> QED
      BY <3>2, <3>3
  <2> QED
    BY <2>1, <2>2, <2>3, <2>4
<1>5. steady' \subseteq steady
  BY DEF SdkDetect, SdkConfirm, ScanPort, Choose, Detect
<1>6. hwState' \in
        [Hands -> {"unconfigured", "inactive", "active", "finalized"}]
  BY <1>2 DEF SdkDetect, SdkConfirm, ScanPort, Choose, Refuse, TypeOK
<1>7. TypeOK'
  BY <1>3, <1>4, <1>5, <1>6 DEF TypeOK
<1>8. job.pc # "can_init" /\ job'.pc # "can_init"
  <2>1. job.pc # "can_init"
    BY DEF SdkDetect, SdkConfirm, ScanPort, Choose
  <2>2. job'.pc \in {"confirm", "scan", "open", "idle"}
    BY <1>4
  <2> QED
    BY <2>1, <2>2
<1>9. JobInv' /\ CallbacksGoHome'
  BY <1>1, <1>3, <1>4, <1>8 DEF JobInv, CallbacksGoHome
<1> QED
  BY <1>3, <1>4, <1>5, <1>7, <1>9

\* The adapter and the callbacks are taken for the session that is being opened.
LEMMA StepOpenCan ==
  ASSUME HandsInv, OpenCan
  PROVE  HandsInv' /\ job'.pc = "can_init"
<1> USE DEF HandsInv, OpenCan, link
<1>1. job \in Job /\ job.hand \in Hands /\ session[job.hand] = None
  BY RunningJob DEF Idle, JobInv
<1>2. job' \in Job /\ job'.hand = job.hand /\ job'.pc = "can_init"
  BY <1>1 DEF Job
<1>3. TypeOK'
  BY <1>1, <1>2 DEF TypeOK, env
<1>4. JobInv'
  BY <1>1, <1>2 DEF JobInv
<1>5. CallbacksGoHome'
  BY <1>1, <1>2, Names DEF CallbacksGoHome
<1> QED
  BY <1>2, <1>3, <1>4, <1>5

\* open() of either session ends the job: the callbacks stay with a session that
\* comes up and are given back when the adapter cannot be initialized.
LEMMA StepOpen ==
  ASSUME HandsInv, OpenPort \/ OpenCanFails \/ CanInit
  PROVE  HandsInv' /\ job' = Idle
<1> USE DEF HandsInv
<1>1. job \in Job /\ job.hand \in Hands /\ session[job.hand] = None
  BY RunningJob DEF OpenPort, OpenCanFails, CanInit, Idle, JobInv
<1>2. job' = Idle /\ job'.pc # "can_init"
  BY DEF OpenPort, OpenCanFails, CanInit, Refuse, CanReady, Idle
<1>3. TypeOK'
  <2>1. CASE OpenPort
    <3>1. job.port \in Ports /\ job.id \in Devices
      BY <2>1 DEF JobInv, OpenPort, Idle
    <3> QED
      BY <1>1, <1>2, <2>1, <3>1
         DEF TypeOK, OpenPort, Refuse, env, can, link
  <2>2. CASE OpenCanFails
    BY <1>1, <1>2, <2>2 DEF TypeOK, OpenCanFails, Refuse, env, link, can
  <2>3. CASE CanInit
    BY <1>1, <1>2, <2>3
       DEF TypeOK, CanInit, CanReady, CloseSession, Refuse, env, can
  <2> QED
    BY <2>1, <2>2, <2>3
<1>4. CallbacksGoHome'
  <2>1. CASE OpenPort
    <3>1. job.port \in Ports /\ job.pc # "can_init"
      BY <2>1 DEF JobInv, OpenPort, Idle
    <3> QED
      BY <1>1, <1>2, <2>1, <3>1, Names
         DEF TypeOK, CallbacksGoHome, OpenPort, Refuse, can, link
  <2>2. CASE OpenCanFails
    BY <1>2, <2>2 DEF CallbacksGoHome, OpenCanFails, link, can
  <2>3. CASE CanInit
    <3>1. \A h \in Hands : h = job.hand <=> slot = h
      BY <1>1, <2>3, Names DEF CanInit, CallbacksGoHome, TypeOK
    <3>2. started = {job.hand}
      BY <1>1, <2>3, <3>1, Names DEF CanInit, CallbacksGoHome, TypeOK
    <3>3. \A h \in Hands : session[h] # Can
      BY <1>1, <2>3, <3>1, Names DEF CanInit, CallbacksGoHome, TypeOK
    <3>4. CASE CanReady(job.hand)
      BY <1>1, <1>2, <3>1, <3>2, <3>3, <3>4, Names
         DEF TypeOK, CallbacksGoHome, CanReady, can
    <3>5. CASE CloseSession(job.hand)
      BY <1>1, <1>2, <3>1, <3>2, <3>3, <3>5, Names
         DEF TypeOK, CallbacksGoHome, CloseSession
    <3> QED
      BY <2>3, <3>4, <3>5 DEF CanInit
  <2> QED
    BY <2>1, <2>2, <2>3
<1> QED
  BY <1>2, <1>3, <1>4 DEF JobInv

\* The other handlers run while no open() does, or leave the sessions alone.
LEMMA StepHandler ==
  ASSUME HandsInv, NEW h \in Hands,
         Activate(h) \/ Deactivate(h) \/ Cleanup(h) \/ ReadFails(h)
  PROVE  HandsInv'
<1> USE DEF HandsInv
<1>1. CASE Activate(h) \/ Deactivate(h) \/ ReadFails(h)
  <2>1. job' = job /\ UNCHANGED <<env, link, can, steady>>
    BY <1>1 DEF Activate, Deactivate, ReadFails, Refuse, Error, open
  <2>2. hwState' \in
          [Hands -> {"unconfigured", "inactive", "active", "finalized"}]
    BY <1>1 DEF Activate, Deactivate, ReadFails, Refuse, Error, TypeOK
  <2> QED
    BY <2>1, <2>2 DEF TypeOK, JobInv, CallbacksGoHome, env, link, can
<1>2. CASE Cleanup(h)
  <2>1. TypeOK'
    BY <1>2 DEF TypeOK, Cleanup, CloseSession, env, open
  <2>2. job = Idle /\ job' = Idle /\ job.pc # "can_init"
    BY <1>2 DEF Cleanup, open, Idle
  <2>3. CallbacksGoHome'
    BY <1>2, <2>2, Names DEF TypeOK, CallbacksGoHome, Cleanup, CloseSession
  <2> QED
    BY <2>1, <2>2, <2>3 DEF JobInv
<1> QED
  BY <1>1, <1>2

\* Plugging changes neither sessions nor callbacks.
LEMMA StepPlug ==
  ASSUME HandsInv,
         \/ \E p \in Ports : Unplug(p) \/ \E d \in Devices : Plug(p, d)
         \/ UnplugAdapter
  PROVE  HandsInv'
<1> USE DEF HandsInv
<1>1. UNCHANGED <<session, slot, started, job>>
  BY DEF Unplug, Plug, UnplugAdapter, link, can, open
<1>2. TypeOK'
  <2>1. CASE \E p \in Ports : Unplug(p)
    BY <2>1 DEF TypeOK, Unplug, can
  <2>2. CASE \E p \in Ports, d \in Devices : Plug(p, d)
    BY <2>2 DEF TypeOK, Plug, link, can, open
  <2>3. CASE UnplugAdapter
    BY <2>3 DEF TypeOK, UnplugAdapter, env, can, open
  <2> QED
    BY <2>1, <2>2, <2>3
<1>3. JobInv' /\ CallbacksGoHome'
  BY <1>1 DEF JobInv, CallbacksGoHome
<1> QED
  BY <1>2, <1>3

\* Every step preserves the inductive invariant.
LEMMA StepHands ==
  ASSUME HandsInv, [Next]_vars
  PROVE  HandsInv'
<1>1. CASE UNCHANGED vars
  BY <1>1 DEF HandsInv, TypeOK, JobInv, CallbacksGoHome, vars, env, link, can,
              open
<1> QED
  BY <1>1, StepConfigure, StepDetect, StepOpenCan, StepOpen, StepHandler,
     StepPlug DEF Next

\* The inductive invariant holds.
LEMMA HandsInvariant == Spec => []HandsInv
<1>1. HandsInv /\ [Next]_vars => HandsInv'
  BY StepHands
<1> QED
  BY InitHands, <1>1, PTL DEF Spec

\* Every variable keeps its type, the record of a running detection included.
THEOREM HandTypes == Spec => []TypeOK
<1>1. HandsInv => TypeOK
  BY DEF HandsInv
<1> QED
  BY HandsInvariant, <1>1, PTL

\* The SDK's global callbacks belong to the session that is open or being
\* opened, and nothing of a CAN FD session that failed or was closed stays
\* behind, for any number of hands.
THEOREM CallbacksAreHome == Spec => []CallbacksGoHome
<1>1. HandsInv => CallbacksGoHome
  BY DEF HandsInv
<1> QED
  BY HandsInvariant, <1>1, PTL

-----------------------------------------------------------------------------
(***************************************************************************)
(* The device that was asked for.                                          *)
(***************************************************************************)

\* The list of ports that open() makes holds every device that can be found.
LEMMA SearchConfigure ==
  ASSUME HandsInv, NEW h \in Hands, Configure(h)
  PROVE  SearchInv'
<1> USE DEF HandsInv, TypeOK, Configure, CloseSession, env
<1>1. /\ job'.hand = h
      /\ job'.match = Nothing
      /\ job'.pc \in {"sdk", "open", "can_open"}
      /\ job'.pc = "open" => job'.id = wanted[h]
      /\ job'.todo = {p \in Ports : plugged[p] # None}
  BY ModesAssumption
<1>2. UNCHANGED <<wanted, plugged>>
  OBVIOUS
<1>3. ASSUME wanted[h] \in steady'
      PROVE  Findable(Asked, job.todo)'
  <2>1. PICK q \in Ports : CanBeOpened(q) /\ plugged[q] = wanted[h]
    BY <1>3
  <2>2. CanBeOpened(q)'
    <3>1. q # None
      BY <2>1, Names
    <3> QED
      BY <2>1, <3>1 DEF CanBeOpened
  <2>3. q \in job'.todo
    BY <1>1, <2>1 DEF CanBeOpened
  <2> QED
    BY <1>1, <1>2, <2>1, <2>2, <2>3 DEF Findable, Asked
<1> QED
  BY <1>1, <1>2, <1>3 DEF SearchInv, Asked

\* The SDK looks at a port as it is.
LEMMA SearchSdk ==
  ASSUME HandsInv, SearchInv, SdkDetect
  PROVE  SearchInv'
<1>1. job \in Job /\ job # Idle /\ job.pc = "sdk"
  <2>1. job # Idle
    <3>1. job.pc = "sdk"
      BY DEF SdkDetect
    <3> QED
      BY <3>1 DEF Idle
  <2> QED
    BY <2>1, RunningJob DEF HandsInv, SdkDetect
<1>2. UNCHANGED <<plugged, wanted, session, live, steady>>
  BY DEF SdkDetect, env, link
<1>3. /\ job'.pc \in {"confirm", "scan"}
      /\ job'.hand = job.hand /\ job'.todo = job.todo /\ job'.match = job.match
      /\ job'.pc = "confirm" => job'.id = plugged[job'.port]
  BY <1>1 DEF SdkDetect, Job
<1>4. Asked' = Asked /\ Findable(Asked, job.todo)' = Findable(Asked, job.todo)
  BY <1>2, <1>3 DEF Asked, Findable, CanBeOpened
<1> QED
  BY <1>1, <1>2, <1>3, <1>4 DEF SearchInv, Asked, Findable, CanBeOpened

\* The port that the SDK found is filed under the slave_id that was found first:
\* as the device that was asked for only if it is that device.
LEMMA SearchConfirm ==
  ASSUME HandsInv, SearchInv, SdkConfirm
  PROVE  SearchInv'
<1> DEFINE scan == [job EXCEPT !.pc = "scan", !.todo = @ \ {job.port}]
<1>1. job \in Job /\ job # Idle /\ job.pc = "confirm"
  <2>1. job # Idle
    BY DEF SdkConfirm, Idle
  <2> QED
    BY <2>1, RunningJob DEF HandsInv, SdkConfirm
<1>2. job.port \in Ports
  BY <1>1 DEF HandsInv, JobInv
<1>3. UNCHANGED <<plugged, wanted, session, live>> /\ steady' \subseteq steady
  BY StepDetect
<1>4. /\ scan \in Job /\ scan.pc = "scan" /\ scan.hand = job.hand
      /\ scan.todo = job.todo \ {job.port} /\ scan.match = job.match
  BY <1>1 DEF Job
<1>5. \/ ~CanBeOpened(job.port) /\ job' = scan
      \/ /\ job' = scan
         /\ plugged[job.port] = None \/ steady' = steady \ {plugged[job.port]}
      \/ \E d \in Devices : /\ plugged[job.port] = d
                            /\ job' = Classified(scan, job.port, d, job.id)
  BY <1>2, Names DEF SdkConfirm, Detect, Devices
<1> HIDE DEF scan
<1>6. \A d \in Devices :
        LET j == Classified(scan, job.port, d, job.id)
        IN  /\ j \in Job /\ j.pc = "scan" /\ j.hand = job.hand
            /\ j.todo = job.todo \ {job.port}
            /\ j.match = IF job.id = Asked /\ job.match = Nothing
                         THEN <<job.port, d>> ELSE job.match
  BY <1>2, <1>4, ClassifiedType, ClassifiedMatch DEF Asked
<1>7. job'.pc = "scan" /\ job'.hand = job.hand
  BY <1>4, <1>5, <1>6
<1>8. ASSUME Asked' \in steady'
      PROVE  IF job'.match = Nothing THEN Findable(Asked, job.todo)'
             ELSE job'.match[2] = Asked'
  <2>1. Asked' = Asked /\ Asked \in Devices /\ Asked # None /\ Asked \in steady
    BY <1>1, <1>3, <1>7, <1>8, Names DEF Asked, HandsInv, TypeOK, Devices, Job
  <2>2. /\ job.match = Nothing /\ Findable(Asked, job.todo)
        /\ job.id = Asked <=> plugged[job.port] = Asked
    BY <1>1, <2>1 DEF SearchInv
  <2>3. CASE plugged[job.port] # Asked
    <3>1. job'.match = Nothing
      BY <1>4, <1>5, <1>6, <2>2, <2>3
    <3>2. job'.todo = job.todo \ {job.port}
      BY <1>4, <1>5, <1>6
    <3>3. PICK q \in job.todo : plugged[q] = Asked /\ CanBeOpened(q)
      BY <2>2 DEF Findable
    <3>4. q \in job'.todo
      BY <2>3, <3>2, <3>3
    <3>5. plugged'[q] = Asked' /\ CanBeOpened(q)'
      BY <1>3, <2>1, <3>3 DEF CanBeOpened
    <3> QED
      BY <2>1, <3>1, <3>4, <3>5 DEF Findable
  <2>4. CASE plugged[job.port] = Asked
    <3>1. CASE CanBeOpened(job.port)
      <4>1. job' = Classified(scan, job.port, Asked, job.id)
        BY <1>5, <1>8, <2>1, <2>4, <3>1
      <4>2. job'.match = <<job.port, Asked>>
        BY <1>6, <2>1, <2>2, <2>4, <4>1
      <4> QED
        BY <2>1, <4>2 DEF Nothing
    <3>2. CASE ~CanBeOpened(job.port)
      <4>1. job' = scan
        BY <3>2 DEF SdkConfirm, scan
      <4>2. PICK q \in job.todo : plugged[q] = Asked /\ CanBeOpened(q)
        BY <2>2 DEF Findable
      <4>3. q \in job'.todo /\ job'.match = Nothing
        BY <1>4, <2>2, <3>2, <4>1, <4>2
      <4>4. plugged'[q] = Asked' /\ CanBeOpened(q)'
        BY <1>3, <2>1, <4>2 DEF CanBeOpened
      <4> QED
        BY <2>1, <4>3, <4>4 DEF Findable
    <3> QED
      BY <3>1, <3>2
  <2> QED
    BY <2>3, <2>4
<1> QED
  BY <1>7, <1>8 DEF SearchInv

\* A port leaves the list when it is scanned: either the device that was asked
\* for is not there, or it is found, or it failed to answer.
LEMMA SearchScan ==
  ASSUME HandsInv, SearchInv, ScanPort
  PROVE  SearchInv'
<1> DEFINE p == Min(job.todo)
           rest == [job EXCEPT !.todo = @ \ {p}]
<1>1. job \in Job /\ job # Idle /\ job.pc = "scan"
  <2>1. job # Idle
    BY DEF ScanPort, Idle
  <2> QED
    BY <2>1, RunningJob DEF HandsInv, ScanPort
<1>2. p \in Ports
  BY <1>1, NextPort DEF ScanPort, Job
<1>3. UNCHANGED <<plugged, wanted, session, live>> /\ steady' \subseteq steady
  BY StepDetect
<1>4. /\ rest \in Job /\ rest.pc = "scan" /\ rest.hand = job.hand
      /\ rest.todo = job.todo \ {p} /\ rest.match = job.match
  BY <1>1 DEF Job
<1>5. \/ ~CanBeOpened(p) /\ job' = rest
      \/ /\ job' = rest
         /\ plugged[p] = None \/ steady' = steady \ {plugged[p]}
      \/ \E d \in Devices : plugged[p] = d /\ job' = Classified(rest, p, d, d)
  BY <1>2, Names DEF ScanPort, Detect, Devices
<1> HIDE DEF p, rest
<1>6. \A d \in Devices :
        LET j == Classified(rest, p, d, d)
        IN  /\ j \in Job /\ j.pc = "scan" /\ j.hand = job.hand
            /\ j.todo = job.todo \ {p}
            /\ j.match = IF d = Asked /\ job.match = Nothing THEN <<p, d>>
                         ELSE job.match
  BY <1>2, <1>4, ClassifiedType, ClassifiedMatch DEF Asked
<1>7. job'.pc = "scan" /\ job'.hand = job.hand /\ job'.todo = job.todo \ {p}
  BY <1>4, <1>5, <1>6
<1>8. ASSUME Asked' \in steady'
      PROVE  IF job'.match = Nothing THEN Findable(Asked, job.todo)'
             ELSE job'.match[2] = Asked'
  <2>1. Asked' = Asked /\ Asked \in Devices /\ Asked # None /\ Asked \in steady
    BY <1>1, <1>3, <1>7, <1>8, Names DEF Asked, HandsInv, TypeOK, Devices, Job
  <2>2. IF job.match = Nothing THEN Findable(Asked, job.todo)
        ELSE job.match[2] = Asked
    BY <1>1, <2>1 DEF SearchInv
  <2>3. CASE job.match # Nothing
    <3>1. job'.match = job.match
      BY <1>4, <1>5, <1>6, <2>3
    <3> QED
      BY <2>1, <2>2, <2>3, <3>1
  <2>4. CASE job.match = Nothing
    <3>1. PICK q \in job.todo : plugged[q] = Asked /\ CanBeOpened(q)
      BY <2>2, <2>4 DEF Findable
    <3>2. plugged'[q] = Asked' /\ CanBeOpened(q)'
      BY <1>3, <2>1, <3>1 DEF CanBeOpened
    <3>3. CASE q = p
      <4>1. job' = Classified(rest, p, Asked, Asked)
        BY <1>5, <1>8, <2>1, <3>1, <3>3
      <4>2. job'.match = <<p, Asked>>
        BY <1>6, <2>1, <2>4, <4>1
      <4> QED
        BY <2>1, <4>2 DEF Nothing
    <3>4. CASE q # p
      <4>1. q \in job'.todo
        BY <1>7, <3>1, <3>4
      <4>2. Findable(Asked, job.todo)'
        BY <2>1, <3>2, <4>1 DEF Findable
      <4>3. job'.match = Nothing \/ job'.match[2] = Asked
        <5>1. \/ job'.match = Nothing
              \/ \E d \in Devices : d = Asked /\ job'.match = <<p, d>>
          BY <1>4, <1>5, <1>6, <2>4
        <5> QED
          BY <5>1
      <4> QED
        BY <2>1, <4>2, <4>3
    <3> QED
      BY <3>3, <3>4
  <2> QED
    BY <2>3, <2>4
<1> QED
  BY <1>7, <1>8 DEF SearchInv

\* When the list is exhausted the device that was asked for has been found.
LEMMA SearchChoose ==
  ASSUME HandsInv, SearchInv, Choose
  PROVE  SearchInv'
<1>1. job \in Job /\ job # Idle /\ job.pc = "scan" /\ job.todo = {}
  <2>1. job # Idle
    BY DEF Choose, Idle
  <2> QED
    BY <2>1, RunningJob DEF HandsInv, Choose
<1>2. UNCHANGED <<wanted, steady>>
  BY DEF Choose, env, link
<1>3. CASE job' = Idle
  BY <1>3 DEF SearchInv
<1>4. CASE job' # Idle
  <2>1. job'.hand = job.hand /\ job'.pc = "open"
    BY <1>1, <1>4 DEF Choose, Refuse, Job
  <2>2. job.match # Nothing => job'.id = job.match[2]
    BY <1>1, <1>4 DEF Choose, Refuse, Job
  <2>3. ~Findable(Asked, job.todo)
    BY <1>1 DEF Findable
  <2> QED
    BY <1>1, <1>2, <2>1, <2>2, <2>3 DEF SearchInv, Asked
<1> QED
  BY <1>3, <1>4

\* Meanwhile devices are plugged and unplugged.
LEMMA SearchPlug ==
  ASSUME HandsInv, SearchInv,
         \/ \E p \in Ports : Unplug(p) \/ \E d \in Devices : Plug(p, d)
         \/ UnplugAdapter
  PROVE  SearchInv'
<1> SUFFICES ASSUME job # Idle, Asked \in steady'
             PROVE  SearchInv'
  BY DEF SearchInv, Asked, Unplug, Plug, UnplugAdapter, link, open
<1>1. /\ UNCHANGED <<job, session, wanted>> /\ steady' \subseteq steady
      /\ \A h \in Hands : live'[h] => live[h]
  BY DEF Unplug, Plug, UnplugAdapter, link, open, HandsInv, TypeOK
<1>2. Asked' = Asked /\ Asked \in steady
  BY <1>1 DEF Asked
<1>3. job \in Job /\ Asked \in Devices /\ Asked # None
  BY RunningJob, Names DEF HandsInv, TypeOK, Asked, Devices
<1>4. \A q \in Ports : plugged[q] = Asked => plugged'[q] = Asked
  BY <1>3 DEF Unplug, Plug, UnplugAdapter, env, HandsInv, TypeOK
<1>5. \A T \in SUBSET Ports : Findable(Asked, T) => Findable(Asked, T)'
  <2> SUFFICES ASSUME NEW T \in SUBSET Ports, Findable(Asked, T)
               PROVE  Findable(Asked, T)'
    OBVIOUS
  <2>1. PICK q \in T : plugged[q] = Asked /\ CanBeOpened(q)
    BY DEF Findable
  <2>2. plugged'[q] = Asked /\ CanBeOpened(q)'
    BY <1>1, <1>3, <1>4, <2>1 DEF CanBeOpened
  <2> QED
    BY <1>2, <2>2 DEF Findable
<1>6. job.todo \in SUBSET Ports
  BY <1>3 DEF Job
<1>7. ASSUME job.pc = "confirm"
      PROVE  plugged[job.port] = Asked <=> plugged'[job.port] = Asked
  <2>1. job.port \in Ports
    BY <1>7 DEF HandsInv, JobInv
  <2>2. PICK q \in Ports : plugged[q] = Asked
    BY <1>2, <1>6, <1>7 DEF SearchInv, Findable
  <2>3. plugged'[job.port] = Asked => plugged[job.port] = Asked
    BY <1>3, <2>1, <2>2
       DEF Unplug, Plug, UnplugAdapter, env, HandsInv, TypeOK
  <2> QED
    BY <1>4, <2>1, <2>3
<1> QED
  BY <1>1, <1>2, <1>5, <1>6, <1>7 DEF SearchInv

\* Every step preserves what is known about the search.
LEMMA StepSearch ==
  ASSUME HandsInv, SearchInv, [Next]_vars
  PROVE  SearchInv'
<1>1. CASE UNCHANGED vars
  BY <1>1 DEF SearchInv, Asked, Findable, CanBeOpened, vars, env, link, can,
              open
<1>2. CASE OpenPort \/ OpenCanFails \/ CanInit
  BY <1>2, StepOpen DEF SearchInv
<1>3. CASE OpenCan
  BY <1>3, StepOpenCan DEF SearchInv
<1>4. CASE \E h \in Hands : Activate(h) \/ Deactivate(h) \/ ReadFails(h)
  BY <1>4 DEF Activate, Deactivate, ReadFails, Refuse, Error, SearchInv, Asked,
              Findable, CanBeOpened, env, link, can, open
<1>5. CASE \E h \in Hands : Cleanup(h)
  BY <1>5 DEF Cleanup, SearchInv, open
<1> QED
  BY <1>1, <1>2, <1>3, <1>4, <1>5, SearchConfigure, SearchSdk, SearchConfirm,
     SearchScan, SearchChoose, SearchPlug DEF Next

\* A session is opened on another device than the one that was asked for only if
\* that one could not be found at some moment of the detection: the order of any
\* number of ports, what the SDK finds first and what is plugged meanwhile do
\* not matter.
THEOREM FoundWhenAskedFor == Spec => AskedForIsFound
<1> DEFINE Inv == HandsInv /\ SearchInv
           Kept == \A h \in Hands :
                     wanted'[h] # wanted[h] => wanted[h] \notin steady
<1>1. Init => Inv
  BY InitHands DEF Init, SearchInv
<1>2. Inv /\ [Next]_vars => Inv'
  BY StepHands, StepSearch
<1>3. Inv /\ [Next]_vars => [Kept]_vars
  <2> SUFFICES ASSUME Inv, Next, NEW h \in Hands, wanted'[h] # wanted[h]
               PROVE  wanted[h] \notin steady
    BY DEF vars
  <2>1. OpenPort
    BY DEF Next, Configure, Activate, Deactivate, Cleanup, ReadFails, Error,
           SdkDetect, SdkConfirm, ScanPort, Choose, OpenCanFails, OpenCan,
           CanInit, Unplug, Plug, UnplugAdapter, link
  <2>2. job # Idle /\ job.pc = "open"
    BY <2>1 DEF OpenPort, Idle
  <2>3. wanted' = [wanted EXCEPT ![job.hand] = job.id]
    BY <2>1 DEF OpenPort, link
  <2>4. h = job.hand /\ job.id # wanted[h]
    BY <2>2, <2>3, RunningJob DEF HandsInv, TypeOK
  <2> QED
    BY <2>2, <2>4 DEF SearchInv, Asked
<1> QED
  BY <1>1, <1>2, <1>3, PTL DEF Spec, AskedForIsFound
===============================================================================
