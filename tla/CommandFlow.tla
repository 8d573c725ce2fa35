----------------------------- MODULE CommandFlow -----------------------------
(***************************************************************************)
(* What one joint of an EtherCAT hand is told to do, from on_activate() on. *)
(*                                                                         *)
(* A position travels                                                      *)
(*   controller -> hw_joint_commands_ -> agg_joint_commands_ -> RxPDO      *)
(*   -> frame -> slave                                                     *)
(* and back                                                                *)
(*   slave -> frame -> TxPDO -> agg_joint_states_ -> hw_joint_states_.      *)
(* processData() writes the RxPDO before it reads the TxPDO of the same     *)
(* pass, so a fallback to the state uses the state of the pass before.      *)
(* The threads and the mutex are EthercatDriver's subject: here read() and  *)
(* write() may be skipped or find the bus offline at any time.  The first   *)
(* session is modelled; EthercatDriver shows that a second one runs on      *)
(* released memory.                                                        *)
(*                                                                         *)
(* Positions are in the slave's own units: degrees when it is in physical   *)
(* mode, 1..Full when it is in permille mode.                               *)
(***************************************************************************)
EXTENDS Integers

CONSTANTS
  Physical,     \* is_physical_mode_, as read from the slave's register
  Full,         \* the largest position
  SafeOpFrames  \* replies in a row a slave gives in SAFEOP before it enters OP

ASSUME PhysicalAssumption == Physical \in BOOLEAN
ASSUME FullAssumption == Full \in Nat \ {0}
ASSUME SafeOpFramesAssumption == SafeOpFrames \in Nat

\* What a slave can measure; permille starts at 1.
Measurable == IF Physical THEN 0..Full ELSE 1..Full

\* What the bytes and the buffers can hold: a fresh image is 0, and nothing
\* keeps a controller from asking for more than the slave can do.
Raw == 0..(Full + 1)

\* NaN in a buffer of doubles, and "no frame", "no target": not positions.
NaN  == -1
None == -2

VARIABLES
  phase,   \* idle, startup, running, failed or released
  rtPc,    \* which of read() and write() the control loop calls next
  aggCmd, aggState, \* agg_joint_commands_, agg_joint_states_
  hwCmd,   \* hw_joint_commands_
  image,   \* the TxPDO bytes of the domain's process image
  frame,   \* the RxPDO bytes of the last frame that was sent
  wire,    \* the slave's answer to it, until it is received
  opSeen,  \* initialized(): the slave was operational when last sampled
  al, pos, latched, target, \* the slave: state, position, output, motion
  settled, \* answers received in a row while the slave was in SAFEOP
  reported, given  \* history: positions received, commands of this session

buffers == <<aggCmd, aggState, hwCmd>>
slave   == <<al, pos, latched, target>>
history == <<reported, given>>
vars    == <<phase, rtPc, buffers, image, frame, wire, opSeen, slave,
             settled, history>>

Phases == {"idle", "startup", "running", "failed", "released"}

TypeOK ==
  /\ phase \in Phases
  /\ rtPc \in {"read", "write"}
  /\ aggCmd \in Raw \union {NaN}
  /\ aggState \in Raw \union {NaN}
  /\ hwCmd \in Raw \union {NaN}
  /\ image \in Raw
  /\ frame \in Raw \union {None}
  /\ wire \in Raw \union {None}
  /\ opSeen \in BOOLEAN
  /\ al \in {"init", "safeop", "op"}
  /\ pos \in Raw
  /\ latched \in Raw \union {None}
  /\ target \in Raw \union {None}
  /\ settled \in 0..SafeOpFrames
  /\ reported \subseteq Raw
  /\ given \subseteq Raw

-----------------------------------------------------------------------------
\* raw_out of a finite command: rounded degrees, or permille clamped to 1..Full.
Encode(x) ==
  LET raised == IF x < 1 THEN 1 ELSE x
  IN  IF Physical THEN x ELSE IF raised > Full THEN Full ELSE raised

\* Mutant of Encodings: a NaN passes the conversion.
EncodingsOfNaN(x) == IF x = NaN THEN {NaN} ELSE {Encode(x)}

\* What casting a NaN to int16_t yields is left to the build.
Encodings(x) == IF x = NaN THEN Raw ELSE {Encode(x)}

Init ==
  /\ phase = "idle"
  /\ rtPc = "read"
  /\ aggCmd = NaN /\ aggState = NaN /\ hwCmd = NaN
  /\ image = 0
  /\ frame = None /\ wire = None
  /\ opSeen = FALSE
  /\ al = "init"
  /\ pos \in Measurable
  /\ latched = None /\ target = None
  /\ settled = 0
  /\ reported = {} /\ given = {}

-----------------------------------------------------------------------------
(***************************************************************************)
(* The master.                                                             *)
(***************************************************************************)

\* ecrt_master_receive() and ecrt_domain_process(): the answer is there, or it
\* is late or lost and the image keeps what it had.
Receive(arrives) ==
  IF arrives
  THEN /\ wire # None
       /\ image' = wire
       /\ reported' = reported \union {wire}
       /\ settled' = IF al = "safeop" /\ settled < SafeOpFrames
                     THEN settled + 1 ELSE settled
  ELSE /\ settled' = 0
       /\ UNCHANGED <<image, reported>>

\* readData(): received, not sent.  An answer that is late stays under way.
ReadData ==
  /\ \E arrives \in BOOLEAN :
       /\ Receive(arrives)
       /\ wire' = IF arrives THEN None ELSE wire
  /\ aggState' = image'

\* Mutant of Fallback: a command that is not finite goes out as 0.
FallbackToZero(cmd, state) == IF cmd = NaN THEN 0 ELSE cmd

\* RxPDO channel 1: a command that is not finite is replaced by the state.
Fallback(cmd, state) == IF cmd = NaN THEN state ELSE cmd

\* Sending a frame with output x.  It may be lost; a slave that is not in
\* SAFEOP or OP lets it pass unchanged.
Send(x) ==
  /\ frame' = x
  /\ \/ /\ wire' = None
        /\ UNCHANGED <<latched, target>>
     \/ /\ al \in {"safeop", "op"}
        /\ wire' = pos
        /\ latched' = x
        /\ target' = IF al = "op" THEN x ELSE target
  /\ UNCHANGED <<al, pos>>

\* on_activate(): the master is active, nothing has been exchanged.
Activate ==
  /\ phase = "idle"
  /\ phase' = "startup"
  /\ UNCHANGED <<rtPc, buffers, image, frame, wire, opSeen, slave, settled,
                 history>>

\* Mutant of StartupCycle: the loop ends after its first update().
StartupCycleOnce ==
  /\ phase = "startup" /\ ~opSeen
  /\ \E arrives \in BOOLEAN : Receive(arrives)
  /\ \E x \in Encodings(Fallback(aggCmd, aggState)) : Send(x)
  /\ aggState' = image'
  /\ opSeen' = TRUE
  /\ phase' \in {"startup", "failed"}
  /\ UNCHANGED <<rtPc, aggCmd, hwCmd, given>>

\* One turn of the startup loop: receive, sample the slave (or not, the state
\* is sampled every tenth cycle), outputs, inputs, send.  The timeout is tested
\* after that, and wins.
StartupCycle ==
  /\ phase = "startup" /\ ~opSeen
  /\ \E arrives \in BOOLEAN : Receive(arrives)
  /\ \E x \in Encodings(Fallback(aggCmd, aggState)) : Send(x)
  /\ aggState' = image'
  /\ opSeen' \in {FALSE, al = "op"}
  /\ phase' \in {"startup", "failed"}
  /\ UNCHANGED <<rtPc, aggCmd, hwCmd, given>>

\* Mutant of FinishActivate: the commands are left as they are.
FinishKeepsCommands ==
  /\ phase = "startup" /\ opSeen
  /\ ReadData
  /\ phase' = "running"
  /\ UNCHANGED <<rtPc, aggCmd, hwCmd, frame, opSeen, slave, given>>

\* The end of on_activate(): one readData(), whose answer may still be under
\* way, then every command is set to its state.
FinishActivate ==
  /\ phase = "startup" /\ opSeen
  /\ ReadData
  /\ hwCmd' = image'
  /\ aggCmd' = image'
  /\ phase' = "running"
  /\ UNCHANGED <<rtPc, frame, opSeen, slave, given>>

-----------------------------------------------------------------------------
(***************************************************************************)
(* The control loop and the controllers.                                   *)
(***************************************************************************)

\* A controller writes its command interface, with NaN when it has none.  It
\* can hold the interface before and while the hardware is activated.
Command(c) ==
  /\ phase \in {"idle", "startup", "running"}
  /\ hwCmd' = c
  /\ given' = IF phase = "running" /\ c # NaN
              THEN given \union {Encode(c)} ELSE given
  /\ UNCHANGED <<phase, rtPc, aggCmd, aggState, image, frame, wire, opSeen,
                 slave, settled, reported>>

\* readData() and the copy of the states.
Read ==
  /\ phase = "running" /\ rtPc = "read"
  /\ ReadData
  /\ rtPc' = "write"
  /\ UNCHANGED <<phase, aggCmd, hwCmd, frame, opSeen, slave, given>>

\* Mutant of Write: the aggregated command is not refreshed.
WriteWithoutCopy ==
  /\ phase = "running" /\ rtPc = "write"
  /\ \E x \in Encodings(Fallback(aggCmd, aggState)) : Send(x)
  /\ aggState' = image
  /\ rtPc' = "read"
  /\ UNCHANGED <<phase, aggCmd, hwCmd, image, opSeen, settled, history>>

\* The commands are collected and writeData() sends them.
Write ==
  /\ phase = "running" /\ rtPc = "write"
  /\ aggCmd' = Fallback(hwCmd, aggState)
  /\ \E x \in Encodings(Fallback(aggCmd', aggState)) : Send(x)
  /\ aggState' = image
  /\ rtPc' = "read"
  /\ UNCHANGED <<phase, hwCmd, image, opSeen, settled, history>>

\* try_lock failed: nothing is exchanged in this call.
Skip ==
  /\ phase = "running"
  /\ rtPc' = IF rtPc = "read" THEN "write" ELSE "read"
  /\ UNCHANGED <<phase, buffers, image, frame, wire, opSeen, slave, settled,
                 history>>

\* The bus is released, by on_deactivate() or by the health thread.
Released ==
  /\ phase = "running"
  /\ phase' = "released"
  /\ al' = "init"
  /\ latched' = None /\ target' = None
  /\ UNCHANGED <<rtPc, buffers, image, frame, wire, opSeen, pos, settled,
                 history>>

-----------------------------------------------------------------------------
(***************************************************************************)
(* The slave, as the master configures it.                                 *)
(***************************************************************************)

EnterSafeOp ==
  /\ phase \in {"startup", "running"} /\ al = "init"
  /\ al' = "safeop"
  /\ settled' = 0
  /\ UNCHANGED <<phase, rtPc, buffers, image, frame, wire, opSeen, pos,
                 latched, target, history>>

\* The master takes several cycles to bring a slave from SAFEOP to OP; then it
\* moves to the output it has latched.
EnterOp ==
  /\ phase \in {"startup", "running"} /\ al = "safeop"
  /\ settled = SafeOpFrames
  /\ al' = "op"
  /\ target' = latched
  /\ UNCHANGED <<phase, rtPc, buffers, image, frame, wire, opSeen, pos,
                 latched, settled, history>>

\* Power or link are lost.
Drop ==
  /\ al # "init"
  /\ al' = "init"
  /\ latched' = None /\ target' = None
  /\ UNCHANGED <<phase, rtPc, buffers, image, frame, wire, opSeen, pos,
                 settled, history>>

\* The finger moves, on its own or because something moves it.
Move ==
  /\ pos' \in Measurable \ {pos}
  /\ UNCHANGED <<phase, rtPc, buffers, image, frame, wire, opSeen, al,
                 latched, target, settled, history>>

Next ==
  \/ Activate \/ StartupCycle \/ FinishActivate
  \/ \E c \in Raw \union {NaN} : Command(c)
  \/ Read \/ Write \/ Skip \/ Released
  \/ EnterSafeOp \/ EnterOp \/ Drop \/ Move

Spec == Init /\ [][Next]_vars

(***************************************************************************)
(* Fairness.  The control loop goes on, not every write() meets a mutex     *)
(* that somebody holds, and not every frame is lost.                        *)
(***************************************************************************)
FairSpec ==
  /\ Spec
  /\ WF_vars(Read \/ Write \/ Skip)
  /\ SF_vars(Write /\ wire' # None)

-----------------------------------------------------------------------------
(***************************************************************************)
(* Safety.                                                                 *)
(***************************************************************************)

\* A slave that is in operation moves only to a position it has reported
\* itself or one a controller commanded after the activation: not to the 0 of
\* a fresh process image, not to what a NaN encodes to, and not to a command
\* that was given before on_activate() aligned the commands.
MotionIsGrounded ==
  al = "op" => target \in reported \union given

\* The same for every frame of the control loop, whatever state the slave is
\* in: the first write() after the activation never jumps.
FramesAreGrounded ==
  [][Write => frame' \in reported \union given]_vars

(***************************************************************************)
(* The inductive strengthening the proofs use, for SafeOpFrames >= 3.       *)
(***************************************************************************)

Grounded == reported \union given

\* Before the first cycle the state is NaN; from then on it is what the image
\* held when the last pass read it.
StateInv ==
  /\ pos \in Measurable /\ wire \in Measurable \union {None}
  /\ reported \subseteq Measurable
  /\ phase \in {"idle", "startup"} => aggCmd = NaN
  /\ \/ aggState = image
     \/ /\ aggState = NaN /\ frame = None /\ wire = None /\ settled = 0
        /\ al # "op" /\ ~opSeen /\ phase # "running"

\* Once an answer has arrived the image holds a reported position; one cycle
\* later the frames do, and one answer later what the slave has latched.
PipelineInv ==
  /\ settled > 0 \/ al = "op" \/ opSeen \/ phase = "running"
       => image \in reported
  /\ (settled > 1 /\ al = "safeop") \/ al = "op" \/ opSeen \/ phase = "running"
       => frame \in Grounded
  /\ settled > 2 /\ al = "safeop" => latched \in Grounded
  /\ settled > 0 /\ al = "safeop" /\ wire # None => latched = frame
  /\ phase = "running" => hwCmd = NaN \/ Encode(hwCmd) \in Grounded

\* What a fresh process image and the pipeline between image, frame and slave
\* hold at every moment, so that a slave entering OP has a grounded output.
FlowInv == TypeOK /\ StateInv /\ PipelineInv /\ MotionIsGrounded

(***************************************************************************)
(* Liveness, under FairSpec.                                               *)
(***************************************************************************)

\* A command the controller keeps reaches the motor, although write() gives
\* way to every holder of the mutex and frames are lost, unless the slave or
\* the session ends first.
CommandArrives ==
  \A c \in Raw :
    phase = "running" /\ al = "op" /\ hwCmd = c
      ~> target = Encode(c) \/ hwCmd # c \/ al # "op" \/ phase # "running"
=============================================================================
