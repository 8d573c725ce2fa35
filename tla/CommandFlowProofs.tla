-------------------------- MODULE CommandFlowProofs --------------------------
(***************************************************************************)
(* A slave in operation moves only to grounded positions, for every range   *)
(* of positions and both unit modes, provided that it answers at least      *)
(* three cycles in SAFEOP before it enters OP.                              *)
(***************************************************************************)
EXTENDS CommandFlow, TLAPS

-----------------------------------------------------------------------------
\* Encoding keeps every command within what the bytes can hold, and is the
\* identity on what a slave can report.
LEMMA EncodeFacts ==
  /\ \A x \in Raw : Encode(x) \in Raw
  /\ \A x \in Measurable : x \in Raw /\ Encode(x) = x
  /\ NaN \notin Raw /\ None \notin Raw
BY FullAssumption, PhysicalAssumption
   DEF Encode, Raw, Measurable, NaN, None

\* What is sent for a command or a fallback fits the bytes.
LEMMA EncodingsType ==
  ASSUME NEW x \in Raw \union {NaN}, NEW y \in Encodings(x)
  PROVE  y \in Raw
BY EncodeFacts DEF Encodings

\* A received answer keeps the types of what receiving assigns.
LEMMA ReceiveType ==
  ASSUME TypeOK, NEW arrives \in BOOLEAN, Receive(arrives)
  PROVE  /\ image' \in Raw
         /\ reported' \in SUBSET Raw
         /\ settled' \in 0..SafeOpFrames
BY SafeOpFramesAssumption DEF TypeOK, Receive

\* So does a frame.
LEMMA SendType ==
  ASSUME TypeOK, NEW x \in Raw, Send(x)
  PROVE  /\ frame' \in Raw \union {None}
         /\ wire' \in Raw \union {None}
         /\ latched' \in Raw \union {None}
         /\ target' \in Raw \union {None}
         /\ UNCHANGED <<al, pos>>
BY DEF TypeOK, Send

-----------------------------------------------------------------------------
\* The initial state satisfies the inductive invariant.
LEMMA InitFlow == Init => FlowInv
<1> SUFFICES ASSUME Init
             PROVE  FlowInv
  OBVIOUS
<1>1. TypeOK
  <2>1. opSeen \in BOOLEAN
    BY Zenon DEF Init
  <2>2. 0 \in Raw /\ pos \in Raw
    BY EncodeFacts, FullAssumption DEF Init, Raw
  <2> QED
    BY <2>1, <2>2, SafeOpFramesAssumption DEF Init, TypeOK, Phases
<1>2. StateInv
  BY DEF Init, StateInv
<1>3. PipelineInv /\ MotionIsGrounded
  BY DEF Init, PipelineInv, MotionIsGrounded
<1> QED
  BY <1>1, <1>2, <1>3 DEF FlowInv

-----------------------------------------------------------------------------
\* Every step preserves the types, however long a slave stays in SAFEOP.
LEMMA StepType ==
  ASSUME TypeOK, [Next]_vars
  PROVE  TypeOK'
<1>1. ASSUME Activate
      PROVE  TypeOK'
  BY <1>1, EncodeFacts
     DEF TypeOK, Activate, Phases, buffers, slave, history
<1>2. ASSUME StartupCycle
      PROVE  TypeOK'
  <2>1. PICK arrives \in BOOLEAN : Receive(arrives)
    BY <1>2 DEF StartupCycle
  <2>2. PICK x \in Encodings(Fallback(aggCmd, aggState)) : Send(x)
    BY <1>2 DEF StartupCycle
  <2>3. x \in Raw
    BY <2>2, EncodingsType DEF TypeOK, Fallback
  <2>4. opSeen' \in BOOLEAN
    BY <1>2 DEF StartupCycle
  <2> QED
    BY <1>2, <2>1, <2>2, <2>3, <2>4, ReceiveType, SendType
       DEF TypeOK, StartupCycle, Phases
<1>3. ASSUME FinishActivate
      PROVE  TypeOK'
  BY <1>3, EncodeFacts, ReceiveType
     DEF TypeOK, FinishActivate, ReadData, Phases, buffers, slave,
         history
<1>4. ASSUME NEW c \in Raw \union {NaN}, Command(c)
      PROVE  TypeOK'
  BY <1>4, EncodeFacts DEF TypeOK, Command, buffers, slave, history
<1>5. ASSUME Read
      PROVE  TypeOK'
  BY <1>5, EncodeFacts, ReceiveType
     DEF TypeOK, Read, ReadData, buffers, slave, history
<1>6. ASSUME Write
      PROVE  TypeOK'
  BY <1>6, EncodeFacts, EncodingsType, SendType
     DEF TypeOK, Write, Fallback, buffers, slave, history
<1>7. ASSUME Skip
      PROVE  TypeOK'
  BY <1>7 DEF TypeOK, Skip, buffers, slave, history
<1>8. ASSUME Released
      PROVE  TypeOK'
  BY <1>8 DEF TypeOK, Released, Phases, buffers, slave, history
<1>9. ASSUME EnterSafeOp
      PROVE  TypeOK'
  BY <1>9, SafeOpFramesAssumption
     DEF TypeOK, EnterSafeOp, buffers, slave, history
<1>10. ASSUME EnterOp
      PROVE  TypeOK'
  BY <1>10 DEF TypeOK, EnterOp, buffers, slave, history
<1>11. ASSUME Drop
      PROVE  TypeOK'
  BY <1>11 DEF TypeOK, Drop, buffers, slave, history
<1>12. ASSUME Move
      PROVE  TypeOK'
  BY <1>12, EncodeFacts
     DEF TypeOK, Move, buffers, slave, history
<1>13. CASE UNCHANGED vars
  BY <1>13 DEF TypeOK, vars, buffers, slave, history
<1> QED
  BY <1>1, <1>2, <1>3, <1>4, <1>5, <1>6, <1>7, <1>8, <1>9, <1>10, <1>11,
     <1>12, <1>13
     DEF Next

\* Every step preserves the inductive invariant, if a slave answers at least
\* three cycles in SAFEOP.
LEMMA StepFlow ==
  ASSUME SafeOpFrames >= 3, FlowInv, [Next]_vars
  PROVE  FlowInv'
<1>1. TypeOK'
  BY StepType DEF FlowInv
<1>2. ASSUME Activate
      PROVE  FlowInv'
  <2>1. StateInv'
    BY <1>2, EncodeFacts
       DEF FlowInv, TypeOK, StateInv, Activate, buffers, slave, history
  <2>2. PipelineInv'
    BY <1>2, EncodeFacts
       DEF FlowInv, TypeOK, StateInv, PipelineInv, Grounded, Activate,
           buffers, slave, history
  <2>3. MotionIsGrounded'
    BY <1>2 DEF FlowInv, MotionIsGrounded, Activate, buffers, slave, history
  <2> QED
    BY <1>1, <2>1, <2>2, <2>3 DEF FlowInv
<1>3. ASSUME StartupCycle
      PROVE  FlowInv'
  <2>1. StateInv'
    BY <1>3, EncodeFacts
       DEF FlowInv, TypeOK, StateInv, PipelineInv, StartupCycle, Receive,
           Send, buffers, slave, history
  <2>2. PipelineInv'
    <3>1. PICK arrives \in BOOLEAN : Receive(arrives)
      BY <1>3 DEF StartupCycle
    <3>2. PICK x \in Encodings(Fallback(aggCmd, aggState)) : Send(x)
      BY <1>3 DEF StartupCycle
    <3>3. settled' > 0 => arrives \/ al # "safeop"
      BY <3>1, SafeOpFramesAssumption DEF FlowInv, TypeOK, Receive
    <3>4. settled' > 0 \/ al = "op" => image' \in reported'
      BY <3>1, SafeOpFramesAssumption
         DEF FlowInv, TypeOK, PipelineInv, Receive
    <3>5. settled > 0 \/ al = "op" => x \in reported
      BY <1>3, <3>2, EncodeFacts
         DEF FlowInv, TypeOK, StateInv, PipelineInv, StartupCycle, Fallback,
             Encodings
    <3>6. frame' = x /\ al' = al /\ reported \subseteq reported'
      BY <3>1, <3>2 DEF Receive, Send
    <3>7. settled' > 1 /\ al = "safeop" => settled > 0
      BY <3>1, SafeOpFramesAssumption DEF FlowInv, TypeOK, Receive
    <3>8. settled' > 2 /\ al = "safeop" => settled > 1 /\ wire # None
      BY <3>1, SafeOpFramesAssumption DEF FlowInv, TypeOK, Receive
    <3>9. settled' > 2 /\ al = "safeop" => latched' \in reported' \union given
      BY <3>2, <3>5, <3>6, <3>7, <3>8 DEF FlowInv, TypeOK, PipelineInv, Send,
         Grounded
    <3>10. opSeen' => al = "op"
      BY <1>3 DEF StartupCycle
    <3>11. phase' # "running" /\ given' = given
      BY <1>3 DEF StartupCycle
    <3>12. wire' # None => latched' = x
      BY <3>2 DEF Send
    <3> QED
      BY <3>4, <3>5, <3>6, <3>7, <3>9, <3>10, <3>11, <3>12
         DEF PipelineInv, Grounded
  <2>3. MotionIsGrounded'
    BY <1>3, EncodeFacts
       DEF FlowInv, TypeOK, StateInv, PipelineInv, MotionIsGrounded, Grounded,
           StartupCycle, Receive, Send, Fallback, Encodings, buffers, slave,
           history
  <2> QED
    BY <1>1, <2>1, <2>2, <2>3 DEF FlowInv
<1>4. ASSUME FinishActivate
      PROVE  FlowInv'
  <2>1. StateInv'
    BY <1>4, EncodeFacts
       DEF FlowInv, TypeOK, StateInv, PipelineInv, FinishActivate, ReadData,
           Receive, buffers, slave, history
  <2>2. PipelineInv'
    BY <1>4, EncodeFacts, SafeOpFramesAssumption
       DEF FlowInv, TypeOK, StateInv, PipelineInv, Grounded, FinishActivate,
           ReadData, Receive, buffers, slave, history
  <2>3. MotionIsGrounded'
    BY <1>4
       DEF FlowInv, MotionIsGrounded, FinishActivate, ReadData, Receive,
           buffers, slave, history
  <2> QED
    BY <1>1, <2>1, <2>2, <2>3 DEF FlowInv
<1>5. ASSUME NEW c \in Raw \union {NaN}, Command(c)
      PROVE  FlowInv'
  <2>1. StateInv'
    BY <1>5, EncodeFacts
       DEF FlowInv, TypeOK, StateInv, Command, buffers, slave, history
  <2>2. PipelineInv'
    BY <1>5, EncodeFacts
       DEF FlowInv, TypeOK, StateInv, PipelineInv, Grounded, Command, buffers,
           slave, history
  <2>3. MotionIsGrounded'
    BY <1>5 DEF FlowInv, MotionIsGrounded, Command, buffers, slave, history
  <2> QED
    BY <1>1, <2>1, <2>2, <2>3 DEF FlowInv
<1>6. ASSUME Read
      PROVE  FlowInv'
  <2>1. StateInv'
    BY <1>6, EncodeFacts
       DEF FlowInv, TypeOK, StateInv, Read, ReadData, Receive, buffers, slave,
           history
  <2>2. PipelineInv'
    BY <1>6, EncodeFacts, SafeOpFramesAssumption
       DEF FlowInv, TypeOK, StateInv, PipelineInv, Grounded, Read, ReadData,
           Receive, buffers, slave, history
  <2>3. MotionIsGrounded'
    BY <1>6
       DEF FlowInv, MotionIsGrounded, Read, ReadData, Receive, buffers, slave,
           history
  <2> QED
    BY <1>1, <2>1, <2>2, <2>3 DEF FlowInv
<1>7. ASSUME Write
      PROVE  FlowInv'
  <2>1. StateInv'
    BY <1>7, EncodeFacts
       DEF FlowInv, TypeOK, StateInv, Write, Send, Fallback, buffers, slave,
           history
  <2>2. PipelineInv'
    BY <1>7, EncodeFacts
       DEF FlowInv, TypeOK, StateInv, PipelineInv, Grounded, Write, Send,
           Fallback, Encodings, buffers, slave, history
  <2>3. MotionIsGrounded'
    BY <1>7, EncodeFacts
       DEF FlowInv, TypeOK, StateInv, PipelineInv, MotionIsGrounded, Grounded,
           Write, Send, Fallback, Encodings, buffers, slave, history
  <2> QED
    BY <1>1, <2>1, <2>2, <2>3 DEF FlowInv
<1>8. ASSUME Skip
      PROVE  FlowInv'
  <2>1. StateInv'
    BY <1>8 DEF FlowInv, TypeOK, StateInv, Skip, buffers, slave, history
  <2>2. PipelineInv'
    BY <1>8
       DEF FlowInv, TypeOK, StateInv, PipelineInv, Grounded, Skip, buffers,
           slave, history
  <2>3. MotionIsGrounded'
    BY <1>8 DEF FlowInv, MotionIsGrounded, Skip, buffers, slave, history
  <2> QED
    BY <1>1, <2>1, <2>2, <2>3 DEF FlowInv
<1>9. ASSUME Released
      PROVE  FlowInv'
  <2>1. StateInv'
    BY <1>9 DEF FlowInv, TypeOK, StateInv, Released, buffers, slave, history
  <2>2. PipelineInv'
    BY <1>9
       DEF FlowInv, TypeOK, StateInv, PipelineInv, Grounded, Released,
           buffers, slave, history
  <2>3. MotionIsGrounded'
    BY <1>9 DEF FlowInv, MotionIsGrounded, Released, buffers, slave, history
  <2> QED
    BY <1>1, <2>1, <2>2, <2>3 DEF FlowInv
<1>10. ASSUME EnterSafeOp
      PROVE  FlowInv'
  <2>1. StateInv'
    BY <1>10
       DEF FlowInv, TypeOK, StateInv, EnterSafeOp, buffers, slave, history
  <2>2. PipelineInv'
    BY <1>10
       DEF FlowInv, TypeOK, StateInv, PipelineInv, Grounded, EnterSafeOp,
           buffers, slave, history
  <2>3. MotionIsGrounded'
    BY <1>10
       DEF FlowInv, MotionIsGrounded, EnterSafeOp, buffers, slave, history
  <2> QED
    BY <1>1, <2>1, <2>2, <2>3 DEF FlowInv
<1>11. ASSUME EnterOp
      PROVE  FlowInv'
  <2>1. StateInv'
    BY <1>11 DEF FlowInv, TypeOK, StateInv, EnterOp, buffers, slave, history
  <2>2. PipelineInv'
    BY <1>11
       DEF FlowInv, TypeOK, StateInv, PipelineInv, Grounded, EnterOp, buffers,
           slave, history
  <2>3. MotionIsGrounded'
    BY <1>11, SafeOpFramesAssumption
       DEF FlowInv, TypeOK, PipelineInv, MotionIsGrounded, Grounded, EnterOp,
           buffers, slave, history
  <2> QED
    BY <1>1, <2>1, <2>2, <2>3 DEF FlowInv
<1>12. ASSUME Drop
      PROVE  FlowInv'
  <2>1. StateInv'
    BY <1>12 DEF FlowInv, TypeOK, StateInv, Drop, buffers, slave, history
  <2>2. PipelineInv'
    BY <1>12
       DEF FlowInv, TypeOK, StateInv, PipelineInv, Grounded, Drop, buffers,
           slave, history
  <2>3. MotionIsGrounded'
    BY <1>12 DEF FlowInv, MotionIsGrounded, Drop, buffers, slave, history
  <2> QED
    BY <1>1, <2>1, <2>2, <2>3 DEF FlowInv
<1>13. ASSUME Move
      PROVE  FlowInv'
  <2>1. StateInv'
    BY <1>13, EncodeFacts
       DEF FlowInv, TypeOK, StateInv, Move, buffers, slave, history
  <2>2. PipelineInv'
    BY <1>13, EncodeFacts
       DEF FlowInv, TypeOK, StateInv, PipelineInv, Grounded, Move, buffers,
           slave, history
  <2>3. MotionIsGrounded'
    BY <1>13 DEF FlowInv, MotionIsGrounded, Move, buffers, slave, history
  <2> QED
    BY <1>1, <2>1, <2>2, <2>3 DEF FlowInv
<1>14. CASE UNCHANGED vars
  BY <1>14
     DEF FlowInv, TypeOK, StateInv, PipelineInv, MotionIsGrounded, Grounded,
         vars, buffers, slave, history
<1> QED
  BY <1>2, <1>3, <1>4, <1>5, <1>6, <1>7, <1>8, <1>9, <1>10, <1>11, <1>12,
     <1>13, <1>14
     DEF Next

-----------------------------------------------------------------------------
\* The inductive invariant holds in every reachable state.
THEOREM FlowInvariant ==
  ASSUME SafeOpFrames >= 3
  PROVE  Spec => []FlowInv
<1>1. FlowInv /\ [Next]_vars => FlowInv'
  BY StepFlow
<1> QED
  BY <1>1, InitFlow, PTL DEF Spec

\* Every variable keeps its type: in particular whatever a controller commands,
\* and whatever a NaN is cast to, what goes to the slave fits its bytes.
THEOREM FlowTypes == Spec => []TypeOK
<1>1. Init => TypeOK
  BY InitFlow DEF FlowInv
<1>2. TypeOK /\ [Next]_vars => TypeOK'
  BY StepType
<1> QED
  BY <1>1, <1>2, PTL DEF Spec

\* A slave in operation moves only to a position it has reported or one that
\* was commanded after the activation: on_activate() and write() never make a
\* finger jump, whatever frames are lost and whatever calls are skipped.
THEOREM NoJump ==
  ASSUME SafeOpFrames >= 3
  PROVE  Spec => []MotionIsGrounded
<1>1. FlowInv => MotionIsGrounded
  BY DEF FlowInv
<1> QED
  BY <1>1, FlowInvariant, PTL

\* The same for every frame write() sends.
THEOREM GroundedFrames ==
  ASSUME SafeOpFrames >= 3
  PROVE  Spec => FramesAreGrounded
<1>1. FlowInv /\ [Next]_vars => [Write => frame' \in reported \union given]_vars
  <2> SUFFICES ASSUME FlowInv, Write
               PROVE  frame' \in reported \union given
    OBVIOUS
  <2> QED
    BY EncodeFacts
       DEF FlowInv, TypeOK, StateInv, PipelineInv, Grounded, Write, Send,
           Fallback, Encodings
<1> QED
  BY <1>1, FlowInvariant, PTL DEF Spec, FramesAreGrounded
=============================================================================
