-------------------------- MODULE PoseSequenceProofs --------------------------
(***************************************************************************)
(* The scripts for arm and hand, for sequence files of every length and      *)
(* whatever times out, is rejected, fails or is late: in strict mode they     *)
(* implement StrictSequence, and a sequence executes the nearest solution.    *)
(***************************************************************************)
EXTENDS PoseSequence, SequenceTheorems, TLAPS

-----------------------------------------------------------------------------
(***************************************************************************)
(* The inductive invariants.                                               *)
(***************************************************************************)

Parts == {"arm", "hand"}
Ops == {"send", "accept", "wait", "publish"} \X Parts

\* The script is in a step, or has given it up on the way.
Doing == pc = "doing" \/ (pc = "failed" /\ todo # <<>>)

\* How far the script is: the steps ahead have sent nothing.
PlaceInv ==
  /\ pc \in {"state", "solving"} \/ Doing => i <= Len(plan)
  /\ pc = "complete" => i > Len(plan)
  /\ ~Doing => todo = <<>>
  /\ \A g \in Goals :
       g[1] > i \/ (g[1] = i /\ ~Doing) => stage[g] = "none"

\* A goal of the arm has a position by the time it is sent.
AimInv ==
  /\ \A n \in 1..MaxSteps : stage[<<n, "arm">>] # "none" => aim[n] \in Positions
  /\ pc = "doing" /\ plan[i].arm => aim[i] \in Positions

\* What the current step consists of, and how much of it has been done.
Whole == Program(plan[i])
Past == Len(Whole) - Len(todo)

\* What is left to do is the rest of the step.
RestInv ==
  Doing => /\ Past \in Nat
           /\ \A m \in 1..Len(todo) : todo[m] = Whole[Past + m]

\* In strict mode a goal that is still to be sent is not under way, and one that
\* was waited for has been answered with success.
StrictInv ==
  ~topic =>
    /\ \A g \in Planned : g[1] < i => Done(g)
    /\ Doing => \A m \in 1..Len(Whole), k \in Parts :
         /\ Whole[m] = <<"send", k>> /\ m > Past => stage[<<i, k>>] = "none"
         /\ Whole[m] = <<"wait", k>> /\ m <= Past => Done(<<i, k>>)

SequenceInv == TypeOK /\ PlaceInv /\ AimInv /\ RestInv /\ StrictInv

\* The solutions that were found with, or without, collision checking.
Found(mode) == {x[2] : x \in {y \in answers : y[1] = mode}}

\* The search keeps the nearest solution of its mode, and leaves a mode only
\* when that has found none.
SolveInv ==
  pc = "solving" /\ tool = "sequence" /\ seed # None =>
    /\ avoiding => Found(FALSE) = {}
    /\ ~avoiding => Found(TRUE) = {}
    /\ IF best = None THEN Found(avoiding) = {}
       ELSE /\ best \in Found(avoiding)
            /\ \A p \in Found(avoiding) :
                 Distance(best, seed) <= Distance(p, seed)

-----------------------------------------------------------------------------
(***************************************************************************)
(* What a step consists of.                                                *)
(***************************************************************************)

\* Two programs of three operations, one after the other.
LEMMA ThreeAndThree ==
  ASSUME NEW a, NEW b, NEW c, NEW d, NEW e, NEW f
  PROVE  <<a, b, c>> \o <<d, e, f>> = <<a, b, c, d, e, f>>
<1> DEFINE q == <<a, b, c>> \o <<d, e, f>>
           t == <<a, b, c, d, e, f>>
<1>1. Len(q) = 6 /\ \A n \in 1..6 : q[n] = t[n]
  OBVIOUS
<1>2. \E S : q \in Seq(S) /\ t \in Seq(S)
  <2> WITNESS {a, b, c, d, e, f}
  <2> QED
    OBVIOUS
<1>3. Len(t) = 6
  OBVIOUS
<1> HIDE DEF q, t
<1>4. q = t
  BY <1>1, <1>2, <1>3, SeqEqual
<1> QED
  BY <1>4 DEF q, t

\* One operation, then three.
LEMMA OneAndThree ==
  ASSUME NEW a, NEW b, NEW c, NEW d
  PROVE  <<a>> \o <<b, c, d>> = <<a, b, c, d>>
<1> DEFINE q == <<a>> \o <<b, c, d>>
           t == <<a, b, c, d>>
<1>1. Len(q) = 4 /\ \A n \in 1..4 : q[n] = t[n]
  OBVIOUS
<1>2. \E S : q \in Seq(S) /\ t \in Seq(S)
  <2> WITNESS {a, b, c, d}
  <2> QED
    OBVIOUS
<1>3. Len(t) = 4
  OBVIOUS
<1> HIDE DEF q, t
<1>4. q = t
  BY <1>1, <1>2, <1>3, SeqEqual
<1> QED
  BY <1>4 DEF q, t

\* Three operations, then one.
LEMMA ThreeAndOne ==
  ASSUME NEW a, NEW b, NEW c, NEW d
  PROVE  <<a, b, c>> \o <<d>> = <<a, b, c, d>>
<1> DEFINE q == <<a, b, c>> \o <<d>>
           t == <<a, b, c, d>>
<1>1. Len(q) = 4 /\ \A n \in 1..4 : q[n] = t[n]
  OBVIOUS
<1>2. \E S : q \in Seq(S) /\ t \in Seq(S)
  <2> WITNESS {a, b, c, d}
  <2> QED
    OBVIOUS
<1>3. Len(t) = 4
  OBVIOUS
<1> HIDE DEF q, t
<1>4. q = t
  BY <1>1, <1>2, <1>3, SeqEqual
<1> QED
  BY <1>4 DEF q, t

\* A program is made of operations of the parts that the step has.  In strict
\* mode it has each of them once, sends and awaits every goal of the step, and
\* the second goal is sent when the first has been awaited, unless both go in
\* parallel.
Sound(s, P) ==
  /\ P \in Seq(Ops)
  /\ \A m \in 1..Len(P) : s[P[m][2]]
  /\ ~topic =>
       /\ \A m, n \in 1..Len(P) : P[m] = P[n] => m = n
       /\ \A m \in 1..Len(P) : P[m][1] # "publish"
       /\ \A k \in Parts : s[k] =>
            /\ \E m \in 1..Len(P) : P[m] = <<"send", k>>
            /\ \E m \in 1..Len(P) : P[m] = <<"wait", k>>
       /\ \A k, h \in Parts :
            /\ s[k] /\ s[h] /\ k # h /\ ~InParallel(s)
            /\ k = IF s.order = "hand_then_arm" THEN "hand" ELSE "arm"
            => \A n \in 1..Len(P) : P[n] = <<"send", h>> =>
                 \E m \in 1..(n - 1) : P[m] = <<"wait", k>>

\* Every program is like that.
LEMMA ProgramIsSound ==
  ASSUME NEW s \in Steps, topic \in BOOLEAN
  PROVE  Sound(s, Program(s))
<1>1. CASE ~s.arm /\ ~s.hand
  <2> DEFINE P == <<>>
  <2>1. Program(s) = P
    BY <1>1
    DEF Program, InParallel, ArmPart, HandPart, SendAndWait, Steps, Orders
  <2>2. Sound(s, P)
    BY <1>1 DEF Sound, InParallel, Ops, Parts, Steps, Orders
  <2> QED
    BY <2>1, <2>2
<1>2. CASE s.arm /\ ~s.hand
  <2> DEFINE P ==
        << <<"send", "arm">>, <<"accept", "arm">>, <<"wait", "arm">> >>
  <2>1. Program(s) = P
    BY <1>2
    DEF Program, InParallel, ArmPart, HandPart, SendAndWait, Steps, Orders
  <2>2. Sound(s, P)
    BY <1>2 DEF Sound, InParallel, Ops, Parts, Steps, Orders
  <2> QED
    BY <2>1, <2>2
<1>3. CASE ~s.arm /\ s.hand /\ topic
  <2> DEFINE P == << <<"publish", "hand">> >>
  <2>1. Program(s) = P
    BY <1>3
    DEF Program, InParallel, ArmPart, HandPart, SendAndWait, Steps, Orders
  <2>2. Sound(s, P)
    BY <1>3 DEF Sound, InParallel, Ops, Parts, Steps, Orders
  <2> QED
    BY <2>1, <2>2
<1>4. CASE ~s.arm /\ s.hand /\ ~topic
  <2> DEFINE P ==
        << <<"send", "hand">>, <<"accept", "hand">>, <<"wait", "hand">> >>
  <2>1. Program(s) = P
    BY <1>4
    DEF Program, InParallel, ArmPart, HandPart, SendAndWait, Steps, Orders
  <2>2. Sound(s, P)
    BY <1>4 DEF Sound, InParallel, Ops, Parts, Steps, Orders
  <2> QED
    BY <2>1, <2>2
<1>5. CASE InParallel(s)
  <2> DEFINE P ==
        << <<"send", "arm">>, <<"accept", "arm">>, <<"send", "hand">>,
           <<"accept", "hand">>, <<"wait", "arm">>, <<"wait", "hand">> >>
  <2>1. Program(s) = P
    BY <1>5
    DEF Program, InParallel, ArmPart, HandPart, SendAndWait, Steps, Orders
  <2>2. Sound(s, P)
    BY <1>5 DEF Sound, InParallel, Ops, Parts, Steps, Orders
  <2> QED
    BY <2>1, <2>2
<1>6. CASE s.arm /\ s.hand /\ ~topic /\ s.order = "hand_then_arm"
  <2> DEFINE P ==
        << <<"send", "hand">>, <<"accept", "hand">>, <<"wait", "hand">>,
           <<"send", "arm">>, <<"accept", "arm">>, <<"wait", "arm">> >>
  <2>1. Program(s) = P
    BY <1>6, ThreeAndThree
    DEF Program, InParallel, ArmPart, HandPart, SendAndWait, Steps, Orders
  <2>2. Sound(s, P)
    BY <1>6 DEF Sound, InParallel, Ops, Parts, Steps, Orders
  <2> QED
    BY <2>1, <2>2
<1>7. CASE s.arm /\ s.hand /\ ~topic /\ s.order = "arm_then_hand"
  <2> DEFINE P ==
        << <<"send", "arm">>, <<"accept", "arm">>, <<"wait", "arm">>,
           <<"send", "hand">>, <<"accept", "hand">>, <<"wait", "hand">> >>
  <2>1. Program(s) = P
    BY <1>7, ThreeAndThree
    DEF Program, InParallel, ArmPart, HandPart, SendAndWait, Steps, Orders
  <2>2. Sound(s, P)
    BY <1>7 DEF Sound, InParallel, Ops, Parts, Steps, Orders
  <2> QED
    BY <2>1, <2>2
<1>8. CASE s.arm /\ s.hand /\ topic /\ s.order = "hand_then_arm"
  <2> DEFINE P ==
        << <<"publish", "hand">>, <<"send", "arm">>, <<"accept", "arm">>,
           <<"wait", "arm">> >>
  <2>1. Program(s) = P
    BY <1>8, OneAndThree
    DEF Program, InParallel, ArmPart, HandPart, SendAndWait, Steps, Orders
  <2>2. Sound(s, P)
    BY <1>8 DEF Sound, InParallel, Ops, Parts, Steps, Orders
  <2> QED
    BY <2>1, <2>2
<1>9. CASE s.arm /\ s.hand /\ topic /\ s.order # "hand_then_arm"
  <2> DEFINE P ==
        << <<"send", "arm">>, <<"accept", "arm">>, <<"wait", "arm">>,
           <<"publish", "hand">> >>
  <2>1. Program(s) = P
    BY <1>9, ThreeAndOne
    DEF Program, InParallel, ArmPart, HandPart, SendAndWait, Steps, Orders
  <2>2. Sound(s, P)
    BY <1>9 DEF Sound, InParallel, Ops, Parts, Steps, Orders
  <2> QED
    BY <2>1, <2>2
<1> QED
  BY <1>1, <1>2, <1>3, <1>4, <1>5, <1>6, <1>7, <1>8, <1>9
  DEF InParallel, Steps, Orders

-----------------------------------------------------------------------------
(***************************************************************************)
(* The steps of the system as the sequence sees them.                      *)
(***************************************************************************)

\* Nothing is sent, and no success is taken back.
Kept ==
  \A g \in Goals : /\ stage'[g] = "none" <=> stage[g] = "none"
                   /\ Done(g) => Done(g)'

Begins ==
  /\ ~Doing /\ pc' = "doing" /\ i <= Len(plan)
  /\ todo' = Program(plan[i])
  /\ UNCHANGED <<tool, topic, plan, i, stage, code>>

\* The next operation of the step is done.
Advances(k) ==
  /\ pc = "doing" /\ todo # <<>>
  /\ pc' = pc /\ todo' = Tail(todo)
  /\ UNCHANGED <<tool, topic, plan, i, code>>
  /\ \/ Head(todo) \in {<<"send", k>>, <<"publish", k>>}
        /\ stage' = [stage EXCEPT ![<<i, k>>] = "sent"]
     \/ Head(todo) = <<"accept", k>> /\ UNCHANGED stage
     \/ Head(todo) = <<"wait", k>> /\ Done(<<i, k>>) /\ UNCHANGED stage

Ends ==
  /\ pc = "doing" /\ todo = <<>>
  /\ pc' = "step" /\ i' = i + 1
  /\ UNCHANGED <<tool, topic, plan, todo, stage, code>>

Stays ==
  /\ UNCHANGED <<tool, topic, plan, i, todo>>
  /\ Doing <=> Doing'
  /\ pc' \in {"state", "solving"} => i <= Len(plan)
  /\ pc' = "complete" => i > Len(plan)
  /\ Kept

\* Where nothing is sent or answered, nothing is taken back.
LEMMA UntouchedIsKept ==
  ASSUME UNCHANGED goals
  PROVE  Kept
  BY DEF Kept, Done, goals

\* The bridge takes nothing back.
LEMMA BridgeKeeps ==
  ASSUME TypeOK, NEW g \in Goals,
         Execute(g) \/ Reject(g) \/ \E c \in Codes \ {""} : Finish(g, c)
  PROVE  Kept
<1>1. stage \in [Goals -> Stages] /\ code \in [Goals -> Codes]
  BY DEF TypeOK
<1>2. CASE Execute(g)
  BY <1>1, <1>2 DEF Execute, Kept, Done
<1>3. CASE Reject(g)
  BY <1>1, <1>3 DEF Reject, Kept, Done, world
<1>4. CASE \E c \in Codes \ {""} : Finish(g, c)
  BY <1>1, <1>4 DEF Finish, Kept, Done
<1> QED
  BY <1>2, <1>3, <1>4

\* A step begins a step of the file, does its next operation, ends it, or leaves
\* the script where it is in the file.
LEMMA FourKindsOfStep ==
  ASSUME TypeOK, PlaceInv, [Next]_vars
  PROVE  Begins \/ (\E k \in Parts : Advances(k)) \/ Ends \/ Stays
<1> USE DEF script, goals, Doing
<1>1. CASE UNCHANGED vars
  <2>1. Kept
    BY <1>1, UntouchedIsKept DEF vars
  <2> QED
    BY <1>1, <2>1 DEF vars, Stays, PlaceInv
<1>2. CASE BeginStep
  <2>1. Kept
    BY <1>2, UntouchedIsKept DEF BeginStep
  <2> QED
    BY <1>2, <2>1 DEF BeginStep, Begins, Stays, PlaceInv
<1>3. CASE \/ Complete \/ JointState \/ BeginSolve \/ RetryWithCollisions
           \/ ArmMoves
  <2>1. Kept
    BY <1>3, UntouchedIsKept
    DEF Complete, JointState, BeginSolve, RetryWithCollisions, ArmMoves
  <2> QED
    BY <1>3, <2>1 DEF Complete, JointState, BeginSolve, RetryWithCollisions,
                      ArmMoves, Stays, PlaceInv, TypeOK
<1>4. CASE NoIkService \/ NoSolution
  <2>1. Kept
    BY <1>4, UntouchedIsKept DEF NoIkService, NoSolution, Fail
  <2> QED
    BY <1>4, <2>1 DEF NoIkService, NoSolution, Fail, Stays, PlaceInv
<1>5. CASE \E a \in Positions \union {IkFailed, IkTimeout} : Attempt(a)
  <2>1. Kept
    BY <1>5, UntouchedIsKept DEF Attempt
  <2> QED
    BY <1>5, <2>1 DEF Attempt, Solved, Begins, Stays, PlaceInv
<1>6. CASE TakeBest
  <2>1. Kept
    BY <1>6, UntouchedIsKept DEF TakeBest
  <2> QED
    BY <1>6, <2>1 DEF TakeBest, Solved, Begins, Stays, PlaceInv
<1>7. ASSUME NEW k \in Parts, Send(k)
      PROVE  Advances(k)
  BY <1>7 DEF Send, Now, Advances
<1>8. ASSUME NEW k \in Parts, Accepted(k)
      PROVE  Advances(k)
  BY <1>8 DEF Accepted, Now, Advances
<1>9. ASSUME NEW k \in Parts, Succeeded(k)
      PROVE  Advances(k)
  BY <1>9 DEF Succeeded, Now, Advances, ResultIs, Done
<1>10. ASSUME NEW k \in Parts,
              NoServer(k) \/ Rejected(k) \/ FailedResult(k) \/ TimeOut(k)
       PROVE  Stays
  <2>1. pc = "doing" /\ todo # <<>> /\ Fail
    BY <1>10 DEF NoServer, Rejected, FailedResult, TimeOut, Now
  <2>2. Kept
    BY <2>1, UntouchedIsKept DEF Fail
  <2> QED
    BY <2>1, <2>2 DEF Fail, Stays, PlaceInv
<1>11. CASE EndStep
  BY <1>11 DEF EndStep, Ends
<1>12. ASSUME NEW g \in Goals,
              Execute(g) \/ Reject(g) \/ \E c \in Codes \ {""} : Finish(g, c)
       PROVE  Stays
  <2>1. Kept
    BY <1>12, BridgeKeeps
  <2> QED
    BY <1>12, <2>1 DEF Execute, Reject, Finish, Stays, PlaceInv
<1> QED
  BY <1>1, <1>2, <1>3, <1>4, <1>5, <1>6, <1>7, <1>8, <1>9, <1>10, <1>11, <1>12
  DEF Next, Parts

-----------------------------------------------------------------------------
(***************************************************************************)
(* The order of the goals.                                                 *)
(***************************************************************************)

\* The program of the current step is sound, and of what is left the head is
\* next.
LEMMA NextOperation ==
  ASSUME TypeOK, PlaceInv, RestInv, Doing
  PROVE  /\ plan[i] \in Steps /\ i \in 1..MaxSteps
         /\ Sound(plan[i], Whole)
         /\ Past \in 0..Len(Whole)
         /\ todo # <<>> => /\ Past + 1 \in 1..Len(Whole)
                           /\ Head(todo) = Whole[Past + 1]
                           /\ Len(Tail(todo)) = Len(todo) - 1
                           /\ \A m \in 1..Len(Tail(todo)) :
                                Tail(todo)[m] = Whole[Past + 1 + m]
         /\ todo = <<>> => Past = Len(Whole)
<1>1. i \in 1..Len(plan) /\ i \in 1..MaxSteps
  BY CountAssumption DEF TypeOK, PlaceInv
<1>2. plan[i] \in Steps
  BY <1>1 DEF TypeOK
<1>3. Sound(plan[i], Whole)
  BY <1>2, ProgramIsSound DEF TypeOK, Whole
<1>4. Len(Whole) \in Nat /\ Len(todo) \in Nat /\ todo \in Seq(Ops)
  BY <1>3 DEF Sound, TypeOK, Ops, Parts
<1>5. Past \in 0..Len(Whole)
  BY <1>4 DEF RestInv, Past
<1>6. ASSUME todo # <<>>
      PROVE  /\ Past + 1 \in 1..Len(Whole)
             /\ Head(todo) = Whole[Past + 1]
             /\ Len(Tail(todo)) = Len(todo) - 1
             /\ \A m \in 1..Len(Tail(todo)) :
                  Tail(todo)[m] = Whole[Past + 1 + m]
  <2>1. Len(todo) > 0 /\ Head(todo) = todo[1]
        /\ Len(Tail(todo)) = Len(todo) - 1
        /\ \A m \in 1..Len(Tail(todo)) : Tail(todo)[m] = todo[m + 1]
    BY <1>4, <1>6
  <2>2. \A m \in 1..Len(todo) : todo[m] = Whole[Past + m]
    BY DEF RestInv
  <2>3. Past = Len(Whole) - Len(todo)
    BY DEF Past
  <2> HIDE DEF Past, Whole
  <2>4. Past + 1 \in 1..Len(Whole) /\ Head(todo) = Whole[Past + 1]
    BY <1>4, <1>5, <2>1, <2>2, <2>3
  <2>5. ASSUME NEW m \in 1..Len(Tail(todo))
        PROVE  Tail(todo)[m] = Whole[Past + 1 + m]
    <3>1. m + 1 \in 1..Len(todo) /\ Past + (m + 1) = Past + 1 + m
      BY <1>4, <1>5, <2>1
    <3> QED
      BY <2>1, <2>2, <3>1
  <2> QED
    BY <2>1, <2>4, <2>5
<1>7. todo = <<>> => Past = Len(Whole)
  BY <1>4 DEF Past
<1> QED
  BY <1>1, <1>2, <1>3, <1>5, <1>6, <1>7

\* Sound is about the step and the hand's mode only.
LEMMA WholeIsKept ==
  ASSUME UNCHANGED <<topic, plan, i>>
  PROVE  /\ Whole' = Whole
         /\ \A s \in Steps : InParallel(s)' <=> InParallel(s)
         /\ Planned' = Planned
  BY DEF Whole, Program, InParallel, ArmPart, HandPart, SendAndWait, Planned

\* What is left to do stays the rest of the step.
LEMMA StepRest ==
  ASSUME TypeOK, PlaceInv, RestInv, [Next]_vars
  PROVE  RestInv'
<1>1. CASE Begins
  <2>1. Whole' = Program(plan[i])' /\ Program(plan[i])' = Program(plan[i])
    BY <1>1 DEF Begins, Whole, Program, InParallel, ArmPart, HandPart,
                SendAndWait
  <2>2. i \in 1..Len(plan)
    BY <1>1 DEF TypeOK, Begins
  <2>3. plan[i] \in Steps
    BY <2>2 DEF TypeOK
  <2>4. Sound(plan[i], Program(plan[i]))
    BY <2>3, ProgramIsSound DEF TypeOK
  <2>5. Len(Program(plan[i])) \in Nat
    BY <2>4 DEF Sound
  <2>6. todo' = Whole'
    BY <1>1, <2>1 DEF Begins
  <2>7. Len(Whole') \in Nat
    BY <2>1, <2>5
  <2>8. Past' = 0
    BY <2>6, <2>7 DEF Past
  <2> QED
    BY <2>6, <2>7, <2>8 DEF RestInv
<1>2. ASSUME NEW k \in Parts, Advances(k)
      PROVE  RestInv'
  <2>1. Doing /\ todo # <<>> /\ todo' = Tail(todo) /\ Whole' = Whole
    BY <1>2, WholeIsKept DEF Advances, Doing
  <2>2. /\ Past \in Nat /\ Len(Whole) \in Nat /\ Len(todo) \in Nat
        /\ Len(Tail(todo)) = Len(todo) - 1
        /\ \A m \in 1..Len(Tail(todo)) : Tail(todo)[m] = Whole[Past + 1 + m]
    <3>1. todo \in Seq(Ops) /\ Whole \in Seq(Ops)
      BY <2>1, NextOperation DEF Sound, TypeOK, Ops, Parts
    <3> QED
      BY <2>1, <3>1, NextOperation
  <2>3. Past' = Past + 1
    BY <2>1, <2>2 DEF Past
  <2> HIDE DEF Past, Whole
  <2> QED
    BY <2>1, <2>2, <2>3 DEF RestInv
<1>3. CASE Ends
  BY <1>3 DEF Ends, RestInv, Doing
<1>4. CASE Stays
  <2>1. Whole' = Whole /\ todo' = todo /\ (Doing' => Doing)
    BY <1>4, WholeIsKept DEF Stays
  <2>2. Past' = Past
    BY <2>1 DEF Past
  <2> HIDE DEF Past, Whole, Doing
  <2> QED
    BY <2>1, <2>2 DEF RestInv
<1> QED
  BY <1>1, <1>2, <1>3, <1>4, FourKindsOfStep

\* The steps ahead send nothing.
LEMMA StepPlace ==
  ASSUME TypeOK, PlaceInv, RestInv, [Next]_vars
  PROVE  PlaceInv'
<1> USE DEF Doing
<1>1. CASE Begins
  BY <1>1 DEF Begins, PlaceInv
<1>2. ASSUME NEW k \in Parts, Advances(k)
      PROVE  PlaceInv'
  BY <1>2 DEF Advances, PlaceInv, TypeOK, Goals, Parts
<1>3. CASE Ends
  BY <1>3 DEF Ends, PlaceInv, TypeOK, Goals
<1>4. CASE Stays
  BY <1>4 DEF Stays, PlaceInv, Kept
<1> QED
  BY <1>1, <1>2, <1>3, <1>4, FourKindsOfStep

\* In strict mode the goals of the steps behind stay done, and in the current
\* step what was waited for is done and what is to be sent is not under way.
LEMMA StepStrict ==
  ASSUME TypeOK, PlaceInv, RestInv, RestInv', StrictInv, [Next]_vars
  PROVE  StrictInv'
<1> SUFFICES ASSUME ~topic'
             PROVE  StrictInv'
  BY DEF StrictInv
<1>1. UNCHANGED <<topic, plan>>
  <2> DEFINE same == UNCHANGED <<topic, plan>>
  <2>1. /\ Begins => same
        /\ \A k \in Parts : Advances(k) => same
        /\ Ends => same
        /\ Stays => same
    BY DEF Begins, Advances, Ends, Stays
  <2> HIDE DEF same
  <2>2. same
    BY <2>1, FourKindsOfStep, Zenon
  <2> QED
    BY <2>2 DEF same
<1>2. ~topic /\ plan' = plan /\ topic' = topic
  BY <1>1
<1>3. Planned' = Planned /\ Planned \subseteq Goals
  BY <1>2 DEF Planned
<1>4. i \in Nat /\ stage \in [Goals -> Stages] /\ code \in [Goals -> Codes]
  BY DEF TypeOK
<1>5. \A g \in Planned : g[1] < i => Done(g)
  BY <1>2 DEF StrictInv
<1>6. ASSUME Doing
      PROVE  \A m \in 1..Len(Whole), k \in Parts :
               /\ Whole[m] = <<"send", k>> /\ m > Past
                    => stage[<<i, k>>] = "none"
               /\ Whole[m] = <<"wait", k>> /\ m <= Past => Done(<<i, k>>)
  BY <1>2, <1>6 DEF StrictInv
<1>7. CASE Begins
  <2>1. i' = i /\ stage' = stage /\ code' = code /\ ~Doing /\ Whole' = Whole
    BY <1>7, WholeIsKept DEF Begins
  <2>2. \A g \in Goals : Done(g)' <=> Done(g)
    BY <2>1 DEF Done
  <2>3. \A k \in Parts : stage[<<i, k>>] = "none"
    <3>1. i \in 1..MaxSteps
      BY <1>7, CountAssumption DEF Begins, TypeOK
    <3> QED
      BY <2>1, <3>1 DEF PlaceInv, Goals, Parts
  <2>4. Past' = 0
    <3>1. i \in 1..Len(plan)
      BY <1>7 DEF TypeOK, Begins
    <3>2. Sound(plan[i], Whole)
      BY <3>1, ProgramIsSound DEF TypeOK, Whole
    <3>3. Whole \in Seq(Ops) /\ todo' = Whole
      BY <1>7, <3>2 DEF Sound, Begins, Whole
    <3> QED
      BY <2>1, <3>3 DEF Past
  <2> HIDE DEF Past, Whole, Doing
  <2> QED
    BY <1>3, <1>5, <2>1, <2>2, <2>3, <2>4 DEF StrictInv
<1>8. ASSUME NEW k \in Parts, Advances(k)
      PROVE  StrictInv'
  <2>1. /\ Doing /\ i' = i /\ code' = code /\ todo # <<>>
        /\ Whole' = Whole /\ todo' = Tail(todo)
    BY <1>8, WholeIsKept DEF Advances, Doing
  <2>2. /\ Sound(plan[i], Whole) /\ Past + 1 \in 1..Len(Whole)
        /\ Head(todo) = Whole[Past + 1] /\ i \in 1..MaxSteps
        /\ Past \in Nat /\ Len(Tail(todo)) = Len(todo) - 1
    BY <2>1, NextOperation
  <2>3. Past' = Past + 1
    <3>1. Len(todo) \in Nat /\ Len(Whole) \in Nat
      BY <2>2 DEF Sound, TypeOK
    <3> QED
      BY <2>1, <2>2, <3>1 DEF Past
  <2>4. Whole[Past + 1][1] # "publish" /\ Len(Whole) \in Nat
        /\ \A m, n \in 1..Len(Whole) : Whole[m] = Whole[n] => m = n
    BY <1>2, <2>2 DEF Sound
  <2>5. /\ \A g \in Goals : Done(g) => Done(g)'
        /\ \A h \in Parts : stage'[<<i, h>>] # "none" =>
             \/ stage[<<i, h>>] # "none"
             \/ Whole[Past + 1] = <<"send", h>>
        /\ \A h \in Parts : Whole[Past + 1] = <<"wait", h>> => Done(<<i, h>>)
    <3>1. CASE /\ Head(todo) \in {<<"send", k>>, <<"publish", k>>}
               /\ stage' = [stage EXCEPT ![<<i, k>>] = "sent"]
      <4>1. Whole[Past + 1] = <<"send", k>>
        BY <2>2, <2>4, <3>1
      <4>2. stage[<<i, k>>] = "none"
        BY <1>6, <2>1, <2>2, <4>1
      <4>3. \A g \in Goals : Done(g) => Done(g)'
        BY <1>4, <2>1, <3>1, <4>2 DEF Done
      <4>4. \A h \in Parts : h # k => stage'[<<i, h>>] = stage[<<i, h>>]
        BY <1>4, <3>1, <2>2 DEF Goals, Parts
      <4> QED
        BY <4>1, <4>3, <4>4
    <3>2. CASE Head(todo) = <<"accept", k>> /\ UNCHANGED stage
      BY <2>1, <2>2, <3>2 DEF Done
    <3>3. CASE Head(todo) = <<"wait", k>> /\ Done(<<i, k>>) /\ UNCHANGED stage
      BY <2>1, <2>2, <3>3, SMTT(30) DEF Done
    <3> QED
      BY <1>8, <3>1, <3>2, <3>3 DEF Advances
  <2>6. \A k2 \in Parts : <<i, k2>> \in Goals
    BY <2>2 DEF Goals, Parts
  <2> HIDE DEF Past, Whole, Doing
  <2>7. ASSUME NEW m \in 1..Len(Whole), NEW h \in Parts
        PROVE  /\ Whole[m] = <<"send", h>> /\ m > Past'
                    => stage'[<<i, h>>] = "none"
               /\ Whole[m] = <<"wait", h>> /\ m <= Past' => Done(<<i, h>>)'
    <3>1. ASSUME Whole[m] = <<"send", h>>, m > Past'
          PROVE  stage'[<<i, h>>] = "none"
      <4>1. m > Past /\ m # Past + 1
        BY <2>2, <2>3, <3>1
      <4>2. stage[<<i, h>>] = "none"
        BY <1>6, <2>1, <3>1, <4>1
      <4>3. Whole[Past + 1] # <<"send", h>>
        BY <2>2, <2>4, <3>1, <4>1
      <4> QED
        BY <2>5, <4>2, <4>3
    <3>2. ASSUME Whole[m] = <<"wait", h>>, m <= Past'
          PROVE  Done(<<i, h>>)'
      <4>1. CASE m <= Past
        <5>1. Done(<<i, h>>)
          BY <1>6, <2>1, <3>2, <4>1
        <5> QED
          BY <2>1, <2>5, <2>6, <5>1
      <4>2. CASE m = Past + 1
        <5>1. Done(<<i, h>>)
          BY <2>5, <3>2, <4>2
        <5> QED
          BY <2>1, <2>5, <2>6, <5>1
      <4> QED
        BY <2>2, <2>3, <3>2, <4>1, <4>2
    <3> QED
      BY <3>1, <3>2
  <2>8. \A g \in Planned : g[1] < i => Done(g)'
    BY <1>3, <1>5, <2>5
  <2> QED
    BY <1>3, <2>1, <2>7, <2>8 DEF StrictInv
<1>9. CASE Ends
  <2>1. /\ Doing /\ ~Doing' /\ i' = i + 1 /\ stage' = stage /\ code' = code
        /\ todo = <<>>
    BY <1>9 DEF Ends, Doing
  <2>2. \A g \in Goals : Done(g) => Done(g)'
    BY <2>1 DEF Done
  <2>3. Sound(plan[i], Whole) /\ Past = Len(Whole)
    BY <2>1, NextOperation
  <2>4. ASSUME NEW g \in Planned, g[1] = i
        PROVE  Done(g)
    <3>1. /\ plan[i][g[2]] /\ g[2] \in Parts /\ g = <<i, g[2]>>
      BY <2>4 DEF Planned, Goals, Parts
    <3>2. PICK m \in 1..Len(Whole) : Whole[m] = <<"wait", g[2]>>
      BY <1>2, <2>3, <3>1 DEF Sound
    <3>3. m <= Past
      BY <2>3
    <3>4. Done(<<i, g[2]>>)
      BY <1>6, <2>1, <3>1, <3>2, <3>3
    <3> QED
      BY <3>1, <3>4
  <2>5. \A g \in Planned : g[1] \in Nat
    BY DEF Planned, Goals
  <2>6. ASSUME NEW g \in Planned, g[1] < i'
        PROVE  Done(g)'
    <3>1. g[1] < i \/ g[1] = i
      BY <1>4, <2>1, <2>5, <2>6
    <3> QED
      BY <1>3, <1>5, <2>2, <2>4, <3>1
  <2> QED
    BY <1>3, <2>1, <2>6 DEF StrictInv
<1>10. CASE Stays
  <2>1. /\ i' = i /\ todo' = todo /\ Whole' = Whole /\ (Doing' => Doing)
        /\ Kept
    BY <1>10, WholeIsKept DEF Stays
  <2>2. Past' = Past
    BY <2>1 DEF Past
  <2>3. ASSUME NEW g \in Planned, g[1] < i
        PROVE  Done(g)'
    BY <1>3, <1>5, <2>1, <2>3 DEF Kept
  <2>4. ASSUME Doing, NEW k \in Parts
        PROVE  /\ stage[<<i, k>>] = "none" => stage'[<<i, k>>] = "none"
               /\ Done(<<i, k>>) => Done(<<i, k>>)'
    <3>1. <<i, k>> \in Goals
      BY <2>4, NextOperation DEF Goals, Parts
    <3>2. Done(<<i, k>>) => Done(<<i, k>>)'
      BY <2>1, <3>1 DEF Kept, Done
    <3> QED
      BY <2>1, <3>1, <3>2 DEF Kept
  <2> HIDE DEF Past, Whole, Doing, Done
  <2>5. ASSUME Doing, NEW m \in 1..Len(Whole), NEW k \in Parts
        PROVE  /\ Whole[m] = <<"send", k>> /\ m > Past
                    => stage'[<<i, k>>] = "none"
               /\ Whole[m] = <<"wait", k>> /\ m <= Past => Done(<<i, k>>)'
    BY <1>6, <2>4, <2>5
  <2> QED
    BY <1>3, <2>1, <2>2, <2>3, <2>5 DEF StrictInv
<1> QED
  BY <1>7, <1>8, <1>9, <1>10, FourKindsOfStep

\* A goal of the arm has its position before it is sent.
LEMMA StepAim ==
  ASSUME TypeOK, PlaceInv, RestInv, AimInv, [Next]_vars
  PROVE  AimInv'
<1> USE DEF script, goals, world, ik, Doing
<1>1. /\ aim \in [1..MaxSteps -> Positions \union {None}] /\ i \in Nat
      /\ stage \in [Goals -> Stages] /\ best \in Positions \union {None}
      /\ Len(plan) \in Nat /\ Len(plan) <= MaxSteps /\ MaxSteps \in Nat
      /\ 1 <= i
  BY CountAssumption DEF TypeOK
<1>2. \A n \in 1..MaxSteps :
        stage[<<n, "arm">>] # "none" => aim[n] \in Positions
  BY DEF AimInv
<1>3. ASSUME NEW p \in Positions \union {None}, ~Doing, i <= Len(plan),
             pc' = "doing", plan[i].arm => p \in Positions,
             aim' = [aim EXCEPT ![i] = p], UNCHANGED <<plan, i, stage>>
      PROVE  AimInv'
  <2>1. i \in 1..MaxSteps
    BY <1>1, <1>3
  <2>2. stage[<<i, "arm">>] = "none"
    BY <1>3, <2>1 DEF PlaceInv, Goals
  <2> QED
    BY <1>1, <1>2, <1>3, <2>1, <2>2 DEF AimInv
<1>4. CASE \/ UNCHANGED vars \/ Complete \/ JointState \/ BeginSolve
           \/ RetryWithCollisions \/ ArmMoves \/ NoIkService \/ NoSolution
           \/ EndStep
           \/ \E k \in Parts : \/ NoServer(k) \/ Accepted(k) \/ Rejected(k)
                               \/ Succeeded(k) \/ FailedResult(k) \/ TimeOut(k)
  <2>1. /\ UNCHANGED <<plan, aim, stage>>
        /\ pc' = "doing" => pc = "doing" /\ i' = i
    BY <1>4 DEF vars, Complete, JointState, BeginSolve, RetryWithCollisions,
                ArmMoves, NoIkService, NoSolution, EndStep, NoServer, Accepted,
                Rejected, Succeeded, FailedResult, TimeOut, Fail, Now
  <2> QED
    BY <2>1 DEF AimInv
<1>5. CASE BeginStep
  <2>1. CASE plan[i].arm /\ tool # "demo"
    BY <1>2, <1>5, <2>1 DEF BeginStep, AimInv
  <2>2. CASE ~(plan[i].arm /\ tool # "demo")
    <3>1. PICK p \in IF plan[i].arm THEN Positions ELSE {None} :
            aim' = [aim EXCEPT ![i] = p]
      BY <1>5, <2>2 DEF BeginStep
    <3> QED
      BY <1>3, <1>5, <2>2, <3>1 DEF BeginStep
  <2> QED
    BY <2>1, <2>2
<1>6. ASSUME NEW p \in Positions, pc = "solving", Solved(p),
             UNCHANGED <<plan, i, stage>>
      PROVE  AimInv'
  BY <1>2, <1>3, <1>6 DEF Solved, AimInv, PlaceInv
<1>7. ASSUME NEW a \in Positions \union {IkFailed, IkTimeout}, Attempt(a)
      PROVE  AimInv'
  <2>1. CASE FirstIsEnough(a)
    BY <1>6, <1>7, <2>1 DEF Attempt, FirstIsEnough
  <2>2. CASE ~FirstIsEnough(a)
    BY <1>2, <1>7, <2>2 DEF Attempt, AimInv
  <2> QED
    BY <2>1, <2>2
<1>8. CASE TakeBest
  BY <1>1, <1>6, <1>8 DEF TakeBest
<1>9. ASSUME NEW k \in Parts, Send(k)
      PROVE  AimInv'
  <2>1. /\ Doing /\ pc = "doing" /\ todo # <<>> /\ Head(todo)[2] = k
        /\ UNCHANGED <<plan, i, aim, pc>>
        /\ stage' = [stage EXCEPT ![<<i, k>>] = "sent"]
    BY <1>9 DEF Send, Now
  <2>2. plan[i][k]
    BY <2>1, NextOperation DEF Sound
  <2> QED
    BY <1>1, <2>1, <2>2 DEF AimInv, Goals, Parts
<1>10. ASSUME NEW g \in Goals,
              Execute(g) \/ Reject(g) \/ \E c \in Codes \ {""} : Finish(g, c)
       PROVE  AimInv'
  <2>1. Kept
    BY <1>10, BridgeKeeps
  <2>2. UNCHANGED <<plan, i, aim, pc>>
    BY <1>10 DEF Execute, Reject, Finish
  <2>3. \A n \in 1..MaxSteps : <<n, "arm">> \in Goals
    BY DEF Goals
  <2> QED
    BY <2>1, <2>2, <2>3 DEF AimInv, Kept
<1> QED
  BY <1>4, <1>5, <1>7, <1>8, <1>9, <1>10 DEF Next, Parts

-----------------------------------------------------------------------------
(***************************************************************************)
(* The types.                                                              *)
(***************************************************************************)

\* A solution leaves the step with its program and a position for the arm.
LEMMA SolvedTypes ==
  ASSUME TypeOK, PlaceInv, pc = "solving", NEW p \in Positions, Solved(p)
  PROVE  pc' \in Pcs /\ todo' \in Seq(Ops)
         /\ aim' \in [1..MaxSteps -> Positions \union {None}]
<1>1. plan[i] \in Steps
  BY DEF TypeOK, PlaceInv
<1>2. Program(plan[i]) \in Seq(Ops)
  BY <1>1, ProgramIsSound DEF TypeOK, Sound
<1> QED
  BY <1>2 DEF Solved, TypeOK, Pcs, Ops, Parts

\* Every step preserves the types of what the script has.
LEMMA StepType ==
  ASSUME TypeOK, PlaceInv, AimInv, [Next]_vars
  PROVE  TypeOK'
<1> USE CountAssumption DEF script, goals, world, ik
<1>1. CASE UNCHANGED vars
  BY <1>1 DEF TypeOK, vars
<1>2. CASE BeginStep
  <2>1. plan[i] \in Steps /\ i \in 1..MaxSteps
    BY <1>2 DEF TypeOK, BeginStep
  <2>2. Program(plan[i]) \in Seq(Ops)
    BY <2>1, ProgramIsSound DEF TypeOK, Sound
  <2>3. todo' \in Seq(Ops) /\ pc' \in Pcs
        /\ aim' \in [1..MaxSteps -> Positions \union {None}]
    BY <1>2, <2>2 DEF BeginStep, TypeOK, Pcs, Ops, Parts
  <2> QED
    BY <1>2, <2>3 DEF BeginStep, TypeOK, Ops, Parts
<1>3. CASE Complete \/ NoIkService \/ NoSolution
           \/ \E k \in Parts : \/ NoServer(k) \/ Rejected(k)
                               \/ FailedResult(k) \/ TimeOut(k)
  BY <1>3 DEF Complete, NoIkService, NoSolution, NoServer, Rejected,
              FailedResult, TimeOut, Fail, TypeOK, Pcs
<1>4. CASE JointState \/ ArmMoves
  BY <1>4 DEF JointState, ArmMoves, TypeOK
<1>5. CASE BeginSolve
  BY <1>5 DEF BeginSolve, TypeOK, Pcs
<1>6. ASSUME NEW a \in Positions \union {IkFailed, IkTimeout}, Attempt(a)
      PROVE  TypeOK'
  <2>1. left' \in 0..Attempts /\ answers' \subseteq BOOLEAN \X Positions
    BY <1>6 DEF Attempt, TypeOK
  <2>2. best' \in Positions \union {None}
    BY <1>6 DEF Attempt, TypeOK, Better
  <2>3. pc' \in Pcs /\ todo' \in Seq(Ops)
        /\ aim' \in [1..MaxSteps -> Positions \union {None}]
    <3>1. CASE FirstIsEnough(a)
      BY <1>6, <3>1, SolvedTypes DEF Attempt, FirstIsEnough
    <3>2. CASE ~FirstIsEnough(a)
      BY <1>6, <3>2 DEF Attempt, TypeOK, Ops, Parts
    <3> QED
      BY <3>1, <3>2
  <2> QED
    BY <1>6, <2>1, <2>2, <2>3 DEF Attempt, TypeOK, Ops, Parts
<1>7. CASE TakeBest
  <2>1. best \in Positions
    BY <1>7 DEF TakeBest, TypeOK
  <2>2. pc' \in Pcs /\ todo' \in Seq(Ops)
        /\ aim' \in [1..MaxSteps -> Positions \union {None}]
    BY <1>7, <2>1, SolvedTypes DEF TakeBest
  <2> QED
    BY <1>7, <2>2 DEF TakeBest, TypeOK, Ops, Parts
<1>8. CASE RetryWithCollisions
  <2>1. avoiding' \in BOOLEAN
    BY <1>8 DEF RetryWithCollisions
  <2>2. Attempts \in Nat
    BY CountAssumption
  <2>3. left' \in 0..Attempts
    BY <1>8, <2>2 DEF RetryWithCollisions
  <2> QED
    BY <1>8, <2>1, <2>3 DEF RetryWithCollisions, TypeOK
<1>9. ASSUME NEW k \in Parts, Send(k) \/ Accepted(k) \/ Succeeded(k)
      PROVE  TypeOK'
  <2>1. pc = "doing" /\ todo # <<>> /\ todo' = Tail(todo)
    BY <1>9 DEF Send, Accepted, Succeeded, Now
  <2>2. todo' \in Seq(Ops)
    BY <2>1 DEF TypeOK, Ops, Parts
  <2>3. i \in 1..MaxSteps
    BY <2>1 DEF PlaceInv, Doing, TypeOK
  <2>4. stage' \in [Goals -> Stages] /\ commanded' \in Positions \union {None}
    BY <1>9, <2>3 DEF Send, Accepted, Succeeded, TypeOK, Stages
  <2> QED
    BY <1>9, <2>2, <2>4 DEF Send, Accepted, Succeeded, TypeOK, Ops, Parts
<1>10. CASE EndStep
  <2>1. i' \in 1..(MaxSteps + 1)
    BY <1>10 DEF EndStep, PlaceInv, Doing, TypeOK
  <2> QED
    BY <1>10, <2>1 DEF EndStep, TypeOK, Pcs
<1>11. ASSUME NEW g \in Goals, Execute(g)
       PROVE  TypeOK'
  <2>1. stage' \in [Goals -> Stages]
    BY <1>11 DEF Execute, TypeOK, Stages
  <2>2. cmd' \in Positions
    <3>1. g[1] \in 1..MaxSteps /\ (g[2] = "arm" => g = <<g[1], "arm">>)
      BY DEF Goals
    <3> QED
      BY <1>11, <3>1 DEF Execute, AimInv, TypeOK
  <2> QED
    BY <1>11, <2>1, <2>2 DEF Execute, TypeOK
<1>12. ASSUME NEW g \in Goals, Reject(g) \/ \E c \in Codes \ {""} : Finish(g, c)
       PROVE  TypeOK'
  <2>1. CASE Reject(g)
    <3>1. stage' \in [Goals -> Stages]
      BY <2>1 DEF Reject, TypeOK, Stages
    <3> QED
      BY <2>1, <3>1 DEF Reject, TypeOK
  <2>2. ASSUME NEW c \in Codes, Finish(g, c)
        PROVE  TypeOK'
    <3>1. stage' \in [Goals -> Stages]
      BY <2>2 DEF Finish, TypeOK, Stages
    <3>2. code' \in [Goals -> Codes]
      BY <2>2 DEF Finish, TypeOK
    <3> QED
      BY <2>2, <3>1, <3>2 DEF Finish, TypeOK
  <2> QED
    BY <1>12, <2>1, <2>2
<1> QED
  BY <1>1, <1>2, <1>3, <1>4, <1>5, <1>6, <1>7, <1>8, <1>9, <1>10, <1>11, <1>12
  DEF Next, Parts

\* A plan is a sequence of at most MaxSteps steps.
LEMMA PlansAreShort ==
  ASSUME plan \in Plans
  PROVE  plan \in Seq(Steps) /\ Len(plan) <= MaxSteps
<1> USE CountAssumption
<1>1. CASE tool = "pose"
  <2> DEFINE one == [arm |-> TRUE, hand |-> FALSE, order |-> "arm_then_hand"]
  <2>1. plan = <<one>>
    BY <1>1 DEF Plans
  <2>2. one \in Steps
    BY DEF Steps, Orders
  <2> HIDE DEF one
  <2> QED
    BY <2>1, <2>2
<1>2. CASE tool # "pose"
  <2>1. \E n \in 1..MaxSteps : plan \in [1..n -> Steps]
    <3>1. CASE tool = "demo"
      <4> DEFINE both ==
            [arm |-> TRUE, hand |-> TRUE, order |-> "arm_then_hand"]
      <4>1. plan = [n \in 1..MaxSteps |-> both]
        BY <3>1 DEF Plans
      <4>2. both \in Steps
        BY DEF Steps, Orders
      <4> HIDE DEF both
      <4> QED
        BY <4>1, <4>2
    <3>2. CASE tool # "demo"
      BY <1>2, <3>2 DEF Plans
    <3> QED
      BY <3>1, <3>2
  <2> QED
    BY <2>1
<1> QED
  BY <1>1, <1>2

\* The invariants hold from the start, whatever the plan is.
LEMMA SequenceInit == Init => SequenceInv
<1> SUFFICES ASSUME Init
             PROVE  SequenceInv
  OBVIOUS
<1>1. plan \in Seq(Steps) /\ Len(plan) <= MaxSteps
  BY PlansAreShort DEF Init
<1>2. TypeOK
  <2>1. tool \in Tools /\ topic \in BOOLEAN
    BY DEF Init
  <2>2. todo = <<>> /\ pc = "step" /\ answers = {} /\ left = 0 /\ i = 1
    BY DEF Init
  <2>3. /\ todo \in Seq(Ops) /\ pc \in Pcs
        /\ answers \subseteq BOOLEAN \X Positions
    BY <2>2 DEF Pcs
  <2>4. MaxSteps \in Nat /\ Attempts \in Nat
    BY CountAssumption
  <2>5. left \in 0..Attempts /\ i \in 1..(MaxSteps + 1)
    BY <2>4, <2>2
  <2>6. /\ aim \in [1..MaxSteps -> Positions \union {None}]
        /\ stage \in [Goals -> Stages] /\ code \in [Goals -> Codes]
    BY DEF Init, Stages, Codes
  <2> QED
    BY <1>1, <2>1, <2>3, <2>5, <2>6 DEF Init, TypeOK, Ops, Parts
<1>3. PlaceInv /\ AimInv
  BY DEF Init, PlaceInv, AimInv, Doing, Goals
<1>4. i = 1 /\ ~Doing
  BY DEF Init, Doing
<1>5. \A g \in Planned : ~(g[1] < i)
  BY <1>4 DEF Planned, Goals
<1>6. RestInv /\ StrictInv
  BY <1>4, <1>5 DEF RestInv, StrictInv
<1> QED
  BY <1>2, <1>3, <1>6 DEF SequenceInv

\* Every step preserves the invariants.
LEMMA SequenceStep == SequenceInv /\ [Next]_vars => SequenceInv'
  BY StepType, StepPlace, StepAim, StepRest, StepStrict DEF SequenceInv

\* The invariants hold in every behaviour.
LEMMA SequenceAlways == Spec => []SequenceInv
  BY SequenceInit, SequenceStep, PTL DEF Spec

\* The states of the scripts, the goals and the arm are what TypeOK says:
\* in particular every goal of the arm that is executed has a position.
THEOREM SequenceTypes == Spec => []TypeOK
<1>1. SequenceInv => TypeOK
  BY DEF SequenceInv
<1> QED
  BY <1>1, SequenceAlways, PTL

\* In strict mode the invariant says that what is sent has nothing before it
\* that is not done.
LEMMA OrderFromInvariant == SequenceInv => StrictOrder
<1> SUFFICES ASSUME SequenceInv, ~topic, NEW g \in Planned, NEW h \in Planned,
                    Before(g, h), stage[h] # "none"
             PROVE  Done(g)
  BY DEF StrictOrder
<1> USE DEF SequenceInv
<1>1. /\ g[1] \in Nat /\ h[1] \in Nat /\ i \in Nat /\ h \in Goals
      /\ g[2] \in Parts /\ h[2] \in Parts
      /\ g = <<g[1], g[2]>> /\ h = <<h[1], h[2]>>
      /\ plan[g[1]][g[2]] /\ plan[h[1]][h[2]]
  BY DEF Planned, Goals, Parts, TypeOK
<1>2. h[1] <= i /\ (h[1] = i => Doing)
  BY <1>1 DEF PlaceInv
<1>3. CASE g[1] < i
  BY <1>3 DEF StrictInv
<1>4. CASE g[1] >= i
  <2>1. /\ g[1] = i /\ h[1] = i /\ ~InParallel(plan[i]) /\ h[2] # g[2]
        /\ g[2] = IF plan[i].order = "hand_then_arm" THEN "hand" ELSE "arm"
    BY <1>1, <1>2, <1>4 DEF Before
  <2>2. Doing /\ Sound(plan[i], Whole) /\ Past \in 0..Len(Whole)
    BY <1>2, <2>1, NextOperation
  <2>3. \A m \in 1..Len(Whole), k \in Parts :
          /\ Whole[m] = <<"send", k>> /\ m > Past => stage[<<i, k>>] = "none"
          /\ Whole[m] = <<"wait", k>> /\ m <= Past => Done(<<i, k>>)
    BY <2>2 DEF StrictInv
  <2>4. PICK n \in 1..Len(Whole) : Whole[n] = <<"send", h[2]>>
    BY <1>1, <2>1, <2>2 DEF Sound
  <2>5. PICK m \in 1..(n - 1) : Whole[m] = <<"wait", g[2]>>
    BY <1>1, <2>1, <2>2, <2>4 DEF Sound
  <2> HIDE DEF Whole, Past
  <2>6. n <= Past
    BY <1>1, <2>1, <2>2, <2>3, <2>4
  <2>7. m \in 1..Len(Whole) /\ m <= Past
    BY <2>2, <2>4, <2>5, <2>6
  <2>8. Done(<<i, g[2]>>)
    BY <1>1, <2>3, <2>5, <2>7
  <2> QED
    BY <1>1, <2>1, <2>8
<1> QED
  BY <1>1, <1>3, <1>4

\* In strict mode a goal is sent only when every goal before it has been
\* answered with success (run_sequence() and its waits), in every behaviour.
THEOREM StrictModeIsStrict == Spec => []StrictOrder
  BY OrderFromInvariant, SequenceAlways, PTL

\* The script is complete behind the last step only.
LEMMA CompletionFromInvariant == SequenceInv => CompleteMeansAnswered
  BY SMTT(30)
     DEF SequenceInv, CompleteMeansAnswered, PlaceInv, StrictInv, TypeOK,
         Planned, Goals

\* "Pose sequence complete" is logged only when every goal of the file has been
\* answered with success (strict mode).
THEOREM CompletionIsTrue == Spec => []CompleteMeansAnswered
  BY CompletionFromInvariant, SequenceAlways, PTL

-----------------------------------------------------------------------------
(***************************************************************************)
(* The nearest solution.                                                   *)
(***************************************************************************)

\* Distances are numbers.
LEMMA DistanceIsNat ==
  ASSUME NEW p \in Positions, NEW q \in Positions
  PROVE  Distance(p, q) \in Nat
  BY CountAssumption DEF Distance, Positions

\* A solution of a mode is one that was recorded with that mode.
LEMMA FoundIsRecorded ==
  ASSUME NEW S, S \subseteq BOOLEAN \X Positions, NEW mode, NEW p
  PROVE  p \in {x[2] : x \in {y \in S : y[1] = mode}} <=> <<mode, p>> \in S
<1>1. ASSUME p \in {x[2] : x \in {y \in S : y[1] = mode}}
      PROVE  <<mode, p>> \in S
  <2>1. PICK x \in S : x[1] = mode /\ x[2] = p
    BY <1>1
  <2>2. x = <<x[1], x[2]>>
    OBVIOUS
  <2> QED
    BY <2>1, <2>2
<1>2. ASSUME <<mode, p>> \in S
      PROVE  p \in {x[2] : x \in {y \in S : y[1] = mode}}
  <2>1. <<mode, p>>[1] = mode /\ <<mode, p>>[2] = p
    OBVIOUS
  <2> QED
    BY <1>2, <2>1
<1> QED
  BY <1>1, <1>2

\* The search keeps the nearest solution it has found.
LEMMA StepSolve ==
  ASSUME TypeOK, SolveInv, [Next]_vars
  PROVE  SolveInv'
<1> USE DEF script, ik
<1> SUFFICES ASSUME (pc = "solving" /\ tool = "sequence" /\ seed # None)'
             PROVE  SolveInv'
  BY DEF SolveInv
<1>1. CASE BeginSolve
  BY <1>1 DEF BeginSolve, SolveInv, Found
<1>2. ASSUME NEW a \in Positions \union {IkFailed, IkTimeout}, Attempt(a)
      PROVE  SolveInv'
  <2>1. /\ pc = "solving" /\ tool = "sequence" /\ seed # None
        /\ seed' = seed /\ avoiding' = avoiding /\ seed \in Positions
        /\ best \in Positions \union {None}
    BY <1>2 DEF Attempt, TypeOK
  <2>2. ~FirstIsEnough(a) /\ best' = IF Better(a) THEN a ELSE best
    BY <1>2, <2>1 DEF Attempt, FirstIsEnough
  <2>3. /\ Found(FALSE) \subseteq Positions /\ Found(TRUE) \subseteq Positions
    BY DEF Found, TypeOK
  <2>4. /\ avoiding \in BOOLEAN
        /\ avoiding => Found(FALSE) = {}
        /\ ~avoiding => Found(TRUE) = {}
        /\ best = None => Found(avoiding) = {}
        /\ best # None => /\ best \in Found(avoiding)
                          /\ \A p \in Found(avoiding) :
                               Distance(best, seed) <= Distance(p, seed)
    BY <2>1 DEF SolveInv, TypeOK
  <2>5. CASE a \in Positions
    <3>1. answers' = answers \union {<<avoiding, a>>}
      BY <1>2, <2>5 DEF Attempt
    <3>2. Found(avoiding)' = Found(avoiding) \union {a}
      <4>1. answers' \subseteq BOOLEAN \X Positions
        BY <2>5, <3>1 DEF TypeOK
      <4>2. \A p : p \in Found(avoiding)' <=> <<avoiding, p>> \in answers'
        BY <2>1, <4>1, FoundIsRecorded DEF Found
      <4>3. \A p : p \in Found(avoiding) <=> <<avoiding, p>> \in answers
        BY FoundIsRecorded DEF Found, TypeOK
      <4> QED
        BY <3>1, <4>2, <4>3
    <3>3. /\ avoiding => Found(FALSE)' = {}
          /\ ~avoiding => Found(TRUE)' = {}
      BY <2>4, <3>1 DEF Found
    <3>4. best' # None /\ best' \in Found(avoiding) \union {a}
      BY <2>1, <2>2, <2>4, <2>5 DEF Better, None, Positions
    <3>5. ASSUME NEW p \in Found(avoiding) \union {a}
          PROVE  Distance(best', seed) <= Distance(p, seed)
      <4>1. /\ Distance(a, seed) \in Nat /\ Distance(p, seed) \in Nat
            /\ best # None => Distance(best, seed) \in Nat
        <5>1. p \in Positions /\ (best # None => best \in Positions)
          BY <2>1, <2>3, <2>4, <2>5
        <5> QED
          BY <2>1, <2>5, <5>1, DistanceIsNat
      <4> HIDE DEF Distance
      <4>2. CASE Better(a)
        BY <2>2, <2>4, <2>5, <4>1, <4>2 DEF Better
      <4>3. CASE ~Better(a)
        BY <2>2, <2>4, <2>5, <4>1, <4>3 DEF Better
      <4> QED
        BY <4>2, <4>3
    <3> QED
      BY <2>1, <3>2, <3>3, <3>4, <3>5 DEF SolveInv
  <2>6. CASE a \notin Positions
    <3>1. answers' = answers /\ best' = best
      BY <1>2, <2>2, <2>6 DEF Attempt, Better
    <3> QED
      BY <2>1, <2>4, <3>1 DEF SolveInv, Found
  <2> QED
    BY <2>5, <2>6
<1>3. CASE RetryWithCollisions
  <2>1. /\ pc = "solving" /\ tool = "sequence" /\ seed # None /\ best = None
        /\ avoiding /\ avoiding' = FALSE /\ best' = best /\ answers' = answers
    BY <1>3 DEF RetryWithCollisions
  <2>2. Found(FALSE) = {} /\ Found(TRUE) = {}
    BY <2>1 DEF SolveInv, TypeOK
  <2> QED
    BY <2>1, <2>2 DEF SolveInv, Found
<1>4. CASE \/ UNCHANGED vars \/ BeginStep \/ Complete \/ JointState
           \/ NoIkService \/ TakeBest \/ NoSolution \/ EndStep \/ ArmMoves
           \/ \E k \in {"arm", "hand"} :
                \/ Send(k) \/ NoServer(k) \/ Accepted(k) \/ Rejected(k)
                \/ Succeeded(k) \/ FailedResult(k) \/ TimeOut(k)
           \/ \E g \in Goals : \/ Execute(g) \/ Reject(g)
                               \/ \E c \in Codes \ {""} : Finish(g, c)
  <2>1. UNCHANGED <<pc, tool, seed, avoiding, best, answers>>
    BY <1>4 DEF vars, BeginStep, Complete, JointState, NoIkService, TakeBest,
                Solved, NoSolution, EndStep, ArmMoves, Send, NoServer, Accepted,
                Rejected, Succeeded, FailedResult, TimeOut, Execute, Reject,
                Finish, Fail, Now
  <2> QED
    BY <2>1 DEF SolveInv, Found
<1> QED
  BY <1>1, <1>2, <1>3, <1>4 DEF Next

\* What a sequence executes is the nearest solution while it is carried out.
LEMMA StepNearest ==
  ASSUME TypeOK, PlaceInv, SolveInv, NearestSolution, [Next]_vars
  PROVE  NearestSolution'
<1> USE DEF script, ik
<1> SUFFICES ASSUME (/\ pc = "doing" /\ tool = "sequence" /\ plan[i].arm
                     /\ seed # None)'
             PROVE  NearestSolution'
  BY DEF NearestSolution
<1>1. CASE TakeBest
  <2>1. /\ pc = "solving" /\ tool = "sequence" /\ seed # None /\ best # None
        /\ i' = i /\ seed' = seed /\ answers' = answers
        /\ aim' = [aim EXCEPT ![i] = best]
    BY <1>1 DEF TakeBest, Solved
  <2>2. i \in 1..MaxSteps
    BY <2>1, CountAssumption DEF PlaceInv, TypeOK
  <2>3. aim'[i'] = best
    BY <2>1, <2>2 DEF TypeOK
  <2>4. /\ avoiding \in BOOLEAN
        /\ ~avoiding => Found(TRUE) = {}
        /\ best \in Found(avoiding)
        /\ \A p \in Found(avoiding) :
             Distance(best, seed) <= Distance(p, seed)
    BY <2>1 DEF SolveInv, TypeOK
  <2>5. (IF Found(TRUE) # {} THEN Found(TRUE) ELSE Found(FALSE))
          = Found(avoiding)
    BY <2>4
  <2>6. Found(TRUE)' = Found(TRUE) /\ Found(FALSE)' = Found(FALSE)
    BY <2>1 DEF Found
  <2> QED
    BY <2>1, <2>3, <2>4, <2>5, <2>6 DEF NearestSolution, Found
<1>2. CASE \E a \in Positions \union {IkFailed, IkTimeout} : Attempt(a)
  BY <1>2 DEF Attempt, FirstIsEnough
<1>3. CASE BeginStep
  BY <1>3 DEF BeginStep
<1>4. CASE BeginSolve \/ RetryWithCollisions \/ Complete \/ NoIkService
           \/ NoSolution \/ EndStep
           \/ \E k \in {"arm", "hand"} : \/ NoServer(k) \/ Rejected(k)
                                         \/ FailedResult(k) \/ TimeOut(k)
  BY <1>4 DEF BeginSolve, RetryWithCollisions, Complete, NoIkService,
              NoSolution, EndStep, NoServer, Rejected, FailedResult, TimeOut,
              Fail
<1>5. CASE \/ UNCHANGED vars \/ JointState \/ ArmMoves
           \/ \E k \in {"arm", "hand"} : Send(k) \/ Accepted(k) \/ Succeeded(k)
           \/ \E g \in Goals : \/ Execute(g) \/ Reject(g)
                               \/ \E c \in Codes \ {""} : Finish(g, c)
  <2>1. UNCHANGED <<pc, tool, plan, i, seed, answers, aim>>
    BY <1>5 DEF vars, JointState, ArmMoves, Send, Accepted, Succeeded, Execute,
                Reject, Finish
  <2> QED
    BY <2>1 DEF NearestSolution
<1> QED
  BY <1>1, <1>2, <1>3, <1>4, <1>5 DEF Next

\* A sequence executes the solution nearest to its seed among all that MoveIt
\* has found for the step, and one without collision checking only when there
\* is no other (_solve_ik()): in every behaviour, for any number of attempts.
THEOREM NearestIsExecuted == Spec => []NearestSolution
<1>1. Init => SolveInv /\ NearestSolution
  BY DEF Init, SolveInv, NearestSolution
<1>2. /\ SequenceInv /\ SolveInv /\ NearestSolution /\ [Next]_vars
      => SolveInv' /\ NearestSolution'
  BY StepSolve, StepNearest DEF SequenceInv
<1> QED
  BY <1>1, <1>2, SequenceAlways, PTL DEF Spec

-----------------------------------------------------------------------------
(***************************************************************************)
(* The abstract specification.                                             *)
(***************************************************************************)

\* The order of the goals, those that have been sent, and those answered with
\* success, as StrictSequence sees them.
Order ==
  {x \in Goals \X Goals :
     /\ ~topic /\ x[1] \in Planned /\ x[2] \in Planned
     /\ Before(x[1], x[2])}
Sent == {g \in Planned : ~topic /\ stage[g] # "none"}
Finished == {g \in Planned : ~topic /\ Done(g)}

\* What is to be done, and in which order, is fixed.
LEMMA OrderIsFixed ==
  ASSUME UNCHANGED <<topic, plan>>
  PROVE  Planned' = Planned /\ Order' = Order
<1>1. Planned' = Planned
  BY DEF Planned
<1>2. ASSUME NEW g, NEW h
      PROVE  Before(g, h)' <=> Before(g, h)
  BY DEF Before, InParallel
<1> QED
  BY <1>1, <1>2 DEF Order

\* Where nothing is sent and nothing is answered with success, StrictSequence
\* stutters.
LEMMA QuietStutters ==
  ASSUME UNCHANGED <<topic, plan>>, Sent' = Sent, Finished' = Finished,
         pc' = "complete" <=> pc = "complete"
  PROVE  UNCHANGED Strict!vars
<1>1. Planned' = Planned /\ Order' = Order
  BY OrderIsFixed
<1> QED
  BY <1>1 DEF Strict!vars, Sent, Finished, Order

\* With the hand's topic StrictSequence has no goals.
LEMMA TopicStutters ==
  ASSUME topic, UNCHANGED <<topic, plan>>
  PROVE  UNCHANGED Strict!vars
<1>1. Planned' = Planned /\ Order' = Order
  BY OrderIsFixed
<1> QED
  BY <1>1 DEF Strict!vars, Order

\* The script starts where StrictSequence starts.
LEMMA RefineInit == Init => Strict!Init
  BY DEF Init, Strict!Init, Planned, Done

\* A goal that the script sends in strict mode is one that may start.
LEMMA RefineSend ==
  ASSUME SequenceInv, StrictOrder', ~topic, NEW k \in Parts, Send(k)
  PROVE  Strict!Next
<1> USE DEF script, goals, world, ik
<1>1. PICK g : g = <<i, k>>
  OBVIOUS
<1>2. /\ pc = "doing" /\ Doing /\ todo # <<>>
      /\ Head(todo) \in {<<"send", k>>, <<"publish", k>>}
      /\ UNCHANGED <<topic, plan, pc, code>>
      /\ stage' = [stage EXCEPT ![g] = "sent"]
  BY <1>1 DEF Send, Now, Doing
<1>3. /\ plan[i] \in Steps /\ i \in 1..MaxSteps /\ i <= Len(plan)
      /\ Sound(plan[i], Whole) /\ Past + 1 \in 1..Len(Whole)
      /\ Head(todo) = Whole[Past + 1] /\ Past \in 0..Len(Whole)
  BY <1>2, NextOperation DEF SequenceInv, PlaceInv
<1>4. Whole[Past + 1] = <<"send", k>> /\ plan[i][k]
  BY <1>2, <1>3 DEF Sound
<1>5. g \in Planned
  BY <1>1, <1>3, <1>4 DEF Planned, Goals, Parts
<1>6. stage[g] = "none"
  BY <1>1, <1>2, <1>3, <1>4 DEF SequenceInv, StrictInv
<1>7. stage \in [Goals -> Stages] /\ Planned \subseteq Goals
  BY DEF SequenceInv, TypeOK, Planned
<1>8. Planned' = Planned /\ Order' = Order
  BY <1>2, OrderIsFixed
<1>9. \A h \in Planned : /\ stage'[h] # "none" <=> h = g \/ stage[h] # "none"
                         /\ Done(h)' <=> Done(h)
  BY <1>2, <1>5, <1>6, <1>7 DEF Done
<1>10. Sent' = Sent \union {g} /\ Finished' = Finished /\ g \notin Sent
  BY <1>2, <1>5, <1>6, <1>8, <1>9 DEF Sent, Finished
<1>11. {h \in Planned : <<h, g>> \in Order} \subseteq Finished
  <2>1. ASSUME NEW h \in Planned, Before(h, g)
        PROVE  Done(h)
    <3>1. Before(h, g)'
      BY <1>2, <2>1 DEF Before, InParallel
    <3>2. Done(h)'
      BY <1>2, <1>5, <1>8, <1>9, <3>1 DEF StrictOrder
    <3> QED
      BY <1>9, <3>2
  <2> QED
    BY <2>1 DEF Order, Finished
<1>12. Strict!Start(g)
  BY <1>2, <1>5, <1>8, <1>10, <1>11 DEF Strict!Start, Sent, Finished, Order
<1> QED
  BY <1>5, <1>12 DEF Strict!Next

\* The bridge's answers are what may happen to goals that have been started.
LEMMA RefineAnswer ==
  ASSUME TypeOK, ~topic, NEW g \in Goals,
         Execute(g) \/ Reject(g) \/ \E c \in Codes \ {""} : Finish(g, c)
  PROVE  Strict!Next \/ UNCHANGED Strict!vars
<1> USE DEF script, goals, world, ik
<1>1. /\ stage \in [Goals -> Stages] /\ code \in [Goals -> Codes]
      /\ Planned \subseteq Goals
  BY DEF TypeOK, Planned
<1>2. /\ UNCHANGED <<topic, plan, pc>> /\ Kept
      /\ stage[g] \in {"sent", "running"}
      /\ \A h \in Goals \ {g} : stage'[h] = stage[h] /\ code'[h] = code[h]
  BY <1>1, BridgeKeeps DEF Execute, Reject, Finish
<1>3. Planned' = Planned /\ Order' = Order
  BY <1>2, OrderIsFixed
<1>4. Sent' = Sent
  BY <1>1, <1>2, <1>3 DEF Sent, Kept
<1>5. \A h \in Goals \ {g} : Done(h)' <=> Done(h)
  BY <1>2 DEF Done
<1>6. ~Done(g)
  BY <1>2 DEF Done
<1>7. CASE g \in Planned /\ Done(g)'
  <2>1. Finished' = Finished \union {g} /\ g \in Sent /\ g \notin Finished
    BY <1>1, <1>2, <1>3, <1>5, <1>6, <1>7 DEF Finished, Sent
  <2>2. Strict!Succeed(g)
    BY <1>2, <1>3, <1>4, <2>1 DEF Strict!Succeed, Finished, Sent, Order
  <2> QED
    BY <1>7, <2>2 DEF Strict!Next
<1>8. CASE ~(g \in Planned /\ Done(g)')
  <2>1. Finished' = Finished
    BY <1>1, <1>2, <1>3, <1>5, <1>6, <1>8 DEF Finished
  <2> QED
    BY <1>2, <1>4, <2>1, QuietStutters
<1> QED
  BY <1>7, <1>8

\* The script reports when all its goals are done.
LEMMA RefineComplete ==
  ASSUME SequenceInv, CompleteMeansAnswered', ~topic, Complete
  PROVE  Strict!Next
<1> USE DEF script, goals, world, ik
<1>1. UNCHANGED <<topic, plan, stage, code>> /\ pc' = "complete"
  BY DEF Complete
<1>2. Planned' = Planned /\ Order' = Order
  BY <1>1, OrderIsFixed
<1>3. \A g \in Planned : Done(g)
  BY <1>1, <1>2 DEF CompleteMeansAnswered, Done
<1>4. Sent' = Sent /\ Finished' = Finished /\ Finished = Planned
  BY <1>1, <1>2, <1>3 DEF Sent, Finished, Done
<1>5. Strict!Report
  BY <1>1, <1>2, <1>4 DEF Strict!Report, Sent, Finished, Order
<1> QED
  BY <1>5 DEF Strict!Next

\* Every step is one of StrictSequence or leaves its variables alone.
LEMMA RefineStep ==
  ASSUME SequenceInv, StrictOrder', CompleteMeansAnswered', [Next]_vars
  PROVE  [Strict!Next]_(Strict!vars)
<1> USE DEF script, goals, world, ik
<1>1. UNCHANGED <<topic, plan>>
  BY DEF Next, vars, BeginStep, Complete, JointState, BeginSolve, NoIkService,
         Attempt, TakeBest, RetryWithCollisions, NoSolution, Send, NoServer,
         Accepted, Rejected, Succeeded, FailedResult, TimeOut, EndStep, Execute,
         Reject, Finish, ArmMoves, Fail
<1>2. CASE topic
  BY <1>1, <1>2, TopicStutters
<1>3. CASE ~topic
  <2>1. CASE \E k \in Parts : Send(k)
    BY <1>3, <2>1, RefineSend
  <2>2. CASE \E g \in Goals : \/ Execute(g) \/ Reject(g)
                              \/ \E c \in Codes \ {""} : Finish(g, c)
    BY <1>3, <2>2, RefineAnswer DEF SequenceInv
  <2>3. CASE Complete
    BY <1>3, <2>3, RefineComplete
  <2>4. CASE \/ UNCHANGED vars \/ BeginStep \/ JointState \/ BeginSolve
             \/ NoIkService \/ TakeBest \/ RetryWithCollisions \/ NoSolution
             \/ EndStep \/ ArmMoves
             \/ \E a \in Positions \union {IkFailed, IkTimeout} : Attempt(a)
             \/ \E k \in Parts :
                  \/ NoServer(k) \/ Accepted(k) \/ Rejected(k)
                  \/ Succeeded(k) \/ FailedResult(k) \/ TimeOut(k)
    <3>1. /\ UNCHANGED <<topic, plan, stage, code>>
          /\ pc' = "complete" <=> pc = "complete"
      BY <1>1, <2>4
      DEF vars, BeginStep, JointState, BeginSolve, NoIkService, TakeBest,
          RetryWithCollisions, NoSolution, EndStep, ArmMoves, Attempt, Solved,
          NoServer, Accepted, Rejected, Succeeded, FailedResult, TimeOut, Fail,
          Now
    <3>2. Sent' = Sent /\ Finished' = Finished
      BY <3>1 DEF Sent, Finished, Planned, Done
    <3> QED
      BY <3>1, <3>2, QuietStutters
  <2> QED
    BY <2>1, <2>2, <2>3, <2>4 DEF Next, Parts
<1> QED
  BY <1>2, <1>3

\* In strict mode the script with its action servers does what StrictSequence
\* allows and nothing else, for every plan, whatever times out, is rejected,
\* fails or comes late.
THEOREM SequenceIsStrict == Spec => ImplementsStrict
<1>1. Init => Strict!Init
  BY RefineInit
<1>2. SequenceInv /\ SequenceInv' /\ [Next]_vars => [Strict!Next]_(Strict!vars)
  <2>1. SequenceInv => StrictOrder /\ CompleteMeansAnswered
    BY OrderFromInvariant, CompletionFromInvariant
  <2>2. SequenceInv' => StrictOrder' /\ CompleteMeansAnswered'
    BY <2>1, OrderFromInvariant, CompletionFromInvariant, PTL
  <2> QED
    BY <2>2, RefineStep
<1> QED
  BY <1>1, <1>2, SequenceAlways, PTL DEF Spec, ImplementsStrict, Strict!Spec
===============================================================================
