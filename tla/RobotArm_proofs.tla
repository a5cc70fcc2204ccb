--------------------------- MODULE RobotArm_proofs ---------------------------
(****************************************************************************)
(* Machine-checked proofs about RobotArm, for any callers, layout, step,    *)
(* speed, tolerances and number of retries.                                 *)
(****************************************************************************)
EXTENDS RobotArm, TLAPS

-----------------------------------------------------------------------------
(* The inductive invariant.                                                 *)

\* Only the stages after retract and clearance move sideways.
SidewaysLate == \A c \in Caller : Moving(c) /\ task[c].axis = "horizontal" => task[c].stage >= 3

\* The retract stage heads for a safe height, and has been there when its
\* motor call has arrived; so has every later stage.
RetractFirst == \A c \in Caller : Moving(c) =>
    IF task[c].stage = 1
    THEN /\ task[c].motion # "entered" => task[c].goal <= SafeHeight
         /\ task[c].motion = "arrived" => retracted[c]
    ELSE retracted[c]

ArmInv == TypeOK /\ SidewaysLate /\ RetractFirst

-----------------------------------------------------------------------------
(* Positions and tasks.                                                     *)

\* Setting one axis leaves a position, with that axis set and the other as it was.
LEMMA SetAxis ==
    ASSUME NEW p \in Position, NEW a \in Axis, NEW x \in Int
    PROVE  /\ [p EXCEPT ![a] = x] \in Position
           /\ a = "vertical" => /\ [p EXCEPT ![a] = x].vertical = x
                                /\ [p EXCEPT ![a] = x].horizontal = p.horizontal
           /\ p[a] \in Int
<1>1. CASE a = "vertical"
  <2>1. [p EXCEPT ![a] = x] = [p EXCEPT !.vertical = x] /\ p[a] = p.vertical
    BY <1>1
  <2>2. [p EXCEPT !.vertical = x] = [horizontal |-> p.horizontal, vertical |-> x]
    BY DEF Position
  <2> QED BY <1>1, <2>1, <2>2 DEF Position
<1>2. CASE a = "horizontal"
  <2>1. [p EXCEPT ![a] = x] = [p EXCEPT !.horizontal = x] /\ p[a] = p.horizontal
    BY <1>2
  <2>2. [p EXCEPT !.horizontal = x] = [horizontal |-> x, vertical |-> p.vertical]
    BY DEF Position
  <2> QED BY <1>2, <2>1, <2>2 DEF Position
<1> QED BY <1>1, <1>2 DEF Axis

\* A retry counts.
LEMMA Retried ==
    ASSUME NEW t \in MovingTask, t.attempts < MaxRetry
    PROVE  LET u == [t EXCEPT !.attempts = @ + 1]
           IN  u \in MovingTask /\ u.stage = t.stage
<1>1. t.attempts + 1 \in 0..MaxRetry
  BY ArmAssumption DEF MovingTask, ArmAssumption
<1> QED BY <1>1 DEF MovingTask

\* The next stage begins without a motor call and with all its retries.
LEMMA StageEntered ==
    ASSUME NEW t \in MovingTask, t.stage \in 1..5, t.stage # 5
    PROVE  LET u == [t EXCEPT !.stage = @ + 1, !.attempts = 0, !.motion = "entered"]
           IN  u \in MovingTask /\ u.axis = t.axis /\ u.stage = t.stage + 1
<1>1. t.stage + 1 \in DOMAIN Stages /\ 0 \in 0..MaxRetry
  BY ArmAssumption DEF Stages, ArmAssumption
<1> QED BY <1>1 DEF MovingTask

\* Every height a stage asks for is a length, and the retract stage's is safe.
LEMMA HeightType ==
    ASSUME TypeOK, NEW c \in Caller, Moving(c)
    PROVE  Height(c) \in Int /\ (task[c].stage = 1 => Height(c) <= SafeHeight)
<1>1. task[c] \in MovingTask
  BY DEF TypeOK, Task, Moving
<1>2. /\ task[c].slot.vertical \in Int /\ Clearance[task[c].slot.level] \in Int
      /\ SafeHeight \in Int
  BY <1>1, ArmAssumption DEF MovingTask, ArmAssumption
<1>3. position.vertical \in Int
  BY DEF TypeOK, Position
<1>4. task[c].stage \in 1..5
  BY <1>1 DEF MovingTask, Stages
<1>5. /\ task[c].stage = 1 => Stage(c) = "retract"
      /\ task[c].stage # 1 => Stage(c) # "retract"
  BY <1>4 DEF Stage, Stages
<1> QED BY <1>2, <1>3, <1>5 DEF Height

-----------------------------------------------------------------------------
(* The invariant is inductive.                                              *)

\* The invariant holds at the start.
LEMMA ArmInit == Init => ArmInv
<1> SUFFICES ASSUME Init PROVE ArmInv
  OBVIOUS
<1>1. TypeOK
  BY ArmAssumption DEF Init, TypeOK, Task, ArmAssumption
<1>2. \A c \in Caller : ~ Moving(c)
  BY DEF Init, Moving
<1> QED BY <1>1, <1>2 DEF ArmInv, SidewaysLate, RetractFirst

\* A step that replaces one moving task, moves nothing and forgets no
\* retraction keeps the invariant if the new task satisfies it.
LEMMA TaskReplaced ==
    ASSUME ArmInv, NEW c \in Caller, NEW u \in MovingTask,
           task' = [task EXCEPT ![c] = u], position' = position,
           stopped' \in BOOLEAN, turn' \in Caller \cup {None},
           disturbed' \in [Caller -> BOOLEAN], retracted' = retracted,
           u.axis = "horizontal" => u.stage >= 3,
           IF u.stage = 1 THEN /\ u.motion # "entered" => u.goal <= SafeHeight
                               /\ u.motion = "arrived" => retracted[c]
                          ELSE retracted[c]
    PROVE  ArmInv'
<1>1. task'[c] = u /\ \A o \in Caller : o # c => task'[o] = task[o]
  BY DEF ArmInv, TypeOK
<1>2. TypeOK'
  BY DEF ArmInv, TypeOK, Task
<1>3. SidewaysLate'
  BY <1>1 DEF ArmInv, SidewaysLate, Moving
<1>4. RetractFirst'
  BY <1>1 DEF ArmInv, RetractFirst, Moving
<1> QED BY <1>2, <1>3, <1>4 DEF ArmInv

\* A step that ends a move, or moves no task, keeps the invariant.
LEMMA TaskEnded ==
    ASSUME ArmInv, NEW c \in Caller, NEW s \in {"success", "failed", "cancelled"},
           task' = [task EXCEPT ![c] = [status |-> s]], position' = position,
           stopped' \in BOOLEAN, turn' \in Caller \cup {None},
           disturbed' \in [Caller -> BOOLEAN], retracted' = retracted
    PROVE  ArmInv'
<1>1. task'[c] = [status |-> s] /\ \A o \in Caller : o # c => task'[o] = task[o]
  BY DEF ArmInv, TypeOK
<1>2. TypeOK'
  BY DEF ArmInv, TypeOK, Task
<1>3. ~ Moving(c)' /\ \A o \in Caller : o # c => (Moving(o)' <=> Moving(o))
  BY <1>1 DEF Moving
<1>4. SidewaysLate' /\ RetractFirst'
  BY <1>1, <1>3 DEF ArmInv, SidewaysLate, RetractFirst
<1> QED BY <1>2, <1>4 DEF ArmInv

\* A task that moves is in one of five stages, of which the last three align.
LEMMA MovingType ==
    ASSUME TypeOK, NEW c \in Caller, Moving(c)
    PROVE  /\ task[c] \in MovingTask
           /\ task[c].stage \in 1..5
           /\ Aligns(c) <=> task[c].stage >= 3
<1>1. task[c] \in MovingTask
  BY DEF TypeOK, Task, Moving
<1>2. task[c].stage \in 1..5
  BY <1>1 DEF MovingTask, Stages
<1> QED BY <1>1, <1>2 DEF Aligns, Stage, Stages

\* The end of a stage keeps the invariant.
LEMMA SucceedKeeps ==
    ASSUME ArmInv, NEW c \in Caller, Ended(c), Succeed(c),
           task[c].stage = 1 => retracted[c],
           task[c].axis = "horizontal" => task[c].stage >= 3
    PROVE  ArmInv'
<1>1. Moving(c)
  BY DEF Ended, In
<1>2. task[c] \in MovingTask /\ task[c].stage \in 1..5 /\ Len(Stages) = 5
  BY <1>1, MovingType DEF ArmInv, Stages
<1>3. retracted[c]
  BY <1>1 DEF ArmInv, RetractFirst
<1>4. stopped' \in BOOLEAN /\ disturbed' \in [Caller -> BOOLEAN] /\ retracted' = retracted
      /\ position' = position /\ turn' \in Caller \cup {None}
  BY DEF Succeed, Returns, ArmInv, TypeOK
<1>5. CASE task[c].stage = 5
  <2>1. task' = [task EXCEPT ![c] = [status |-> "success"]]
    BY <1>2, <1>5 DEF Succeed, Returns
  <2> QED BY <1>4, <2>1, TaskEnded
<1>6. CASE task[c].stage # 5
  <2> DEFINE u == [task[c] EXCEPT !.stage = @ + 1, !.attempts = 0, !.motion = "entered"]
  <2>1. task' = [task EXCEPT ![c] = u]
    BY <1>2, <1>6 DEF Succeed, ArmInv, TypeOK
  <2>2. u \in MovingTask /\ u.axis = task[c].axis /\ u.stage = task[c].stage + 1
    BY <1>2, <1>6, StageEntered
  <2> HIDE DEF u
  <2>3. u.stage # 1 /\ (u.axis = "horizontal" => u.stage >= 3)
    BY <1>2, <2>2
  <2> QED BY <1>3, <1>4, <2>1, <2>2, <2>3, TaskReplaced
<1> QED BY <1>5, <1>6

\* The failure of a stage keeps the invariant.
LEMMA FailKeeps ==
    ASSUME ArmInv, NEW c \in Caller, Fail(c)
    PROVE  ArmInv'
<1>1. disturbed' \in [Caller -> BOOLEAN]
  BY DEF Fail, Disturbs, ArmInv, TypeOK, Moving
<1> QED BY <1>1, TaskEnded DEF Fail, Returns, ArmInv, TypeOK

\* A motor call keeps the invariant: the retract stage asks for a safe height,
\* and only an aligning stage for a sideways move.
LEMMA CommandKeeps ==
    ASSUME ArmInv, NEW c \in Caller, Moving(c),
           NEW t \in MovingTask, t.stage = task[c].stage,
           NEW a \in Axis, NEW g \in Int, Command(c, t, a, g),
           a = "horizontal" => t.stage >= 3,
           t.stage = 1 => a = "vertical" /\ g <= SafeHeight
    PROVE  ArmInv'
<1> DEFINE u == [t EXCEPT !.axis = a, !.goal = g, !.motion = "driving"]
<1>1. u \in MovingTask /\ u.axis = a /\ u.goal = g /\ u.stage = t.stage
  BY DEF MovingTask
<1>2. u.motion = "driving"
  BY DEF MovingTask
<1>3. task' = [task EXCEPT ![c] = u]
  BY DEF Command
<1> HIDE DEF u
<1>4. disturbed' \in [Caller -> BOOLEAN]
  BY DEF Command, Disturbs, ArmInv, TypeOK, Moving
<1>5. t.stage # 1 => retracted[c]
  BY DEF ArmInv, RetractFirst
<1>6. /\ position' = position /\ retracted' = retracted /\ stopped' \in BOOLEAN
      /\ turn' \in Caller \cup {None}
  BY DEF Command, ArmInv, TypeOK
<1> QED BY <1>1, <1>2, <1>3, <1>4, <1>5, <1>6, TaskReplaced

-----------------------------------------------------------------------------
(* The actions.                                                             *)

\* A motor step keeps the invariant: in the retract stage, arriving is being
\* at a safe height.
LEMMA DriveKeeps ==
    ASSUME ArmInv, NEW c \in Caller, Drive(c)
    PROVE  ArmInv'
<1> DEFINE a == task[c].axis
<1>1. In(c, "driving") /\ Moving(c)
  BY DEF Drive, Arrive, Advance, In
<1>2. task[c] \in MovingTask
  BY <1>1, MovingType DEF ArmInv
<1>3. a \in Axis /\ task[c].goal \in Int /\ position \in Position
  BY <1>2 DEF ArmInv, TypeOK, MovingTask
<1>4. PICK x \in Int : /\ MoveTo(c, x)
                       /\ Arrive(c) => x = task[c].goal
  <2>1. CASE Arrive(c)
    BY <1>3, <2>1 DEF Arrive
  <2>2. CASE Advance(c) /\ ~ Arrive(c)
    <3>1. position[a] \in Int
      BY <1>3, SetAxis, Zenon
    <3>2. StepSize * Speed \in Int
      BY ArmAssumption DEF ArmAssumption
    <3> QED BY <2>2, <3>1, <3>2 DEF Advance
  <2> QED BY <2>1, <2>2 DEF Drive
<1>5. /\ position' = [position EXCEPT ![a] = x]
      /\ position' \in Position
      /\ a = "vertical" => position'.vertical = x
  BY <1>3, <1>4, SetAxis DEF MoveTo
<1>6. /\ disturbed' \in [Caller -> BOOLEAN]
      /\ retracted' \in [Caller -> BOOLEAN]
      /\ \A o \in Caller : retracted[o] => retracted'[o]
      /\ position'.vertical <= SafeHeight => retracted'[c]
  BY <1>1, <1>4 DEF MoveTo, Disturbs, ArmInv, TypeOK, Moving
<1>7. stopped' \in BOOLEAN /\ turn' \in Caller \cup {None}
  BY DEF Drive, Arrive, Advance, CallEnds, ArmInv, TypeOK
<1>8. CASE Arrive(c)
  <2> DEFINE u == [task[c] EXCEPT !.motion = "arrived"]
  <2>1. task' = [task EXCEPT ![c] = u]
    BY <1>8 DEF Arrive, CallEnds, ArmInv, TypeOK
  <2>2. /\ u \in MovingTask /\ u.motion = "arrived" /\ u.stage = task[c].stage
        /\ u.axis = a /\ u.goal = task[c].goal
    BY <1>2 DEF MovingTask
  <2> HIDE DEF u
  <2>3. task'[c] = u /\ \A o \in Caller : o # c => task'[o] = task[o]
    BY <2>1 DEF ArmInv, TypeOK
  <2>4. TypeOK'
    BY <1>5, <1>6, <1>7, <2>1, <2>2 DEF ArmInv, TypeOK, Task
  <2>5. SidewaysLate'
    BY <1>1, <2>2, <2>3 DEF ArmInv, SidewaysLate, Moving
  <2>6. RetractFirst'
    <3>1. u.stage = 1 => u.goal <= SafeHeight /\ retracted'[c]
      <4>1. SUFFICES ASSUME u.stage = 1
                     PROVE  u.goal <= SafeHeight /\ retracted'[c]
        OBVIOUS
      <4>2. task[c].goal <= SafeHeight
        BY <1>1, <2>2, <4>1 DEF ArmInv, RetractFirst, In
      <4>3. a = "vertical"
        <5>1. task[c].stage = 1
          BY <2>2, <4>1
        <5>2. task[c].axis = "horizontal" => task[c].stage >= 3
          BY <1>1 DEF ArmInv, SidewaysLate
        <5> QED BY <1>3, <5>1, <5>2 DEF Axis
      <4> QED BY <1>4, <1>5, <1>6, <1>8, <2>2, <4>2, <4>3
    <3>2. u.stage # 1 => retracted'[c]
      BY <1>1, <1>6, <2>2 DEF ArmInv, RetractFirst
    <3>3. \A o \in Caller : o # c => (Moving(o)' <=> Moving(o))
      BY <2>3 DEF Moving
    <3> QED BY <1>6, <2>2, <2>3, <3>1, <3>2, <3>3 DEF ArmInv, RetractFirst
  <2> QED BY <2>4, <2>5, <2>6 DEF ArmInv
<1>9. CASE Advance(c)
  <2>1. task' = task
    BY <1>9 DEF Advance
  <2>2. TypeOK' /\ SidewaysLate'
    BY <1>5, <1>6, <1>7, <2>1 DEF ArmInv, TypeOK, SidewaysLate, Moving
  <2>3. RetractFirst'
    BY <1>6, <2>1 DEF ArmInv, RetractFirst, Moving
  <2> QED BY <2>2, <2>3 DEF ArmInv
<1> QED BY <1>8, <1>9 DEF Drive

\* So do the motor calls that end early.
LEMMA HaltKeeps ==
    ASSUME ArmInv, NEW c \in Caller, Halt(c) \/ Raise(c)
    PROVE  ArmInv'
<1>1. In(c, "driving") /\ Moving(c)
  BY DEF Halt, Raise, In
<1>2. task[c] \in MovingTask
  BY <1>1, MovingType DEF ArmInv
<1>3. PICK m \in {"halted", "raised"} : CallEnds(c, m)
  BY DEF Halt, Raise
<1> DEFINE u == [task[c] EXCEPT !.motion = m]
<1>4. task' = [task EXCEPT ![c] = u]
  BY <1>3 DEF CallEnds, ArmInv, TypeOK
<1>5. /\ u \in MovingTask /\ u.motion = m /\ u.stage = task[c].stage
      /\ u.axis = task[c].axis /\ u.goal = task[c].goal
  BY <1>2 DEF MovingTask
<1> HIDE DEF u
<1>6. /\ u.axis = "horizontal" => u.stage >= 3
      /\ IF u.stage = 1 THEN u.goal <= SafeHeight /\ u.motion # "arrived" ELSE retracted[c]
  BY <1>1, <1>5 DEF ArmInv, SidewaysLate, RetractFirst, In
<1>7. /\ position' = position /\ retracted' = retracted /\ stopped' \in BOOLEAN
      /\ disturbed' \in [Caller -> BOOLEAN] /\ turn' \in Caller \cup {None}
  BY <1>3 DEF Halt, Raise, CallEnds, ArmInv, TypeOK
<1> QED BY <1>4, <1>5, <1>6, <1>7, TaskReplaced

\* A stage that begins, or goes on to its sideways move, keeps the invariant.
LEMMA EnterKeeps ==
    ASSUME ArmInv, NEW c \in Caller, EnterStage(c) \/ MoveHorizontal(c)
    PROVE  ArmInv'
<1>1. Moving(c)
  BY DEF EnterStage, MoveHorizontal, Ended, In
<1>2. task[c] \in MovingTask /\ (Aligns(c) => task[c].stage >= 3)
  BY <1>1, MovingType DEF ArmInv
<1>3. CASE EnterStage(c)
  BY <1>1, <1>2, <1>3, HeightType, CommandKeeps DEF EnterStage, ArmInv, Axis
<1>4. CASE MoveHorizontal(c)
  <2>1. task[c].slot.horizontal \in Int
    BY <1>2, ArmAssumption DEF MovingTask, ArmAssumption
  <2>2. task[c].stage \in Int
    BY <1>1, MovingType DEF ArmInv
  <2> QED BY <1>1, <1>2, <1>4, <2>1, <2>2, CommandKeeps DEF MoveHorizontal, Axis
<1> QED BY <1>3, <1>4

\* A stage that ends keeps the invariant.
LEMMA StageKeeps ==
    ASSUME ArmInv, NEW c \in Caller, Lifted(c) \/ Verify(c) \/ StageRaises(c)
    PROVE  ArmInv'
<1>1. Moving(c)
  BY DEF Lifted, Verify, StageRaises, Ended, In
<1>2. /\ task[c] \in MovingTask /\ task[c].stage \in 1..5
      /\ Aligns(c) <=> task[c].stage >= 3
      /\ task[c].axis = "horizontal" => task[c].stage >= 3
  BY <1>1, MovingType DEF ArmInv, SidewaysLate
<1>3. CASE Fail(c)
  BY <1>3, FailKeeps
<1>4. CASE Lifted(c) /\ Succeed(c) /\ In(c, "arrived")
  <2>1. task[c].stage = 1 => retracted[c]
    BY <1>1, <1>4 DEF ArmInv, RetractFirst, In
  <2> QED BY <1>2, <1>4, <2>1, SucceedKeeps DEF Ended
<1>5. CASE Verify(c) /\ Succeed(c)
  <2>1. task[c].stage # 1
    BY <1>2, <1>5 DEF Verify
  <2> QED BY <1>2, <1>5, <2>1, SucceedKeeps DEF Verify
<1>6. CASE /\ Verify(c) /\ task[c].attempts < MaxRetry
           /\ Command(c, [task[c] EXCEPT !.attempts = @ + 1], "vertical", Height(c))
  <2> DEFINE u == [task[c] EXCEPT !.attempts = @ + 1]
  <2>1. u \in MovingTask /\ u.stage = task[c].stage
    <3>1. task[c].attempts + 1 \in 0..MaxRetry
      BY <1>2, <1>6, ArmAssumption DEF MovingTask, ArmAssumption
    <3> QED BY <1>2, <3>1 DEF MovingTask
  <2>2. Command(c, u, "vertical", Height(c))
    BY <1>6
  <2> HIDE DEF u
  <2>3. Height(c) \in Int /\ (u.stage = 1 => Height(c) <= SafeHeight)
    BY <1>1, <2>1, HeightType DEF ArmInv
  <2> QED BY <1>1, <2>1, <2>2, <2>3, CommandKeeps DEF Axis
<1> QED BY <1>3, <1>4, <1>5, <1>6 DEF Lifted, Verify, StageRaises

\* A new move begins with its retract stage.
LEMMA MoveKeeps ==
    ASSUME ArmInv, NEW c \in Caller, NEW s \in Slot, MoveToSlot(c, s)
    PROVE  ArmInv'
<1> DEFINE u == [status |-> "moving", slot |-> s, stage |-> 1, attempts |-> 0,
                 axis |-> "vertical", goal |-> 0, motion |-> "entered"]
<1>1. u \in MovingTask
  BY ArmAssumption DEF MovingTask, Stages, Axis, ArmAssumption
<1>2. task' = [task EXCEPT ![c] = u]
  BY DEF MoveToSlot
<1>3. u.motion = "entered" /\ u.stage = 1 /\ u.axis = "vertical"
  OBVIOUS
<1> HIDE DEF u
<1>4. task'[c] = u /\ \A o \in Caller : o # c => task'[o] = task[o] /\ retracted'[o] = retracted[o]
  BY <1>2 DEF MoveToSlot, ArmInv, TypeOK
<1>5. TypeOK'
  BY <1>1, <1>2 DEF MoveToSlot, ArmInv, TypeOK, Task
<1>6. SidewaysLate'
  BY <1>3, <1>4 DEF ArmInv, SidewaysLate, Moving
<1>7. RetractFirst'
  BY <1>3, <1>4 DEF ArmInv, RetractFirst, Moving
<1> QED BY <1>5, <1>6, <1>7 DEF ArmInv

\* Every step keeps the invariant.
LEMMA ArmStep == ArmInv /\ [Next]_vars => ArmInv'
<1> SUFFICES ASSUME ArmInv, [Next]_vars PROVE ArmInv'
  OBVIOUS
<1>1. CASE UNCHANGED vars
  BY <1>1 DEF vars, ArmInv, TypeOK, SidewaysLate, RetractFirst, Moving
<1>2. CASE StopAll
  BY <1>2 DEF StopAll, ArmInv, TypeOK, SidewaysLate, RetractFirst, Moving
<1>3. ASSUME NEW c \in Caller, Works(c) PROVE ArmInv'
  BY <1>3, DriveKeeps, HaltKeeps, EnterKeeps, StageKeeps DEF Works
<1>4. ASSUME NEW c \in Caller, Cancel(c) PROVE ArmInv'
  BY <1>4, TaskEnded DEF Cancel, Returns, ArmInv, TypeOK
<1> QED BY <1>1, <1>2, <1>3, <1>4, HaltKeeps, MoveKeeps DEF Next

\* The invariant holds for ever.
LEMMA ArmInvHolds == Spec => []ArmInv
<1> QED BY ArmInit, ArmStep, PTL DEF Spec

-----------------------------------------------------------------------------
(* The theorems.                                                            *)

\* TypeOK: every variable keeps its type; in particular no retry loop makes
\* more than max_retry_attempts corrections (retry.py:41).
THEOREM TypeCorrect == Spec => []TypeOK
<1>1. ArmInv => TypeOK
  BY DEF ArmInv
<1> QED BY <1>1, ArmInvHolds, PTL

\* A task's progress is changed by that task alone.
LEMMA OwnProgress ==
    ASSUME ArmInv, NEW c \in Caller, NEW d \in Caller, c # d,
           Works(d) \/ Raise(d) \/ Cancel(d) \/ \E s \in Slot : MoveToSlot(d, s)
    PROVE  task'[c] = task[c]
<1>1. task \in [Caller -> Task]
  BY DEF ArmInv, TypeOK
<1>2. CASE Drive(d) \/ Halt(d) \/ Raise(d)
  BY <1>1, <1>2 DEF Drive, Arrive, Advance, Halt, Raise, CallEnds
<1>3. CASE EnterStage(d) \/ MoveHorizontal(d)
  BY <1>1, <1>3 DEF EnterStage, MoveHorizontal, Command
<1>4. CASE Lifted(d) \/ Verify(d) \/ StageRaises(d)
  BY <1>1, <1>4 DEF Lifted, Verify, StageRaises, Succeed, Fail, Returns, Command
<1>5. CASE Cancel(d) \/ \E s \in Slot : MoveToSlot(d, s)
  BY <1>1, <1>5 DEF Cancel, MoveToSlot, Returns
<1> QED BY <1>2, <1>3, <1>4, <1>5 DEF Works

\* A task that makes a motor call, or is in one, goes on.
LEMMA GoesOn ==
    ASSUME ArmInv, NEW c \in Caller, Moving(c),
           \/ Drive(c) \/ Halt(c) \/ Raise(c) \/ EnterStage(c) \/ MoveHorizontal(c)
           \/ Command(c, [task[c] EXCEPT !.attempts = @ + 1], "vertical", Height(c))
    PROVE  Moving(c)'
<1>1. task \in [Caller -> Task] /\ task[c] \in MovingTask
  BY MovingType DEF ArmInv, TypeOK
<1>2. CASE EnterStage(c) \/ MoveHorizontal(c)
  <2>1. PICK a, g : Command(c, task[c], a, g)
    BY <1>2 DEF EnterStage, MoveHorizontal
  <2>2. task'[c] = [task[c] EXCEPT !.axis = a, !.goal = g, !.motion = "driving"]
    BY <1>1, <2>1 DEF Command
  <2> QED BY <1>1, <2>2 DEF MovingTask, Moving
<1>3. CASE Command(c, [task[c] EXCEPT !.attempts = @ + 1], "vertical", Height(c))
  <2>1. task'[c] = [[task[c] EXCEPT !.attempts = @ + 1]
                       EXCEPT !.axis = "vertical", !.goal = Height(c), !.motion = "driving"]
    BY <1>1, <1>3 DEF Command
  <2> QED BY <1>1, <2>1 DEF MovingTask, Moving
<1>4. CASE Arrive(c) \/ Halt(c) \/ Raise(c)
  <2>1. PICK m \in {"arrived", "halted", "raised"} : task'[c] = [task[c] EXCEPT !.motion = m]
    BY <1>1, <1>4 DEF Arrive, Halt, Raise, CallEnds
  <2> QED BY <1>1, <2>1 DEF MovingTask, Moving
<1>5. CASE Advance(c)
  BY <1>5 DEF Advance, Moving
<1> QED BY <1>2, <1>3, <1>4, <1>5 DEF Drive

\* A move ends by a cancellation, by a stage that fails, or after its last
\* stage has compared the position with the slot.
LEMMA EndsByItself ==
    ASSUME ArmInv, [Next]_vars, NEW c \in Caller, Moving(c), ~ Moving(c)'
    PROVE  \/ task'[c].status = "cancelled"
           \/ task'[c].status = "success" /\ Succeed(c) /\ AtSlot(position, task[c].slot)
           \/ /\ task'[c].status = "failed"
              /\ In(c, "raised") \/ In(c, "halted") \/ (Verify(c) /\ ~ AtSlot(position, task[c].slot))
<1>1. /\ task \in [Caller -> Task] /\ task[c] \in MovingTask
      /\ task[c].stage \in 1..5 /\ (Aligns(c) <=> task[c].stage >= 3)
  BY MovingType DEF ArmInv, TypeOK
<1>2. ~ UNCHANGED vars /\ ~ StopAll
  BY DEF vars, StopAll, Moving
<1>3. Works(c) \/ Raise(c) \/ Cancel(c) \/ \E s \in Slot : MoveToSlot(c, s)
  <2>1. PICK d \in Caller : Works(d) \/ Raise(d) \/ Cancel(d) \/ \E s \in Slot : MoveToSlot(d, s)
    BY <1>2 DEF Next
  <2>2. d = c
    BY <2>1, OwnProgress DEF Moving
  <2> QED BY <2>1, <2>2
<1>4. CASE Cancel(c)
  BY <1>1, <1>4 DEF Cancel, Returns
<1>5. ASSUME Fail(c) PROVE task'[c].status = "failed"
  BY <1>1, <1>5 DEF Fail, Returns
<1>6. ASSUME Succeed(c)
      PROVE  task[c].stage = 5 /\ task'[c].status = "success"
  <2>1. task[c].stage = Len(Stages)
    <3>1. SUFFICES ASSUME task[c].stage # Len(Stages) PROVE FALSE
      OBVIOUS
    <3>2. task'[c] = [task[c] EXCEPT !.stage = @ + 1, !.attempts = 0, !.motion = "entered"]
      BY <1>1, <1>6, <3>1 DEF Succeed
    <3> QED BY <1>1, <3>2 DEF MovingTask, Moving
  <2> QED BY <1>1, <1>6, <2>1 DEF Succeed, Returns, Stages
<1>7. ~ \E s \in Slot : MoveToSlot(c, s)
  BY DEF MoveToSlot
<1>8. Lifted(c) \/ Verify(c) \/ StageRaises(c) \/ Cancel(c)
  BY <1>3, <1>7, GoesOn DEF Works
<1>9. CASE Lifted(c)
  <2>1. ~ Succeed(c)
    BY <1>1, <1>6, <1>9 DEF Lifted
  <2> QED BY <1>5, <1>9, <2>1 DEF Lifted
<1>10. CASE Verify(c)
  BY <1>5, <1>6, <1>10, GoesOn DEF Verify
<1> QED BY <1>4, <1>5, <1>8, <1>9, <1>10 DEF StageRaises

\* A task that reports success has just compared the position with its slot.
LEMMA SuccessVerified ==
    ASSUME ArmInv, [Next]_vars, NEW c \in Caller, Moving(c), task'[c].status = "success"
    PROVE  AtSlot(position', task[c].slot)
<1>1. Succeed(c) /\ AtSlot(position, task[c].slot)
  BY EndsByItself DEF Moving
<1> QED BY <1>1 DEF Succeed

\* ArrivedOnSuccess: move_to_slot returns success only with the arm at its
\* slot, whatever other moves, stops and cancellations come in between.
THEOREM SuccessIsArrival == Spec => ArrivedOnSuccess
<1>1. ArmInv /\ [Next]_vars => [\A c \in Caller :
          Moving(c) /\ task'[c].status = "success" => AtSlot(position', task[c].slot)]_vars
  BY SuccessVerified
<1> QED BY <1>1, ArmInvHolds, PTL DEF Spec, ArrivedOnSuccess

\* A motor step that moves the arm sideways is one of a horizontal motor call.
LEMMA TravelsOnAxis ==
    ASSUME ArmInv, NEW c \in Caller, Travels(c)
    PROVE  In(c, "driving") /\ Moving(c) /\ task[c].axis = "horizontal"
<1>1. In(c, "driving") /\ Moving(c)
  BY DEF Travels, Drive, Arrive, Advance, In
<1>2. task[c] \in MovingTask /\ position \in Position
  BY <1>1, MovingType DEF ArmInv, TypeOK
<1>3. PICK x : position' = [position EXCEPT ![task[c].axis] = x]
  BY DEF Travels, Drive, Arrive, Advance, MoveTo
<1>4. task[c].axis # "vertical"
  <2>1. SUFFICES ASSUME task[c].axis = "vertical" PROVE FALSE
    OBVIOUS
  <2>2. position' = [position EXCEPT !.vertical = x]
    BY <1>3, <2>1
  <2>3. position'.horizontal = position.horizontal
    BY <1>2, <2>2 DEF Position
  <2> QED BY <2>3 DEF Travels
<1> QED BY <1>1, <1>2, <1>4 DEF MovingTask, Axis

\* TravelsRetracted: no task moves the arm sideways before its own move has
\* retracted it, also if it was stopped or another task has moved it since.
THEOREM RetractedBeforeTravel == Spec => TravelsRetracted
<1>1. ArmInv => [\A c \in Caller : Travels(c) => retracted[c]]_vars
  <2> SUFFICES ASSUME ArmInv, NEW c \in Caller, Travels(c) PROVE retracted[c]
    OBVIOUS
  <2>1. Moving(c) /\ task[c].stage >= 3
    BY TravelsOnAxis DEF ArmInv, SidewaysLate
  <2> QED BY <2>1 DEF ArmInv, RetractFirst
<1> QED BY <1>1, ArmInvHolds, PTL DEF Spec, TravelsRetracted

-----------------------------------------------------------------------------
(* Moves that nobody disturbs.                                              *)

\* A move that has been left alone is not stopped, each motor call that has
\* arrived is at its goal, and an aligning stage moves sideways only at the
\* slot's height.
Calm(c) == LET t == task[c] IN
    /\ t.motion # "halted"
    /\ t.motion = "driving" => ~ stopped
    /\ t.motion = "arrived" => position[t.axis] = t.goal
    /\ t.stage >= 3 /\ t.motion # "entered" =>
         /\ t.axis = "vertical" => t.goal = t.slot.vertical
         /\ t.axis = "horizontal" => /\ t.goal = t.slot.horizontal
                                     /\ position.vertical = t.slot.vertical

CalmInv == \A c \in Caller : Moving(c) /\ ~ disturbed[c] => Calm(c)

\* The steps of a task.
Acts(c) == Works(c) \/ Raise(c) \/ Cancel(c) \/ \E s \in Slot : MoveToSlot(c, s)

\* What another task does disturbs a move or leaves all it depends on alone.
LEMMA LeftAlone ==
    ASSUME ArmInv, NEW c \in Caller, NEW d \in Caller, c # d, Acts(d),
           Moving(c)', ~ disturbed'[c]
    PROVE  /\ Moving(c) /\ ~ disturbed[c] /\ task'[c] = task[c]
           /\ position' = position /\ stopped' = stopped
<1>1. task'[c] = task[c] /\ Moving(c)
  BY OwnProgress DEF Acts, Moving
<1>2. disturbed \in [Caller -> BOOLEAN]
  BY DEF ArmInv, TypeOK
<1>3. ~ Disturbs(d)
  BY <1>1 DEF Disturbs
<1>4. ~ Drive(d) /\ ~ EnterStage(d) /\ ~ MoveHorizontal(d) /\ ~ StageRaises(d)
  BY <1>3 DEF Drive, Arrive, Advance, MoveTo, EnterStage, MoveHorizontal, Command,
              StageRaises, Fail
<1>5. Halt(d) \/ Raise(d) \/ Cancel(d) \/ Succeed(d) \/ \E s \in Slot : MoveToSlot(d, s)
  BY <1>3, <1>4 DEF Acts, Works, Lifted, Verify, Command, Fail
<1>6. /\ position' = position /\ stopped' = stopped
      /\ disturbed'[c] = disturbed[c]
  BY <1>2, <1>5 DEF Halt, Raise, Cancel, Succeed, MoveToSlot
<1> QED BY <1>1, <1>6

\* A motor call begins with the stop flag cleared.
LEMMA CommandCalm ==
    ASSUME ArmInv, NEW c \in Caller, Moving(c), NEW t \in MovingTask,
           NEW a \in Axis, NEW g \in Int, Command(c, t, a, g),
           t.stage >= 3 => /\ a = "vertical" => g = t.slot.vertical
                           /\ a = "horizontal" => /\ g = t.slot.horizontal
                                                  /\ position.vertical = t.slot.vertical
    PROVE  Calm(c)'
<1> DEFINE u == [t EXCEPT !.axis = a, !.goal = g, !.motion = "driving"]
<1>1. /\ u.axis = a /\ u.goal = g /\ u.motion = "driving"
      /\ u.stage = t.stage /\ u.slot = t.slot
  BY DEF MovingTask
<1>2. task'[c] = u
  BY DEF Command, ArmInv, TypeOK
<1> HIDE DEF u
<1>3. stopped' = FALSE /\ position' = position
  BY DEF Command
<1> QED BY <1>1, <1>2, <1>3 DEF Calm

\* What disturbs a task, it does not do to itself.
LEMMA OwnDisturbance ==
    ASSUME ArmInv, NEW c \in Caller, Works(c) \/ Raise(c) \/ Cancel(c)
    PROVE  disturbed'[c] = disturbed[c]
<1>1. disturbed \in [Caller -> BOOLEAN]
  BY DEF ArmInv, TypeOK
<1>2. disturbed' = disturbed \/ Disturbs(c)
  BY DEF Works, Drive, Arrive, Advance, MoveTo, Halt, EnterStage, MoveHorizontal,
         Lifted, Verify, StageRaises, Succeed, Fail, Command, Raise, Cancel
<1> QED BY <1>1, <1>2 DEF Disturbs

\* A motor step of a calm move: it arrives at its goal, or goes on.
LEMMA DriveCalm ==
    ASSUME ArmInv, NEW c \in Caller, Calm(c), Drive(c)
    PROVE  Calm(c)'
<1>1. In(c, "driving") /\ Moving(c) /\ ~ stopped /\ stopped' = stopped
  BY DEF Drive, Arrive, Advance, In
<1>2. task[c] \in MovingTask /\ position \in Position
  BY <1>1, MovingType DEF ArmInv, TypeOK
<1>3. task[c].axis \in Axis /\ task[c].goal \in Int
  BY <1>2 DEF MovingTask
<1>4. ASSUME NEW x \in Int, MoveTo(c, x)
      PROVE  /\ position'[task[c].axis] = x
             /\ task[c].axis = "horizontal" => position'.vertical = position.vertical
  <2>1. position' = [position EXCEPT ![task[c].axis] = x]
    BY <1>4 DEF MoveTo
  <2>2. CASE task[c].axis = "vertical"
    <3>1. position' = [position EXCEPT !.vertical = x]
      BY <2>1, <2>2
    <3> QED BY <1>2, <2>2, <3>1 DEF Position
  <2>3. CASE task[c].axis = "horizontal"
    <3>1. position' = [position EXCEPT !.horizontal = x]
      BY <2>1, <2>3
    <3> QED BY <1>2, <2>3, <3>1 DEF Position
  <2> QED BY <1>3, <2>2, <2>3 DEF Axis
<1>5. CASE Arrive(c)
  <2> DEFINE u == [task[c] EXCEPT !.motion = "arrived"]
  <2>1. task'[c] = u
    BY <1>5 DEF Arrive, CallEnds, ArmInv, TypeOK
  <2>2. /\ u.motion = "arrived" /\ u.stage = task[c].stage /\ u.axis = task[c].axis
        /\ u.goal = task[c].goal /\ u.slot = task[c].slot
    BY <1>2 DEF MovingTask
  <2> HIDE DEF u
  <2>3. MoveTo(c, task[c].goal)
    BY <1>5 DEF Arrive
  <2>4. /\ position'[task[c].axis] = task[c].goal
        /\ task[c].axis = "horizontal" => position'.vertical = position.vertical
    BY <1>3, <1>4, <2>3
  <2> QED BY <1>1, <2>1, <2>2, <2>4 DEF Calm, In
<1>6. CASE Advance(c)
  <2>1. task' = task
    BY <1>6 DEF Advance
  <2>2. PICK x \in Int : MoveTo(c, x)
    <3>1. position[task[c].axis] \in Int
      BY <1>2, <1>3, SetAxis, Zenon
    <3>2. StepSize * Speed \in Int
      BY ArmAssumption DEF ArmAssumption
    <3> QED BY <1>6, <3>1, <3>2 DEF Advance
  <2>3. task[c].axis = "horizontal" => position'.vertical = position.vertical
    BY <1>4, <2>2
  <2> QED BY <1>1, <2>1, <2>3 DEF Calm, In
<1> QED BY <1>5, <1>6 DEF Drive

\* A stage that ends or is retried leaves a move calm.
LEMMA StageCalm ==
    ASSUME ArmInv, NEW c \in Caller, Calm(c), Lifted(c) \/ Verify(c) \/ StageRaises(c),
           Moving(c)'
    PROVE  Calm(c)'
<1>1. Moving(c)
  BY DEF Lifted, Verify, StageRaises, Ended, In
<1>2. /\ task[c] \in MovingTask /\ task[c].stage \in 1..5
      /\ Aligns(c) <=> task[c].stage >= 3
  BY <1>1, MovingType DEF ArmInv
<1>3. ~ Fail(c)
  BY DEF Fail, Returns, ArmInv, TypeOK, Moving
<1>4. CASE Succeed(c)
  <2>1. task[c].stage # Len(Stages)
    BY <1>4 DEF Succeed, Returns, ArmInv, TypeOK, Moving
  <2> DEFINE u == [task[c] EXCEPT !.stage = @ + 1, !.attempts = 0, !.motion = "entered"]
  <2>2. task'[c] = u
    BY <1>4, <2>1 DEF Succeed, ArmInv, TypeOK
  <2>3. u.motion = "entered"
    BY <1>2 DEF MovingTask
  <2> QED BY <2>2, <2>3 DEF Calm
<1>5. CASE /\ Verify(c) /\ task[c].attempts < MaxRetry
           /\ Command(c, [task[c] EXCEPT !.attempts = @ + 1], "vertical", Height(c))
  <2> DEFINE u == [task[c] EXCEPT !.attempts = @ + 1]
  <2>1. u \in MovingTask /\ u.stage = task[c].stage /\ u.slot = task[c].slot
    <3>1. task[c].attempts + 1 \in 0..MaxRetry
      BY <1>2, <1>5, ArmAssumption DEF MovingTask, ArmAssumption
    <3> QED BY <1>2, <3>1 DEF MovingTask
  <2>2. Command(c, u, "vertical", Height(c))
    BY <1>5
  <2> HIDE DEF u
  <2>3. Height(c) \in Int /\ Height(c) = task[c].slot.vertical
    BY <1>1, <1>5, HeightType DEF ArmInv, Verify, Aligns, Height
  <2> QED BY <1>1, <2>1, <2>2, <2>3, CommandCalm DEF Axis
<1> QED BY <1>3, <1>4, <1>5 DEF Lifted, Verify, StageRaises

\* A move that begins, or goes on, by itself stays calm.
LEMMA OwnCalm ==
    ASSUME ArmInv, CalmInv, NEW c \in Caller, Acts(c), Moving(c)', ~ disturbed'[c]
    PROVE  Calm(c)'
<1>1. CASE \E s \in Slot : MoveToSlot(c, s)
  <2>1. task'[c].motion = "entered"
    BY <1>1 DEF MoveToSlot, ArmInv, TypeOK
  <2> QED BY <2>1 DEF Calm
<1>2. ~ Cancel(c)
  BY DEF Cancel, Returns, ArmInv, TypeOK, Moving
<1>3. CASE Works(c) \/ Raise(c)
  <2>1. Moving(c)
    BY <1>3 DEF Works, Drive, Arrive, Advance, Halt, EnterStage, MoveHorizontal,
                Lifted, Verify, StageRaises, Raise, Ended, In
  <2>2. Calm(c) /\ task[c] \in MovingTask /\ (Aligns(c) <=> task[c].stage >= 3)
    BY <1>3, <2>1, OwnDisturbance, MovingType DEF CalmInv, ArmInv
  <2>3. ~ Halt(c)
    BY <2>2 DEF Halt, In, Calm
  <2>4. CASE Raise(c)
    <3> DEFINE u == [task[c] EXCEPT !.motion = "raised"]
    <3>1. task'[c] = u /\ position' = position
      BY <2>4 DEF Raise, CallEnds, ArmInv, TypeOK
    <3>2. /\ u.motion = "raised" /\ u.stage = task[c].stage /\ u.axis = task[c].axis
          /\ u.goal = task[c].goal /\ u.slot = task[c].slot
      BY <2>2 DEF MovingTask
    <3> HIDE DEF u
    <3> QED BY <2>2, <2>4, <3>1, <3>2 DEF Calm, Raise, In
  <2>5. CASE EnterStage(c)
    <3>1. Height(c) \in Int
      BY <2>1, HeightType DEF ArmInv
    <3>2. Aligns(c) => Height(c) = task[c].slot.vertical
      BY DEF Aligns, Height
    <3> QED BY <2>1, <2>2, <2>5, <3>1, <3>2, CommandCalm DEF EnterStage, Axis
  <2>6. CASE MoveHorizontal(c)
    <3>1. task[c].slot.horizontal \in Int
      BY <2>2, ArmAssumption DEF MovingTask, ArmAssumption
    <3>2. position.vertical = task[c].slot.vertical
      BY <2>2, <2>6 DEF MoveHorizontal, Ended, In, Calm
    <3> QED BY <2>1, <2>2, <2>6, <3>1, <3>2, CommandCalm DEF MoveHorizontal, Axis
  <2> QED BY <1>3, <2>2, <2>3, <2>4, <2>5, <2>6, DriveCalm, StageCalm DEF Works
<1> QED BY <1>1, <1>2, <1>3 DEF Acts

\* Every step leaves a move calm or disturbs it.
LEMMA CalmStep == ArmInv /\ CalmInv /\ [Next]_vars => CalmInv'
<1> SUFFICES ASSUME ArmInv, CalmInv, [Next]_vars, NEW c \in Caller,
                    Moving(c)', ~ disturbed'[c]
             PROVE  Calm(c)'
  BY DEF CalmInv
<1>1. CASE UNCHANGED vars
  BY <1>1 DEF vars, CalmInv, Calm, Moving
<1>2. ~ StopAll
  BY DEF StopAll, ArmInv, TypeOK, Moving
<1>3. ASSUME NEW d \in Caller, d # c, Acts(d) PROVE Calm(c)'
  <2>1. /\ Moving(c) /\ ~ disturbed[c] /\ task'[c] = task[c]
        /\ position' = position /\ stopped' = stopped
    BY <1>3, LeftAlone
  <2> QED BY <2>1 DEF CalmInv, Calm
<1>4. PICK d \in Caller : UNCHANGED vars \/ Acts(d)
  BY <1>2 DEF Next, Acts
<1> QED BY <1>1, <1>3, <1>4, OwnCalm

\* The invariants hold for ever.
LEMMA CalmInvHolds == Spec => [](ArmInv /\ CalmInv)
<1>1. Init => CalmInv
  BY DEF Init, CalmInv, Moving
<1> QED BY <1>1, ArmInvHolds, CalmStep, PTL DEF Spec

\* At its slot's height, and so at the clearance height only where the two are
\* the same.
TravelsAtSlotHeight == [][\A c \in Caller :
    Travels(c) => disturbed[c] \/ position.vertical = task[c].slot.vertical]_vars

\* A move that nobody disturbs travels sideways only after the retry loop has
\* brought the arm to its slot's height (stage_executor.py:36, retry.py:42-43).
THEOREM TravelsLevel == Spec => TravelsAtSlotHeight
<1>1. ArmInv /\ CalmInv => [\A c \in Caller :
          Travels(c) => disturbed[c] \/ position.vertical = task[c].slot.vertical]_vars
  <2> SUFFICES ASSUME ArmInv, CalmInv, NEW c \in Caller, Travels(c), ~ disturbed[c]
               PROVE  position.vertical = task[c].slot.vertical
    OBVIOUS
  <2>1. In(c, "driving") /\ Moving(c) /\ task[c].axis = "horizontal"
    BY TravelsOnAxis
  <2>2. task[c].stage >= 3
    BY <2>1 DEF ArmInv, SidewaysLate
  <2> QED BY <2>1, <2>2 DEF CalmInv, Calm, In
<1> QED BY <1>1, CalmInvHolds, PTL DEF Spec, TravelsAtSlotHeight

\* A move that nobody disturbs does not fail unless its driver raises.
LEMMA FailureDisturbed ==
    ASSUME ArmInv, CalmInv, HTolerance >= 0, VTolerance >= 0, [Next]_vars,
           NEW c \in Caller, Moving(c), task'[c].status = "failed"
    PROVE  disturbed[c] \/ In(c, "raised")
<1> SUFFICES ASSUME ~ disturbed[c] PROVE In(c, "raised")
  OBVIOUS
<1>1. /\ Calm(c) /\ task[c] \in MovingTask /\ task[c].stage \in 1..5
      /\ Aligns(c) <=> task[c].stage >= 3
  BY MovingType DEF CalmInv, ArmInv
<1>2. ~ In(c, "halted")
  BY <1>1 DEF In, Calm
<1>3. ASSUME Verify(c) PROVE AtSlot(position, task[c].slot)
  <2>1. /\ position.horizontal = task[c].slot.horizontal
        /\ position.vertical = task[c].slot.vertical
    BY <1>1, <1>2, <1>3 DEF Verify, Ended, In, Calm
  <2>2. position.horizontal \in Int /\ position.vertical \in Int
    BY DEF ArmInv, TypeOK, Position
  <2> QED BY <2>1, <2>2, ArmAssumption DEF AtSlot, Abs, ArmAssumption
<1> QED BY <1>2, <1>3, EndsByItself DEF Moving

\* UndisturbedSucceeds: with tolerances that are not negative, a move that
\* nobody disturbs fails only if its driver raises (orchestrator.py:66-89).
THEOREM UndisturbedMoveSucceeds ==
    ASSUME HTolerance >= 0, VTolerance >= 0
    PROVE  Spec => UndisturbedSucceeds
<1>1. ArmInv /\ CalmInv /\ [Next]_vars => [\A c \in Caller :
          Moving(c) /\ task'[c].status = "failed" => disturbed[c] \/ In(c, "raised")]_vars
  BY FailureDisturbed
<1> QED BY <1>1, CalmInvHolds, PTL DEF Spec, UndisturbedSucceeds
=============================================================================
