------------------------------ MODULE RobotArm ------------------------------
(****************************************************************************)
(* MultiStageMotionOrchestrator with its stage executor, retry handler and  *)
(* simulated motors.  Tasks that call move_to_slot share one arm and one    *)
(* stop flag and have no lock.  A task runs until it sleeps between two     *)
(* motor steps: that is its turn.  Anybody may call the driver's stop_all,  *)
(* a task may be cancelled, and a real driver may raise where the simulated *)
(* one does not.  Lengths are whole numbers of a unit; progress callbacks,  *)
(* durations and an unknown slot (refused before anything moves) are left   *)
(* out.                                                                     *)
(****************************************************************************)
EXTENDS Integers, Sequences

CONSTANTS
    Caller,       \* tasks that call move_to_slot
    None,         \* no task: the event loop is free
    Slot,         \* config.slots: [horizontal, vertical, level]
    SafeHeight,   \* the retracted height, 50.0 in the code
    Clearance,    \* the clearance height of each level, 150.0 and 350.0
    StepSize,     \* the driver's step_size
    Speed,        \* config.default_speed
    HTolerance,   \* config.horizontal_tolerance
    VTolerance,   \* config.vertical_tolerance
    MaxRetry,     \* config.max_retry_attempts
    Start         \* the position the arm is switched on in

Position == [horizontal : Int, vertical : Int]

ASSUME ArmAssumption ==
    /\ None \notin Caller
    /\ \A s \in Slot : {s.horizontal, s.vertical, Clearance[s.level]} \subseteq Int
    /\ {SafeHeight, HTolerance, VTolerance} \subseteq Int
    /\ {StepSize, Speed} \subseteq Nat \ {0}
    /\ MaxRetry \in Nat
    /\ Start \in Position

VARIABLES
    position,   \* what the feedback reads
    stopped,    \* the driver's _stopped flag
    turn,       \* the task that runs, or None while all are asleep
    task,       \* each caller's progress through move_to_slot
    disturbed,  \* history: in this move the arm was stopped or moved by another
    retracted   \* history: in this move the arm has been at a safe height

vars == <<position, stopped, turn, task, disturbed, retracted>>

Stages == <<"retract", "clearance", "vertical_align", "horizontal_align", "final_approach">>
Axis == {"horizontal", "vertical"}

\* motion: where the task is in the motor call it makes for the stage, or how
\* that call has ended.
MovingTask == [status : {"moving"}, slot : Slot, stage : DOMAIN Stages, attempts : 0..MaxRetry,
               axis : Axis, goal : Int,
               motion : {"entered", "driving", "arrived", "halted", "raised"}]

Task == [status : {"idle", "success", "failed", "cancelled"}] \cup MovingTask

TypeOK ==
    /\ position \in Position
    /\ stopped \in BOOLEAN
    /\ turn \in Caller \cup {None}
    /\ task \in [Caller -> Task]
    /\ disturbed \in [Caller -> BOOLEAN]
    /\ retracted \in [Caller -> BOOLEAN]

Init ==
    /\ position = Start
    /\ stopped = FALSE
    /\ turn = None
    /\ task = [c \in Caller |-> [status |-> "idle"]]
    /\ disturbed = [c \in Caller |-> FALSE]
    /\ retracted = [c \in Caller |-> FALSE]

Moving(c) == task[c].status = "moving"
In(c, motion) == Moving(c) /\ task[c].motion = motion
Ended(c) == In(c, "arrived") \/ In(c, "halted")
Runs(c) == turn \in {c, None}
Stage(c) == Stages[task[c].stage]
Abs(x) == IF x < 0 THEN -x ELSE x

\* Whatever a task does to the arm disturbs the other moves under way.
Disturbs(c) == disturbed' = [o \in Caller |-> disturbed[o] \/ (o # c /\ Moving(o))]

-----------------------------------------------------------------------------
(* The motors.                                                              *)

\* A motor call begins by clearing the stop flag, whoever has set it.
Command(c, t, axis, goal) ==
    /\ task' = [task EXCEPT ![c] = [t EXCEPT !.axis = axis, !.goal = goal, !.motion = "driving"]]
    /\ stopped' = FALSE
    /\ Disturbs(c)
    /\ UNCHANGED <<position, turn, retracted>>

\* Mutant: the last step is left to the next move.
NearBelow(c) == Abs(position[task[c].axis] - task[c].goal) < StepSize

Near(c) == Abs(position[task[c].axis] - task[c].goal) <= StepSize

MoveTo(c, x) ==
    /\ position' = [position EXCEPT ![task[c].axis] = x]
    /\ retracted' = [o \in Caller |->
          retracted[o] \/ (Moving(o) /\ position'.vertical <= SafeHeight)]
    /\ Disturbs(c)

CallEnds(c, motion) ==
    /\ task' = [task EXCEPT ![c].motion = motion]
    /\ turn' = c

\* Mutant: close enough is taken as there.
ArriveNearby(c) ==
    /\ In(c, "driving") /\ Runs(c) /\ ~ stopped /\ Near(c)
    /\ MoveTo(c, position[task[c].axis])
    /\ CallEnds(c, "arrived")
    /\ UNCHANGED stopped

Arrive(c) ==
    /\ In(c, "driving")
    /\ Runs(c)
    /\ ~ stopped
    /\ Near(c)
    /\ MoveTo(c, task[c].goal)
    /\ CallEnds(c, "arrived")
    /\ UNCHANGED stopped

\* One step toward the goal, and a sleep.
Advance(c) ==
    /\ In(c, "driving")
    /\ Runs(c)
    /\ ~ stopped
    /\ ~ Near(c)
    /\ LET x == position[task[c].axis]
       IN  MoveTo(c, IF task[c].goal > x THEN x + StepSize * Speed ELSE x - StepSize * Speed)
    /\ turn' = None
    /\ UNCHANGED <<stopped, task>>

Halt(c) ==
    /\ In(c, "driving")
    /\ Runs(c)
    /\ stopped
    /\ CallEnds(c, "halted")
    /\ UNCHANGED <<position, stopped, disturbed, retracted>>

Raise(c) ==
    /\ In(c, "driving")
    /\ Runs(c)
    /\ CallEnds(c, "raised")
    /\ UNCHANGED <<position, stopped, disturbed, retracted>>

Drive(c) == Arrive(c) \/ Advance(c)

\* stop_all() from outside: an operator, another part of the program.
StopAll ==
    /\ turn = None
    /\ stopped' = TRUE
    /\ disturbed' = [o \in Caller |-> disturbed[o] \/ Moving(o)]
    /\ UNCHANGED <<position, turn, task, retracted>>

-----------------------------------------------------------------------------
(* The stages.                                                              *)

MoveToSlot(c, s) ==
    /\ turn = None
    /\ ~ Moving(c)
    /\ task' = [task EXCEPT ![c] = [status |-> "moving", slot |-> s, stage |-> 1, attempts |-> 0,
                                    axis |-> "vertical", goal |-> 0, motion |-> "entered"]]
    /\ turn' = c
    /\ disturbed' = [disturbed EXCEPT ![c] = FALSE]
    /\ retracted' = [retracted EXCEPT ![c] = FALSE]
    /\ UNCHANGED <<position, stopped>>

Aligns(c) == Moving(c) /\ Stage(c) \in {"vertical_align", "horizontal_align", "final_approach"}

\* Every stage moves the vertical axis first.
Height(c) ==
    CASE Stage(c) = "retract" -> IF position.vertical < SafeHeight THEN position.vertical
                                                                   ELSE SafeHeight
      [] Stage(c) = "clearance" -> Clearance[task[c].slot.level]
      [] OTHER -> task[c].slot.vertical

EnterStage(c) ==
    /\ In(c, "entered")
    /\ Command(c, task[c], "vertical", Height(c))

\* The horizontal move follows the vertical one, however that has ended.
MoveHorizontal(c) ==
    /\ Aligns(c)
    /\ Ended(c)
    /\ task[c].axis = "vertical"
    /\ Command(c, task[c], "horizontal", task[c].slot.horizontal)

AtSlot(p, s) ==
    /\ Abs(p.horizontal - s.horizontal) <= HTolerance
    /\ Abs(p.vertical - s.vertical) <= VTolerance

Returns(c, status) ==
    /\ task' = [task EXCEPT ![c] = [status |-> status]]
    /\ turn' = None

\* The stage has succeeded: the next one, or the end of the move.
Succeed(c) ==
    /\ IF task[c].stage = Len(Stages)
       THEN Returns(c, "success")
       ELSE /\ task' = [task EXCEPT ![c].stage = @ + 1, ![c].attempts = 0, ![c].motion = "entered"]
            /\ UNCHANGED turn
    /\ UNCHANGED <<position, stopped, disturbed, retracted>>

\* The stage has failed: everything is stopped and the move ends.
Fail(c) ==
    /\ Returns(c, "failed")
    /\ stopped' = TRUE
    /\ Disturbs(c)
    /\ UNCHANGED <<position, retracted>>

\* Mutant: what the motor call returns is not looked at.
LiftedAnyhow(c) ==
    /\ ~ Aligns(c) /\ Ended(c)
    /\ Succeed(c)

\* Retract and clearance end with their one motor call.
Lifted(c) ==
    /\ ~ Aligns(c)
    /\ \/ In(c, "arrived") /\ Succeed(c)
       \/ In(c, "halted") /\ Fail(c)

\* Mutant: the number of attempts has no bound.
VerifyForEver(c) ==
    /\ Aligns(c) /\ Ended(c)
    /\ task[c].axis = "horizontal"
    /\ IF AtSlot(position, task[c].slot) THEN Succeed(c)
       ELSE Command(c, [task[c] EXCEPT !.attempts = @ + 1], "vertical", Height(c))

\* Mutant: a motor call that arrived is taken for the slot reached.
VerifyBlind(c) ==
    /\ Aligns(c) /\ task[c].axis = "horizontal"
    /\ \/ In(c, "arrived") /\ Succeed(c)
       \/ In(c, "halted") /\ Fail(c)

\* The position decides, not what the motor calls returned.
Verify(c) ==
    /\ Aligns(c)
    /\ Ended(c)
    /\ task[c].axis = "horizontal"
    /\ \/ AtSlot(position, task[c].slot) /\ Succeed(c)
       \/ /\ ~ AtSlot(position, task[c].slot)
          /\ task[c].attempts < MaxRetry
          /\ Command(c, [task[c] EXCEPT !.attempts = @ + 1], "vertical", Height(c))
       \/ /\ ~ AtSlot(position, task[c].slot)
          /\ task[c].attempts = MaxRetry
          /\ Fail(c)

\* An exception of the driver ends the stage.
StageRaises(c) == In(c, "raised") /\ Fail(c)

\* The caller is cancelled in its sleep: nothing is stopped.
Cancel(c) ==
    /\ turn = None
    /\ Moving(c)
    /\ Returns(c, "cancelled")
    /\ UNCHANGED <<position, stopped, disturbed, retracted>>

Works(c) ==
    \/ Drive(c) \/ Halt(c)
    \/ EnterStage(c) \/ MoveHorizontal(c) \/ Lifted(c) \/ Verify(c) \/ StageRaises(c)

Next ==
    \/ StopAll
    \/ \E c \in Caller : \/ \E s \in Slot : MoveToSlot(c, s)
                         \/ Works(c) \/ Raise(c) \/ Cancel(c)

Spec == Init /\ [][Next]_vars

\* Sleeps end: the event loop runs every task that can run.
FairSpec == Spec /\ \A c \in Caller : WF_vars(Works(c))

-----------------------------------------------------------------------------
(* Correctness.                                                             *)

\* A move that reports success leaves the arm at its slot at that moment,
\* whatever other moves and stops have come between.
ArrivedOnSuccess == [][\A c \in Caller :
    Moving(c) /\ task'[c].status = "success" => AtSlot(position', task[c].slot)]_vars

\* A move that nobody disturbs and whose driver does not raise succeeds.
UndisturbedSucceeds == [][\A c \in Caller :
    Moving(c) /\ task'[c].status = "failed" => disturbed[c] \/ In(c, "raised")]_vars

Travels(c) == Drive(c) /\ position'.horizontal # position.horizontal

\* The arm never travels sideways in a move in which it has not been retracted
\* first, also when stops and other moves come in between.
TravelsRetracted == [][\A c \in Caller : Travels(c) => retracted[c]]_vars

\* A move ends once no other one is under way, however often it is stopped.
MoveEnds == \A c \in Caller :
    <>[](\A o \in Caller \ {c} : ~ Moving(o)) => Moving(c) ~> ~ Moving(c)

\* stage_executor.py line 65: "Move to shared clearance height before horizontal
\* travel."  A move that nobody disturbs travels at the clearance height of the level
\* of its slot.
TravelsAtClearance == [][\A c \in Caller :
    Travels(c) /\ ~ disturbed[c] => position.vertical = Clearance[task[c].slot.level]]_vars
=============================================================================
