------------------------- MODULE FluidTransfer_proofs -------------------------
(****************************************************************************)
(* Machine-checked proofs about FluidTransfer, for any clients, timeout     *)
(* tasks, requests and target.                                              *)
(****************************************************************************)
EXTENDS FluidTransfer, GatedTransfer_proofs

-----------------------------------------------------------------------------
(* The orchestrator drives the state machine by its operations only.        *)

\* Who the tasks are.
LEMMA WhoIsWho ==
    /\ Client \subseteq Caller /\ Operator \in Caller /\ Flow \in Caller
    /\ Caller = Client \cup {Operator, Flow}
    /\ Operator # Flow /\ Operator \notin Client /\ Flow \notin Client
    /\ \A k \in Timer : k \notin Client /\ k # Operator /\ k # Flow
    /\ Task = Client \cup {Operator, Flow} \cup Timer
    /\ \A t \in Task : t # None
    /\ MayFail /\ Reentrant
BY FluidAssumption, ConstantsAssumption DEF FluidAssumption, ConstantsAssumption, Task

\* A transition is a step of the machine.
LEMMA TransitsIsStep == ASSUME NEW c \in Caller, Transits(c) PROVE Next
BY DEF Transits, Operate, Next

\* So is the return of its callback.
LEMMA FinishIsStep == ASSUME NEW t \in Task, Finish(t) PROVE Next
BY DEF Next

\* So is a call.
LEMMA CallIsStep == ASSUME NEW c \in Caller, NEW op \in Operation, Call(c, op) PROVE Next
BY DEF Next

\* Every action of the orchestrator is one of these or leaves the machine
\* alone.
LEMMA FluidNextIsStep == ASSUME FluidNext PROVE Next \/ UNCHANGED vars
<1>1. {"start", "press", "release", "progress", "complete_early", "error", "abort", "reset"}
        \subseteq Operation
  BY DEF Operation
<1>2. ASSUME NEW c \in Caller, TransferMoves(c) \/ TransferEnds(c)
      PROVE  Next
  BY <1>2, TransitsIsStep DEF TransferMoves, TransferEnds, Ends, Transits
<1>3. ASSUME NEW t \in Task, CloseCancelled(t) \/ OperatorStopped(t) \/ FlowStopped(t)
      PROVE  Next \/ UNCHANGED vars
  <2>1. CASE FlowStopped(t)
    <3>1. CASE Reenter(t)
      BY <3>1 DEF Next
    <3>2. CASE t \in Client /\ Call(t, "reset")
      BY <1>1, <3>2, CallIsStep, WhoIsWho
    <3> QED BY <2>1, <3>1, <3>2 DEF FlowStopped
  <2> QED BY <1>3, <2>1 DEF CloseCancelled, OperatorStopped
<1>4. ASSUME NEW c \in Client, StartTransfer(c) \/ AbortTransfer(c) \/ ClientStep(c)
      PROVE  Next \/ UNCHANGED vars
  <2>1. c \in Caller /\ c \in Task
    BY WhoIsWho DEF Task
  <2>2. CASE StartTransfer(c) \/ AbortTransfer(c)
    BY <1>1, <2>1, <2>2, CallIsStep DEF StartTransfer, AbortTransfer
  <2>3. CASE Started(c) \/ Aborted(c)
    BY <2>1, <2>3, FinishIsStep DEF Started, Aborted
  <2>4. CASE Replied(c)
    BY <2>1, <2>4, FinishIsStep DEF Replied, Next, Operate
  <2> QED BY <1>2, <1>3, <1>4, <2>1, <2>2, <2>3, <2>4 DEF ClientStep
<1>5. ASSUME NEW x \in {Operator, Flow}, Unwind(x) PROVE Next \/ UNCHANGED vars
  BY <1>5, WhoIsWho DEF Unwind, Next
<1>6. ASSUME OperatorStep PROVE Next \/ UNCHANGED vars
  <2>1. Operator \in Caller /\ Operator \in Task
    BY WhoIsWho DEF Task
  <2>2. CASE Press \/ LetGo \/ FlowPaused \/ ReportFailure
    BY <1>1, <2>1, <2>2, CallIsStep DEF Press, LetGo, FlowPaused, ReportFailure
  <2>3. CASE HandlerReturns \/ PumpFails
    BY <2>1, <2>3, FinishIsStep DEF HandlerReturns, PumpFails, Next, Operate
  <2> QED BY <1>2, <1>3, <1>5, <1>6, <2>1, <2>2, <2>3 DEF OperatorStep
<1>7. ASSUME FlowStep PROVE Next \/ UNCHANGED vars
  <2>1. Flow \in Caller /\ Flow \in Task
    BY WhoIsWho DEF Task
  <2>2. CASE DetectEnd("progress") \/ DetectEnd("complete_early") \/ Report
    BY <1>1, <2>1, <2>2, CallIsStep DEF DetectEnd, Report
  <2>3. CASE Reported \/ Emitted
    BY <2>1, <2>3 DEF Reported, Emitted, Next, Operate
  <2> QED BY <1>2, <1>3, <1>5, <1>7, <2>1, <2>2, <2>3 DEF FlowStep
<1>8. ASSUME NEW k \in Timer, Lapse(k) \/ TimerStep(k) PROVE Next \/ UNCHANGED vars
  BY <1>3, <1>8 DEF Lapse, TimerStep, TransferTimesOut, Next, Task
<1>9. CASE DelayedClose \/ MoveTrigger \/ Pulse
  BY <1>9 DEF DelayedClose, MoveTrigger, Pulse
<1> QED BY <1>4, <1>6, <1>7, <1>8, <1>9 DEF FluidNext

\* Whatever the orchestrator's tasks do is a behaviour of the state machine:
\* all that is proved of GatedTransfer holds of it here.
THEOREM RunsTheMachine == FluidSpec => Spec
<1>1. FluidInit => Init
  BY DEF FluidInit
<1>2. [FluidNext]_allVars => [Next]_vars
  BY FluidNextIsStep DEF allVars
<1> QED BY <1>1, <1>2, PTL DEF FluidSpec, Spec

-----------------------------------------------------------------------------
(* Types.                                                                   *)

RigTypeOK ==
    /\ gate \in BOOLEAN /\ pump \in BOOLEAN /\ closing \in BOOLEAN
    /\ trigger \in BOOLEAN /\ pressed \in BOOLEAN /\ opMonitoring \in BOOLEAN
    /\ isMonitoring \in BOOLEAN /\ counting \in BOOLEAN /\ pulses \in 0..Target
    /\ at \in [Task -> Location]
    /\ cancelling \subseteq {Operator, Flow}

\* A task that moves stays within the places there are.
LEMMA GoesType ==
    ASSUME at \in [Task -> Location], NEW t, NEW place \in Location, Goes(t, place)
    PROVE  at' \in [Task -> Location]
BY DEF Goes

\* The types of what a shutdown begins with.
LEMMA ShutdownTypes ==
    ASSUME RigTypeOK, NEW t \in Task, BeginShutdown(t)
    PROVE  RigTypeOK'
<1>1. {"closing_gate", "stopping_operator"} \subseteq Location
  BY DEF Location, Joins
<1>2. at' \in [Task -> Location]
  BY <1>1, GoesType DEF RigTypeOK, BeginShutdown, StopOperator
<1> QED BY <1>2 DEF RigTypeOK, BeginShutdown, StopPump, StopOperator, CancelMonitor, flowVars

\* And of the rest of it.
LEMMA StopTypes ==
    ASSUME RigTypeOK, NEW t \in Task,
           CloseCancelled(t) \/ OperatorStopped(t) \/ FlowStopped(t)
    PROVE  RigTypeOK'
<1>1. {"stopping_operator", "stopping_flow", "emit", "stuck", "calling"} \subseteq Location
  BY DEF Location, Joins
<1>2. at' \in [Task -> Location]
  BY <1>1, GoesType
  DEF RigTypeOK, CloseCancelled, StopOperator, OperatorStopped, FlowStopped
<1>3. 0 \in 0..Target
  BY FluidAssumption DEF FluidAssumption
<1> QED BY <1>2, <1>3 DEF RigTypeOK, CloseCancelled, StopOperator, OperatorStopped,
          FlowStopped, CancelMonitor, StopFlow, flowVars, operatorVars, hardware

\* Every action keeps the types of the rig.
LEMMA RigTypes == ASSUME RigTypeOK, [FluidNext]_allVars PROVE RigTypeOK'
<1>0. {"rest", "poll", "calling", "emit", "report", "failing", "pausing_flow"} \subseteq Location
  BY DEF Location, Joins
<1>00. Target \in Nat /\ 0 \in 0..Target
  BY FluidAssumption DEF FluidAssumption
<1>1. ASSUME NEW c \in Caller, TransferMoves(c) \/ TransferEnds(c) \/ Unwind(c)
      PROVE  RigTypeOK'
  <2>1. CASE TransferMoves(c)
    BY <1>0, <2>1, GoesType
    DEF TransferMoves, RigTypeOK, hardware, operatorVars, flowVars
  <2>2. CASE TransferEnds(c)
    BY <2>2, ShutdownTypes DEF TransferEnds, Task
  <2>3. CASE Unwind(c)
    BY <1>0, <2>3, GoesType
    DEF Unwind, RigTypeOK, hardware, operatorVars, flowVars
  <2> QED BY <1>1, <2>1, <2>2, <2>3
<1>2. ASSUME NEW c \in Client, StartTransfer(c) \/ AbortTransfer(c) \/ ClientStep(c)
      PROVE  RigTypeOK'
  <2>1. c \in Caller /\ c \in Task
    BY WhoIsWho DEF Task
  <2>2. CASE StartTransfer(c) \/ AbortTransfer(c) \/ Replied(c)
    BY <1>0, <2>2, GoesType
    DEF StartTransfer, AbortTransfer, Replied, RigTypeOK, hardware, operatorVars, flowVars
  <2>3. CASE Started(c)
    <3>1. at' \in [Task -> Location]
      BY <1>0, <2>3 DEF Started, RigTypeOK
    <3> QED BY <1>00, <2>3, <3>1
        DEF Started, StartOperator, StartFlow, RigTypeOK, hardware
  <2>4. CASE Aborted(c)
    BY <2>1, <2>4, ShutdownTypes DEF Aborted
  <2> QED BY <1>1, <1>2, <2>1, <2>2, <2>3, <2>4, StopTypes DEF ClientStep
<1>3. ASSUME OperatorStep PROVE RigTypeOK'
  <2>1. Operator \in Caller /\ Operator \in Task
    BY WhoIsWho DEF Task
  <2>2. CASE Press
    BY <1>0, <2>2, GoesType DEF Press, OpenGate, RigTypeOK, flowVars
  <2>3. CASE LetGo
    <3>1. at' \in [Task -> Location]
      BY <1>0, <2>3, GoesType DEF LetGo, RigTypeOK
    <3>2. /\ isMonitoring' \in BOOLEAN /\ counting' \in BOOLEAN
          /\ cancelling' \subseteq {Operator, Flow}
      <4>1. CASE isMonitoring
        <5>1. StopFlow /\ CancelMonitor(Operator, Flow)
          BY <2>3, <4>1 DEF LetGo
        <5> QED BY <5>1 DEF StopFlow, CancelMonitor, RigTypeOK
      <4>2. CASE ~ isMonitoring
        BY <2>3, <4>2 DEF LetGo, RigTypeOK
      <4> QED BY <4>1, <4>2
    <3>3. /\ pump' = FALSE /\ closing' = TRUE /\ pressed' = FALSE
          /\ UNCHANGED <<gate, trigger, opMonitoring, pulses>>
      BY <2>3 DEF LetGo, StopPump, ScheduleClose
    <3> QED BY <3>1, <3>2, <3>3 DEF RigTypeOK
  <2>4. CASE FlowPaused \/ PumpFails \/ ReportFailure
    BY <1>0, <2>4, GoesType
    DEF FlowPaused, PumpFails, ReportFailure, RigTypeOK, hardware, operatorVars, flowVars
  <2>5. CASE HandlerReturns
    <3>1. at' \in [Task -> Location]
      BY <1>0, <2>5, GoesType DEF HandlerReturns, RigTypeOK
    <3>2. pump' \in BOOLEAN
      BY <2>5 DEF HandlerReturns, StartPump, RigTypeOK
    <3>3. UNCHANGED <<gate, closing, operatorVars, flowVars, cancelling>>
      BY <2>5 DEF HandlerReturns
    <3> QED BY <3>1, <3>2, <3>3 DEF RigTypeOK, operatorVars, flowVars
  <2> QED BY <1>1, <1>3, <2>1, <2>2, <2>3, <2>4, <2>5, StopTypes DEF OperatorStep
<1>4. ASSUME FlowStep PROVE RigTypeOK'
  <2>1. Flow \in Caller /\ Flow \in Task
    BY WhoIsWho DEF Task
  <2>2. ASSUME NEW op, DetectEnd(op) PROVE RigTypeOK'
    BY <1>0, <2>2, GoesType DEF DetectEnd, RigTypeOK, operatorVars
  <2>3. CASE Report \/ Reported \/ Emitted
    BY <1>0, <2>3, GoesType
    DEF Report, Reported, Emitted, RigTypeOK, hardware, operatorVars, flowVars
  <2> QED BY <1>1, <1>4, <2>1, <2>2, <2>3, StopTypes DEF FlowStep
<1>5. ASSUME NEW k \in Timer, Lapse(k) \/ TimerStep(k) PROVE RigTypeOK'
  <2>1. CASE Lapse(k)
    BY <2>1 DEF Lapse, rigVars, RigTypeOK, hardware, operatorVars, flowVars
  <2>2. CASE TransferTimesOut(k)
    BY <2>2, ShutdownTypes DEF TransferTimesOut, Task
  <2> QED BY <1>5, <2>1, <2>2, StopTypes DEF TimerStep, Task
<1>6. CASE DelayedClose \/ MoveTrigger
  BY <1>6 DEF DelayedClose, MoveTrigger, RigTypeOK, hardware, operatorVars, flowVars
<1>7. CASE Pulse
  BY <1>00, <1>7 DEF Pulse, RigTypeOK, hardware, operatorVars
<1>8. CASE UNCHANGED allVars
  BY <1>8 DEF allVars, rigVars, RigTypeOK, hardware, operatorVars, flowVars
<1> QED BY <1>2, <1>3, <1>4, <1>5, <1>6, <1>7, <1>8 DEF FluidNext

\* So they always hold.
LEMMA RigTypesHold == FluidSpec => []RigTypeOK
<1>1. FluidInit => RigTypeOK
  <2>1. 0 \in 0..Target /\ "rest" \in Location
    BY FluidAssumption DEF FluidAssumption, Location
  <2>2. [t \in Task |-> "rest"] \in [Task -> Location]
    BY <2>1
  <2> QED BY <2>1, <2>2 DEF FluidInit, RigTypeOK
<1> QED BY <1>1, RigTypes, PTL DEF FluidSpec

\* Every variable keeps its type.
THEOREM FluidTypeCorrect == FluidSpec => []FluidTypeOK
<1>1. TypeOK /\ RigTypeOK => FluidTypeOK
  BY DEF RigTypeOK, FluidTypeOK
<1> QED BY <1>1, RigTypesHold, RunsTheMachine, TypeCorrect, PTL

-----------------------------------------------------------------------------
(* What a step of one task does to the others.                              *)

Dormant == {"idle", "sleeping", "queued"}

\* Another task than t stays where it is, but that a timeout may be started or
\* cancelled.
Apart(t) ==
    /\ \A u \in Task \ {t} :
           \/ pc'[u] = pc[u]
           \/ u \in Timer /\ {pc[u], pc'[u]} \subseteq Dormant
    /\ \A c \in Caller \ {t} : job'[c] = job[c]

\* A transition moves the task that has the lock into its callback; the others
\* are dormant.
LEMMA TransitionMoves ==
    ASSUME TimerInv, NEW t, Admitted(t), NEW s, NEW arm,
           NEW gone \in {timeoutTask, None}, Transition(t, s, arm, gone)
    PROVE  /\ t \in Task /\ pc[t] = "queued" /\ pc'[t] = "callback"
           /\ Apart(t) /\ job' = job /\ state' = s /\ holder = None
           /\ \A u \in Task : pc[u] \in Dormant
<1>1. TaskTypeOK /\ LockOK
  BY DEF TimerInv, TypeOK
<1>2. t \in Task /\ pc[t] = "queued" /\ holder = None
  BY <1>1, AdmittedQueue
<1>3. \A u \in Task : pc[u] \in Dormant
  BY <1>1, <1>2, WhoIsWho DEF LockOK, TaskTypeOK, Dormant
<1>4. \A u \in Task : pc'[u] = CASE u = t -> "callback"
                                   [] u # t /\ u = gone -> "idle"
                                   [] OTHER -> pc[u]
  BY DEF Transition
<1>5. \A u \in Task : u = gone => u \in Timer
  BY <1>1, WhoIsWho DEF TaskTypeOK
<1>6. Apart(t)
  BY <1>2, <1>3, <1>4, <1>5 DEF Apart, Dormant, Transition
<1> QED BY <1>2, <1>3, <1>4, <1>6 DEF Transition

\* The callers' operations are such transitions.
LEMMA TransitsMoves ==
    ASSUME TimerInv, NEW c \in Caller, Transits(c)
    PROVE  /\ c \in Task /\ pc[c] = "queued" /\ pc'[c] = "callback"
           /\ Apart(c) /\ job' = job /\ holder = None
           /\ \A u \in Task : pc[u] \in Dormant
BY TransitsByTransition, TransitionMoves

\* So is a timeout.
LEMMA TimeoutMoves ==
    ASSUME TimerInv, NEW k \in Timer, Timeout(k)
    PROVE  /\ k \in Task /\ pc[k] = "queued" /\ pc'[k] = "callback"
           /\ Apart(k) /\ job' = job /\ state' = "timeout" /\ holder = None
           /\ \A u \in Task : pc[u] \in Dormant
BY TransitionMoves DEF Timeout

\* A callback that returns leaves its task idle.
LEMMA FinishMoves ==
    ASSUME TimerInv, NEW t \in Task, Finish(t)
    PROVE  /\ pc[t] = "callback" /\ pc'[t] = "idle" /\ Apart(t)
           /\ UNCHANGED <<job, state>> /\ holder = t
<1>1. TaskTypeOK /\ LockOK /\ NoStaleTimer
  BY DEF TimerInv, TypeOK
<1>2. pc[t] = "callback" /\ holder = t /\ UNCHANGED <<job, state>>
  BY <1>1 DEF Finish, LockOK, machineVars
<1>3. \A u \in Task \ {t} : pc[u] \in Dormant
  BY <1>1, <1>2 DEF LockOK, TaskTypeOK, Dormant
<1>4. CASE arming = None
  <2>1. DOMAIN pc = Task /\ pc' = [pc EXCEPT ![t] = "idle"]
    BY <1>1, <1>4 DEF Finish, TaskTypeOK
  <2> QED BY <1>2, <2>1 DEF Apart
<1>5. CASE arming # None
  <2>1. PICK k \in Timer :
          /\ pc[k] = "idle"
          /\ pc' = [u \in Task |-> CASE u = k -> "sleeping"
                                     [] u # k /\ u \in {t, timeoutTask} -> "idle"
                                     [] OTHER -> pc[u]]
    BY <1>5 DEF Finish
  <2>2. \A u \in Task : u = timeoutTask => u \in Timer
    BY <1>1, WhoIsWho DEF TaskTypeOK
  <2> QED BY <1>2, <1>3, <2>1, <2>2 DEF Apart, Dormant
<1> QED BY <1>2, <1>4, <1>5

\* A step that moves nobody else at all.
LEMMA OwnMoves ==
    ASSUME TypeOK, NEW t \in Task, NEW place, pc' = [pc EXCEPT ![t] = place],
           \A c \in Caller \ {t} : job'[c] = job[c]
    PROVE  pc'[t] = place /\ Apart(t)
<1>1. DOMAIN pc = Task
  BY DEF TypeOK, TaskTypeOK
<1>2. pc'[t] = place /\ \A u \in Task \ {t} : pc'[u] = pc[u]
  BY <1>1
<1> QED BY <1>2 DEF Apart

\* A call queues its caller.
LEMMA CallMoves ==
    ASSUME TypeOK, NEW c \in Caller, NEW op, Call(c, op)
    PROVE  /\ pc[c] = "idle" /\ pc'[c] = "queued" /\ Apart(c) /\ job'[c] = op
           /\ UNCHANGED <<state, holder>>
<1>1. c \in Task /\ job' = [job EXCEPT ![c] = op] /\ pc[c] = "idle"
      /\ pc' = [pc EXCEPT ![c] = "queued"] /\ UNCHANGED <<state, holder>>
  BY DEF Call, Task, machineVars
<1>2. job'[c] = op /\ \A d \in Caller \ {c} : job'[d] = job[d]
  BY <1>1 DEF TypeOK, TaskTypeOK
<1> QED BY <1>1, <1>2, OwnMoves

\* A refusal or a report lets its caller go.
LEMMA ReturnMoves ==
    ASSUME TimerInv, NEW c \in Caller, Refuse(c) \/ ReportProgress(c)
    PROVE  pc[c] = "queued" /\ pc'[c] = "idle" /\ Apart(c) /\ UNCHANGED <<job, state>>
<1>1. TypeOK /\ TaskTypeOK /\ LockOK /\ c \in Task
  BY DEF TimerInv, TypeOK, Task
<1>2. Admitted(c) /\ Return(c)
  BY DEF Refuse, ReportProgress, Runs
<1>3. pc[c] = "queued"
  BY <1>1, <1>2, AdmittedQueue
<1> QED BY <1>1, <1>2, <1>3, OwnMoves DEF Return

\* A cancelled waiter goes idle.
LEMMA WithdrawMoves ==
    ASSUME TypeOK, NEW c \in Caller, Withdraw(c)
    PROVE  pc[c] = "queued" /\ pc'[c] = "idle" /\ Apart(c) /\ UNCHANGED <<job, state>>
BY OwnMoves DEF Withdraw, Task, machineVars

\* A callback that calls back in is stuck.
LEMMA ReenterMoves ==
    ASSUME TypeOK, NEW t \in Task, Reenter(t)
    PROVE  pc[t] = "callback" /\ pc'[t] = "stuck" /\ Apart(t) /\ UNCHANGED <<job, state>>
BY OwnMoves DEF Reenter, machineVars

\* A sleep that ends queues its timeout.
LEMMA ExpireMoves ==
    ASSUME TypeOK, NEW k \in Timer, Expire(k)
    PROVE  pc[k] = "sleeping" /\ pc'[k] = "queued" /\ Apart(k) /\ UNCHANGED <<job, state>>
BY OwnMoves DEF Expire, Task, machineVars

-----------------------------------------------------------------------------
(* Where each task is: its place in the orchestrator, its place at the lock *)
(* and the operation it has called fit together.                            *)

Stopping == {"closing_gate", "stopping_operator", "stopping_flow"}

ClientPlace(c) ==
    /\ at[c] \in {"rest", "calling", "emit", "stuck"} \cup Stopping
    /\ at[c] = "rest" => pc[c] = "idle"
    /\ at[c] = "calling" => pc[c] = "queued" /\ job[c] \in {"start", "abort", "reset"}
    /\ at[c] = "emit" => pc[c] = "callback" /\ job[c] \in {"start", "abort", "reset"}
    /\ at[c] \in Stopping => pc[c] \in {"callback", "idle"} /\ job[c] = "abort"
    /\ at[c] = "stuck" => pc[c] = "stuck"

OperatorPlace ==
    /\ at[Operator] # "report"
    /\ at[Operator] \in {"rest", "poll", "failing", "pausing_flow"} => pc[Operator] = "idle"
    /\ at[Operator] = "calling" =>
           pc[Operator] = "queued" /\ job[Operator] \in {"press", "release", "error"}
    /\ at[Operator] = "emit" =>
           pc[Operator] = "callback" /\ job[Operator] \in {"press", "release"}
    /\ at[Operator] \in Stopping => pc[Operator] = "callback"
    /\ at[Operator] = "stuck" => pc[Operator] = "stuck"

FlowPlace ==
    /\ at[Flow] \notin {"failing", "pausing_flow"}
    /\ at[Flow] \in {"rest", "poll", "emit"} => pc[Flow] = "idle"
    /\ at[Flow] \in {"calling", "report"} =>
           pc[Flow] = "queued" /\ job[Flow] \in {"progress", "complete_early"}
    /\ at[Flow] \in Stopping => pc[Flow] = "callback"
    /\ at[Flow] = "stuck" => pc[Flow] = "stuck"

TimerPlace(k) ==
    /\ at[k] \in {"rest", "stuck"} \cup Stopping
    /\ at[k] = "rest" => pc[k] \in Dormant
    /\ at[k] \in Stopping => pc[k] = "callback"
    /\ at[k] = "stuck" => pc[k] = "stuck"

Places ==
    /\ \A c \in Client : ClientPlace(c)
    /\ OperatorPlace
    /\ FlowPlace
    /\ \A k \in Timer : TimerPlace(k)

OthersStay(t) == Apart(t) /\ \A u \in Task \ {t} : at'[u] = at[u]

\* A step that moves one task is looked at for that task alone.
LEMMA PlacesKept ==
    ASSUME Places, NEW t \in Task, OthersStay(t),
           t \in Client => ClientPlace(t)',
           t = Operator => OperatorPlace',
           t = Flow => FlowPlace',
           t \in Timer => TimerPlace(t)'
    PROVE  Places'
<1>1. /\ \A u \in Task \ {t} : at'[u] = at[u]
      /\ \A u \in Task \ {t} : u \notin Timer => pc'[u] = pc[u]
      /\ \A c \in Caller \ {t} : job'[c] = job[c]
  BY DEF OthersStay, Apart
<1>2. ASSUME NEW c \in Client PROVE ClientPlace(c)'
  <2>1. CASE c # t
    BY <1>1, <2>1, WhoIsWho DEF Places, ClientPlace
  <2> QED BY <2>1
<1>3. OperatorPlace'
  <2>1. CASE Operator # t
    BY <1>1, <2>1, WhoIsWho DEF Places, OperatorPlace
  <2> QED BY <2>1
<1>4. FlowPlace'
  <2>1. CASE Flow # t
    BY <1>1, <2>1, WhoIsWho DEF Places, FlowPlace
  <2> QED BY <2>1
<1>5. ASSUME NEW k \in Timer PROVE TimerPlace(k)'
  <2>1. CASE k # t
    <3>1. k \in Task /\ at'[k] = at[k] /\ TimerPlace(k)
      BY <1>1, <2>1 DEF Places, Task
    <3>2. pc'[k] = pc[k] \/ {pc[k], pc'[k]} \subseteq Dormant
      BY <2>1, <3>1 DEF OthersStay, Apart
    <3>3. pc[k] \in Dormant => at[k] = "rest"
      BY <3>1 DEF TimerPlace, Dormant
    <3> QED BY <3>1, <3>2, <3>3 DEF TimerPlace, Stopping
  <2> QED BY <2>1
<1> QED BY <1>2, <1>3, <1>4, <1>5 DEF Places

\* A task that goes somewhere is there, and the others stay.
LEMMA GoesMoves ==
    ASSUME RigTypeOK, NEW t \in Task, NEW place, Goes(t, place)
    PROVE  at'[t] = place /\ \A u \in Task \ {t} : at'[u] = at[u]
BY DEF RigTypeOK, Goes

\* A shutdown begins in one of its first two awaits.
LEMMA ShutdownMoves ==
    ASSUME RigTypeOK, NEW t \in Task, BeginShutdown(t)
    PROVE  /\ at'[t] \in Stopping \ {"stopping_flow"}
           /\ \A u \in Task \ {t} : at'[u] = at[u]
<1>1. Goes(t, "closing_gate") \/ Goes(t, "stopping_operator")
  BY DEF BeginShutdown, StopOperator
<1> QED BY <1>1, GoesMoves DEF Stopping

\* A transition as the orchestrator sees it.
LEMMA TransferMovesMoves ==
    ASSUME TimerInv, RigTypeOK, NEW c \in Caller, TransferMoves(c)
    PROVE  /\ c \in Task /\ at[c] = "calling" /\ at'[c] = "emit" /\ OthersStay(c)
           /\ pc[c] = "queued" /\ pc'[c] = "callback" /\ job' = job /\ Transits(c)
           /\ \A u \in Task : pc[u] \in Dormant
           /\ \/ job[c] = "start" /\ state = "idle" /\ state' = "waiting_operator"
              \/ job[c] = "press" /\ state \in {"waiting_operator", "paused"} /\ state' = "active"
              \/ job[c] = "release" /\ state = "active" /\ state' = "paused"
              \/ job[c] = "reset" /\ state' = "idle"
<1>1. Transits(c) /\ Goes(c, "emit") /\ at[c] = "calling" /\ c \in Task
  BY DEF TransferMoves, Transits, Runnable, Task
<1>2. \/ job[c] = "start" /\ state = "idle" /\ state' = "waiting_operator"
      \/ job[c] = "press" /\ state \in {"waiting_operator", "paused"} /\ state' = "active"
      \/ job[c] = "release" /\ state = "active" /\ state' = "paused"
      \/ job[c] = "reset" /\ state' = "idle"
  BY DEF TransferMoves, Start, PressToStart, PressToResume, Release, Reset, Runs, Transition
<1> QED BY <1>1, <1>2, TransitsMoves, GoesMoves DEF OthersStay

\* An ending as the orchestrator sees it.
LEMMA TransferEndsMoves ==
    ASSUME TimerInv, RigTypeOK, NEW c \in Caller, TransferEnds(c)
    PROVE  /\ c \in Task /\ at[c] = "calling" /\ OthersStay(c)
           /\ at'[c] \in Stopping \ {"stopping_flow"}
           /\ pc[c] = "queued" /\ pc'[c] = "callback" /\ job' = job /\ Transits(c)
           /\ \A u \in Task : pc[u] \in Dormant
           /\ \/ job[c] = "progress" /\ state' = "completed"
              \/ job[c] = "complete_early" /\ state' = "completed"
              \/ job[c] = "error" /\ state' = "error"
              \/ job[c] = "abort" /\ state \in Live /\ state' = "aborted"
<1>1. Transits(c) /\ BeginShutdown(c) /\ at[c] = "calling" /\ c \in Task
  BY DEF TransferEnds, Ends, Transits, Runnable, Task
<1>2. \/ job[c] = "progress" /\ state' = "completed"
      \/ job[c] = "complete_early" /\ state' = "completed"
      \/ job[c] = "error" /\ state' = "error"
      \/ job[c] = "abort" /\ state \in Live /\ state' = "aborted"
  BY DEF TransferEnds, Ends, ReachTarget, CompleteEarly, Error, Abort, Runs, Transition
<1> QED BY <1>1, <1>2, TransitsMoves, ShutdownMoves DEF OthersStay

\* A timeout as the orchestrator sees it.
LEMMA TimesOutMoves ==
    ASSUME TimerInv, RigTypeOK, NEW k \in Timer, TransferTimesOut(k)
    PROVE  /\ k \in Task /\ OthersStay(k) /\ at'[k] \in Stopping \ {"stopping_flow"}
           /\ pc'[k] = "callback" /\ job' = job /\ state' = "timeout"
           /\ \A u \in Task : pc[u] \in Dormant
BY TimeoutMoves, ShutdownMoves DEF TransferTimesOut, OthersStay

\* A shutdown from one of its awaits to the next.
LEMMA StopMoves ==
    ASSUME TimerInv, RigTypeOK, NEW t \in Task,
           CloseCancelled(t) \/ OperatorStopped(t) \/ FlowStopped(t)
    PROVE  /\ OthersStay(t) /\ at[t] \in Stopping /\ state' = state
           /\ \/ at'[t] \in Stopping /\ UNCHANGED vars
              \/ at'[t] = "emit" /\ pc[t] = "callback" /\ UNCHANGED vars
                 /\ state = "aborted"
              \/ at'[t] = "stuck" /\ pc'[t] = "stuck" /\ pc[t] = "callback"
              \/ /\ at'[t] = "calling" /\ t \in Client /\ pc[t] = "idle"
                 /\ pc'[t] = "queued" /\ job'[t] = "reset"
<1>0. TypeOK /\ (UNCHANGED vars => Apart(t) /\ state' = state)
  BY DEF TimerInv, vars, machineVars, Apart
<1>1. CASE CloseCancelled(t)
  BY <1>0, <1>1, GoesMoves DEF CloseCancelled, StopOperator, OthersStay, Stopping
<1>2. CASE OperatorStopped(t)
  BY <1>0, <1>2, GoesMoves DEF OperatorStopped, OthersStay, Stopping
<1>3. CASE FlowStopped(t)
  <2>1. at[t] \in Stopping
    BY <1>3 DEF FlowStopped, Stopping
  <2>2. CASE pc[t] = "callback" /\ state = "aborted" /\ Goes(t, "emit") /\ UNCHANGED vars
    BY <1>0, <2>1, <2>2, GoesMoves DEF OthersStay
  <2>3. CASE Reenter(t) /\ Goes(t, "stuck")
    BY <1>0, <2>1, <2>3, GoesMoves, ReenterMoves DEF OthersStay
  <2>4. CASE t \in Client /\ Call(t, "reset") /\ Goes(t, "calling")
    BY <1>0, <2>1, <2>4, GoesMoves, CallMoves, WhoIsWho DEF OthersStay
  <2> QED BY <1>3, <2>2, <2>3, <2>4 DEF FlowStopped
<1> QED BY <1>1, <1>2, <1>3

\* A cancelled monitor task that ends.
LEMMA UnwindMoves ==
    ASSUME TimerInv, RigTypeOK, NEW x \in Caller, Unwind(x)
    PROVE  /\ OthersStay(x) /\ at'[x] = "rest" /\ pc'[x] = "idle" /\ UNCHANGED <<job, state>>
           /\ x \in cancelling /\ cancelling' = cancelling \ {x} /\ pc[x] \in {"idle", "queued"}
           /\ UNCHANGED <<gate, pump, closing, opMonitoring, isMonitoring, counting>>
<1>0. TypeOK /\ x \in Task
  BY DEF TimerInv, Task
<1>1. UNCHANGED vars => Apart(x) /\ UNCHANGED <<job, state, pc>>
  BY DEF vars, machineVars, Apart
<1>2. Goes(x, "rest") /\ (Withdraw(x) \/ (pc[x] = "idle" /\ UNCHANGED vars))
  BY DEF Unwind
<1>3. Apart(x) /\ pc'[x] = "idle" /\ UNCHANGED <<job, state>> /\ pc[x] \in {"idle", "queued"}
  BY <1>0, <1>1, <1>2, WithdrawMoves
<1>4. at'[x] = "rest" /\ \A u \in Task \ {x} : at'[u] = at[u]
  BY <1>0, <1>2, GoesMoves
<1> QED BY <1>3, <1>4 DEF Unwind, OthersStay, hardware, operatorVars, flowVars

\* A callback of a client or of the operator's handler that returns.
LEMMA FinishAt ==
    ASSUME TimerInv, RigTypeOK, NEW t \in Task, Finish(t), NEW place, Goes(t, place)
    PROVE  /\ OthersStay(t) /\ at'[t] = place /\ pc'[t] = "idle"
           /\ UNCHANGED <<job, state>> /\ holder = t
BY FinishMoves, GoesMoves DEF OthersStay

\* A call made from the orchestrator.
LEMMA CallAt ==
    ASSUME TimerInv, RigTypeOK, NEW c \in Caller, NEW op, Call(c, op), NEW place, Goes(c, place)
    PROVE  /\ OthersStay(c) /\ at'[c] = place /\ pc'[c] = "queued" /\ job'[c] = op
           /\ pc[c] = "idle" /\ state' = state
BY CallMoves, GoesMoves DEF OthersStay, Task, TimerInv

\* A call of it that returns without a transition.
LEMMA ReturnAt ==
    ASSUME TimerInv, RigTypeOK, NEW c \in Caller, Refuse(c) \/ ReportProgress(c),
           NEW place, Goes(c, place)
    PROVE  /\ OthersStay(c) /\ at'[c] = place /\ pc'[c] = "idle" /\ UNCHANGED <<job, state>>
BY ReturnMoves, GoesMoves DEF OthersStay, Task

\* What start_transfer finds when start() has returned: both monitors off.
MonitorsOff(c) == at[c] = "emit" /\ job[c] = "start" =>
    at[Operator] = "rest" /\ at[Flow] = "rest"

\* Whoever else than a client shuts the hardware down has not aborted.
OwnEnding(t) == at[t] \in Stopping /\ t \notin Client => state # "aborted"

\* Every action keeps the places together.
LEMMA PlacesStep ==
    ASSUME TimerInv, RigTypeOK, Places, \A c \in Client : MonitorsOff(c),
           \A t \in Task : OwnEnding(t), [FluidNext]_allVars
    PROVE  Places'
<1>1. ASSUME NEW c \in Client, StartTransfer(c) \/ AbortTransfer(c) \/ ClientStep(c)
      PROVE  Places'
  <2>0. c \in Caller /\ c \in Task /\ c # Operator /\ c # Flow /\ c \notin Timer /\ ClientPlace(c)
    BY WhoIsWho DEF Task, Places
  <2>1. CASE StartTransfer(c) \/ AbortTransfer(c)
    BY <2>0, <2>1, CallAt, PlacesKept DEF StartTransfer, AbortTransfer, ClientPlace, Stopping
  <2>2. CASE TransferMoves(c)
    BY <2>0, <2>2, TransferMovesMoves, PlacesKept DEF ClientPlace, Stopping
  <2>3. CASE TransferEnds(c)
    BY <2>0, <2>3, TransferEndsMoves, PlacesKept DEF ClientPlace, Stopping
  <2>4. CASE Started(c)
    <3>1. Finish(c) /\ at[c] = "emit" /\ job[c] = "start"
      BY <2>4 DEF Started
    <3>2. at[Operator] = "rest" /\ at[Flow] = "rest"
      BY <3>1 DEF MonitorsOff
    <3>3. pc'[c] = "idle" /\ Apart(c) /\ job' = job
      BY <2>0, <3>1, FinishMoves
    <3>4. /\ at'[c] = "rest" /\ at'[Operator] \in {"rest", "poll"} /\ at'[Flow] \in {"rest", "poll"}
          /\ \A u \in Task \ {c, Operator, Flow} : at'[u] = at[u]
      BY <2>0, <2>4, <3>2, WhoIsWho DEF Started, RigTypeOK
    <3>5. OperatorPlace'
      BY <2>0, <3>2, <3>3, <3>4, WhoIsWho DEF Apart, Places, OperatorPlace, Stopping, Task
    <3>6. FlowPlace'
      BY <2>0, <3>2, <3>3, <3>4, WhoIsWho DEF Apart, Places, FlowPlace, Stopping, Task
    <3>7. ASSUME NEW d \in Client PROVE ClientPlace(d)'
      BY <2>0, <3>3, <3>4, WhoIsWho DEF Apart, Places, ClientPlace, Stopping, Task
    <3>8. ASSUME NEW k \in Timer PROVE TimerPlace(k)'
      <4>1. k \in Task \ {c, Operator, Flow} /\ TimerPlace(k)
        BY <2>0, WhoIsWho DEF Task, Places
      <4>2. pc'[k] = pc[k] \/ {pc[k], pc'[k]} \subseteq Dormant
        BY <3>3, <4>1 DEF Apart
      <4> QED BY <3>4, <4>1, <4>2 DEF TimerPlace, Dormant, Stopping
    <3> QED BY <3>5, <3>6, <3>7, <3>8 DEF Places
  <2>5. CASE Aborted(c)
    <3>1. Finish(c) /\ BeginShutdown(c) /\ job[c] = "abort"
      BY <2>5 DEF Aborted
    <3>2. pc'[c] = "idle" /\ OthersStay(c) /\ job' = job /\ at'[c] \in Stopping
      BY <2>0, <3>1, FinishMoves, ShutdownMoves DEF OthersStay
    <3> QED BY <2>0, <3>1, <3>2, PlacesKept DEF ClientPlace, Stopping
  <2>6. CASE Replied(c)
    BY <2>0, <2>6, FinishAt, ReturnAt, PlacesKept DEF Replied, ClientPlace, Stopping
  <2>7. CASE CloseCancelled(c) \/ OperatorStopped(c) \/ FlowStopped(c)
    BY <2>0, <2>7, StopMoves, PlacesKept DEF ClientPlace, Stopping, vars
  <2> QED BY <1>1, <2>1, <2>2, <2>3, <2>4, <2>5, <2>6, <2>7 DEF ClientStep
<1>2. ASSUME OperatorStep PROVE Places'
  <2>0. /\ Operator \in Caller /\ Operator \in Task /\ Operator \notin Client
        /\ Operator # Flow /\ Operator \notin Timer /\ OperatorPlace
    BY WhoIsWho DEF Task, Places
  <2>1. CASE Press
    BY <2>0, <2>1, CallAt, PlacesKept DEF Press, OperatorPlace, Stopping
  <2>2. CASE LetGo
    <3>1. at[Operator] = "poll" /\ pc[Operator] = "idle"
      BY <2>0, <2>2 DEF LetGo, Runnable, OperatorPlace
    <3>2. CASE Goes(Operator, "pausing_flow") /\ UNCHANGED vars
      BY <2>0, <3>1, <3>2, GoesMoves, PlacesKept
      DEF OthersStay, Apart, vars, OperatorPlace, Stopping
    <3>3. CASE Call(Operator, "release") /\ Goes(Operator, "calling")
      BY <2>0, <3>3, CallAt, PlacesKept DEF OperatorPlace, Stopping
    <3> QED BY <2>2, <3>2, <3>3 DEF LetGo
  <2>3. CASE FlowPaused \/ ReportFailure
    BY <2>0, <2>3, CallAt, PlacesKept DEF FlowPaused, ReportFailure, OperatorPlace, Stopping
  <2>4. CASE HandlerReturns
    BY <2>0, <2>4, FinishAt, ReturnAt, PlacesKept DEF HandlerReturns, OperatorPlace, Stopping
  <2>5. CASE PumpFails
    BY <2>0, <2>5, FinishAt, PlacesKept DEF PumpFails, OperatorPlace, Stopping
  <2>6. CASE TransferMoves(Operator)
    BY <2>0, <2>6, TransferMovesMoves, PlacesKept DEF OperatorPlace, Stopping
  <2>7. CASE TransferEnds(Operator)
    BY <2>0, <2>7, TransferEndsMoves, PlacesKept DEF OperatorPlace, Stopping
  <2>8. CASE Unwind(Operator)
    BY <2>0, <2>8, UnwindMoves, PlacesKept DEF OperatorPlace, Stopping
  <2>9. CASE CloseCancelled(Operator) \/ OperatorStopped(Operator) \/ FlowStopped(Operator)
    <3>1. pc[Operator] = "callback"
      BY <2>0, <2>9, StopMoves DEF OperatorPlace
    <3>2. /\ OthersStay(Operator)
          /\ \/ at'[Operator] \in Stopping /\ UNCHANGED vars
             \/ at'[Operator] = "stuck" /\ pc'[Operator] = "stuck"
      BY <2>0, <2>9, <3>1, StopMoves DEF OwnEnding
    <3> QED BY <2>0, <2>9, <3>1, <3>2, PlacesKept DEF OperatorPlace, Stopping, vars
  <2> QED BY <1>2, <2>1, <2>2, <2>3, <2>4, <2>5, <2>6, <2>7, <2>8, <2>9 DEF OperatorStep
<1>3. ASSUME FlowStep PROVE Places'
  <2>0. /\ Flow \in Caller /\ Flow \in Task /\ Flow \notin Client
        /\ Operator # Flow /\ Flow \notin Timer /\ FlowPlace
    BY WhoIsWho DEF Task, Places
  <2>1. CASE DetectEnd("progress") \/ DetectEnd("complete_early") \/ Report
    BY <2>0, <2>1, CallAt, PlacesKept DEF DetectEnd, Report, FlowPlace, Stopping
  <2>2. CASE Reported
    BY <2>0, <2>2, ReturnAt, PlacesKept DEF Reported, FlowPlace, Stopping
  <2>3. CASE Emitted
    BY <2>0, <2>3, GoesMoves, PlacesKept
    DEF Emitted, Runnable, OthersStay, Apart, vars, FlowPlace, Stopping
  <2>4. CASE TransferEnds(Flow)
    BY <2>0, <2>4, TransferEndsMoves, PlacesKept DEF FlowPlace, Stopping
  <2>5. CASE Unwind(Flow)
    BY <2>0, <2>5, UnwindMoves, PlacesKept DEF FlowPlace, Stopping
  <2>6. CASE CloseCancelled(Flow) \/ OperatorStopped(Flow) \/ FlowStopped(Flow)
    <3>1. pc[Flow] = "callback"
      BY <2>0, <2>6, StopMoves DEF FlowPlace
    <3>2. /\ OthersStay(Flow)
          /\ \/ at'[Flow] \in Stopping /\ UNCHANGED vars
             \/ at'[Flow] = "stuck" /\ pc'[Flow] = "stuck"
      BY <2>0, <2>6, <3>1, StopMoves DEF OwnEnding
    <3> QED BY <2>0, <3>1, <3>2, PlacesKept DEF FlowPlace, Stopping, vars
  <2> QED BY <1>3, <2>1, <2>2, <2>3, <2>4, <2>5, <2>6 DEF FlowStep
<1>4. ASSUME NEW k \in Timer, Lapse(k) \/ TimerStep(k) PROVE Places'
  <2>0. k \in Task /\ k \notin Client /\ k # Operator /\ k # Flow /\ TimerPlace(k)
    BY WhoIsWho DEF Task, Places
  <2>1. CASE Lapse(k)
    <3>1. OthersStay(k) /\ at' = at /\ pc[k] = "sleeping" /\ pc'[k] = "queued"
      BY <2>1, ExpireMoves DEF Lapse, rigVars, OthersStay, TimerInv
    <3> QED BY <2>0, <3>1, PlacesKept DEF TimerPlace, Dormant, Stopping
  <2>2. CASE TransferTimesOut(k)
    BY <2>0, <2>2, TimesOutMoves, PlacesKept DEF TimerPlace, Stopping
  <2>3. CASE CloseCancelled(k) \/ OperatorStopped(k) \/ FlowStopped(k)
    <3>1. pc[k] = "callback"
      BY <2>0, <2>3, StopMoves DEF TimerPlace, Stopping
    <3>2. /\ OthersStay(k)
          /\ \/ at'[k] \in Stopping /\ UNCHANGED vars
             \/ at'[k] = "stuck" /\ pc'[k] = "stuck"
      BY <2>0, <2>3, <3>1, StopMoves DEF OwnEnding
    <3> QED BY <2>0, <3>1, <3>2, PlacesKept DEF TimerPlace, Stopping, vars
  <2> QED BY <1>4, <2>1, <2>2, <2>3 DEF TimerStep
<1>5. CASE UNCHANGED <<vars, at>>
  BY <1>5 DEF vars, Places, ClientPlace, OperatorPlace, FlowPlace, TimerPlace
<1>6. DelayedClose \/ MoveTrigger \/ Pulse \/ UNCHANGED allVars => UNCHANGED <<vars, at>>
  BY DEF DelayedClose, MoveTrigger, Pulse, allVars, rigVars
<1> QED BY <1>1, <1>2, <1>3, <1>4, <1>5, <1>6 DEF FluidNext

-----------------------------------------------------------------------------
(* One client at a time takes a transfer that has ended back to idle.       *)

Ended == {"completed", "error", "timeout", "aborted"}

\* From its abort() until it has the lock for reset().
Resetting(c) ==
    \/ job[c] = "abort" /\ at[c] \in Stopping \cup {"emit"}
    \/ job[c] = "reset" /\ at[c] = "calling"

\* Until then the transfer stays ended: nobody else resets it, and none is
\* started.
EndedInv ==
    /\ \A t \in Task : OwnEnding(t) /\ (at[t] \in Stopping => state \in Ended)
    /\ \A c \in Client : Resetting(c) => state \in Ended
    /\ \A c, d \in Client : Resetting(c) /\ Resetting(d) => c = d

\* As far as endings are concerned, t alone moves.
Elsewhere(t) ==
    /\ \A c \in Client \ {t} : at'[c] = at[c] /\ job'[c] = job[c] /\ pc'[c] = pc[c]
    /\ \A u \in Task \ {t} : at'[u] \in Stopping => at'[u] = at[u]

\* t neither ends nor resets the transfer, but may go on doing either.
Lasts(t) ==
    /\ state' = state
    /\ t \in Client => (Resetting(t)' => Resetting(t))
    /\ at'[t] \in Stopping => at[t] \in Stopping \/ (t \in Client /\ Resetting(t))

\* A step that moves one task at all moves no other ending.
LEMMA OthersElsewhere ==
    ASSUME NEW t \in Task, OthersStay(t)
    PROVE  Elsewhere(t)
BY WhoIsWho DEF OthersStay, Apart, Elsewhere

\* A shutdown under way neither ends nor resets the transfer.
LEMMA StopLasts ==
    ASSUME TimerInv, RigTypeOK, Places, NEW t \in Task,
           CloseCancelled(t) \/ OperatorStopped(t) \/ FlowStopped(t)
    PROVE  Elsewhere(t) /\ Lasts(t)
<1>1. OthersStay(t) /\ at[t] \in Stopping /\ state' = state
  BY StopMoves
<1>2. t \in Client => Resetting(t)
  BY <1>1 DEF Places, ClientPlace, Resetting
<1> QED BY <1>1, <1>2, OthersElsewhere DEF Lasts

ClientActs(c) == StartTransfer(c) \/ AbortTransfer(c) \/ ClientStep(c)

\* Every step is a transition of one task, a timeout, or leaves the endings as
\* they are.
LEMMA EndShapes ==
    ASSUME TimerInv, RigTypeOK, Places, [FluidNext]_allVars
    PROVE  \E t \in Task :
              /\ Elsewhere(t) /\ (t \in Client => ClientActs(t))
              /\ \/ t \in Caller /\ (TransferMoves(t) \/ TransferEnds(t))
                 \/ t \in Timer /\ TransferTimesOut(t)
                 \/ Lasts(t)
<1>1. ASSUME NEW c \in Caller, TransferMoves(c) \/ TransferEnds(c)
      PROVE  c \in Task /\ Elsewhere(c)
  BY <1>1, TransferMovesMoves, TransferEndsMoves, OthersElsewhere
<1>2. ASSUME NEW c \in Client, StartTransfer(c) \/ AbortTransfer(c) \/ ClientStep(c),
             ~ TransferMoves(c), ~ TransferEnds(c)
      PROVE  Elsewhere(c) /\ Lasts(c)
  <2>0. c \in Caller /\ c \in Task
    BY WhoIsWho DEF Task
  <2>1. CASE StartTransfer(c) \/ AbortTransfer(c)
    BY <2>0, <2>1, CallAt, OthersElsewhere
    DEF StartTransfer, AbortTransfer, Lasts, Resetting, Stopping
  <2>2. CASE Started(c)
    <3>1. /\ at'[c] = "rest" /\ at'[Operator] \in {at[Operator], "poll"}
          /\ at'[Flow] \in {at[Flow], "poll"}
          /\ \A u \in Task \ {c, Operator, Flow} : at'[u] = at[u]
      BY <2>0, <2>2, WhoIsWho DEF Started, RigTypeOK
    <3>2. job' = job /\ state' = state /\ Apart(c)
      BY <2>0, <2>2, FinishMoves DEF Started
    <3> QED BY <2>0, <3>1, <3>2, WhoIsWho DEF Elsewhere, Apart, Lasts, Resetting, Stopping
  <2>3. CASE Aborted(c)
    <3>1. Finish(c) /\ BeginShutdown(c) /\ Resetting(c)
      BY <2>3 DEF Aborted, Resetting
    <3>2. OthersStay(c) /\ state' = state
      BY <2>0, <3>1, FinishMoves, ShutdownMoves DEF OthersStay
    <3> QED BY <2>0, <3>1, <3>2, OthersElsewhere DEF Lasts
  <2>4. CASE Replied(c)
    BY <2>0, <2>4, FinishAt, ReturnAt, OthersElsewhere
    DEF Replied, Lasts, Resetting, Stopping
  <2> QED BY <1>2, <2>0, <2>1, <2>2, <2>3, <2>4, StopLasts DEF ClientStep
<1>3. ASSUME OperatorStep, ~ TransferMoves(Operator), ~ TransferEnds(Operator)
      PROVE  Elsewhere(Operator) /\ Lasts(Operator)
  <2>0. Operator \in Caller /\ Operator \in Task /\ Operator \notin Client
    BY WhoIsWho DEF Task
  <2>1. CASE Press \/ FlowPaused \/ ReportFailure
    BY <2>0, <2>1, CallAt, OthersElsewhere DEF Press, FlowPaused, ReportFailure, Lasts, Stopping
  <2>2. CASE LetGo
    <3>1. CASE Goes(Operator, "pausing_flow") /\ UNCHANGED vars
      BY <2>0, <3>1, GoesMoves, OthersElsewhere
      DEF OthersStay, Apart, vars, machineVars, Lasts, Stopping
    <3>2. CASE Call(Operator, "release") /\ Goes(Operator, "calling")
      BY <2>0, <3>2, CallAt, OthersElsewhere DEF Lasts, Stopping
    <3> QED BY <2>2, <3>1, <3>2 DEF LetGo
  <2>3. CASE HandlerReturns
    BY <2>0, <2>3, FinishAt, ReturnAt, OthersElsewhere DEF HandlerReturns, Lasts, Stopping
  <2>4. CASE PumpFails
    BY <2>0, <2>4, FinishAt, OthersElsewhere DEF PumpFails, Lasts, Stopping
  <2>5. CASE Unwind(Operator)
    BY <2>0, <2>5, UnwindMoves, OthersElsewhere DEF Lasts, Stopping
  <2> QED BY <1>3, <2>0, <2>1, <2>2, <2>3, <2>4, <2>5, StopLasts DEF OperatorStep
<1>4. ASSUME FlowStep, ~ TransferEnds(Flow)
      PROVE  Elsewhere(Flow) /\ Lasts(Flow)
  <2>0. Flow \in Caller /\ Flow \in Task /\ Flow \notin Client
    BY WhoIsWho DEF Task
  <2>1. CASE DetectEnd("progress") \/ DetectEnd("complete_early") \/ Report
    BY <2>0, <2>1, CallAt, OthersElsewhere DEF DetectEnd, Report, Lasts, Stopping
  <2>2. CASE Reported
    BY <2>0, <2>2, ReturnAt, OthersElsewhere DEF Reported, Lasts, Stopping
  <2>3. CASE Emitted
    BY <2>0, <2>3, GoesMoves, OthersElsewhere
    DEF Emitted, OthersStay, Apart, vars, machineVars, Lasts, Stopping
  <2>4. CASE Unwind(Flow)
    BY <2>0, <2>4, UnwindMoves, OthersElsewhere DEF Lasts, Stopping
  <2> QED BY <1>4, <2>0, <2>1, <2>2, <2>3, <2>4, StopLasts DEF FlowStep
<1>5. ASSUME NEW k \in Timer, Lapse(k) \/ TimerStep(k), ~ TransferTimesOut(k)
      PROVE  k \in Task /\ Elsewhere(k) /\ Lasts(k)
  <2>0. k \in Task /\ k \notin Client
    BY WhoIsWho DEF Task
  <2>1. CASE Lapse(k)
    BY <2>0, <2>1, ExpireMoves, OthersElsewhere DEF Lapse, rigVars, OthersStay, TimerInv, Lasts
  <2> QED BY <1>5, <2>0, <2>1, StopLasts DEF TimerStep
<1>6. ASSUME NEW k \in Timer, TransferTimesOut(k)
      PROVE  k \in Task /\ Elsewhere(k)
  BY <1>6, TimesOutMoves, OthersElsewhere
<1>7. ASSUME UNCHANGED <<vars, at>>
      PROVE  Operator \in Task /\ Elsewhere(Operator) /\ Lasts(Operator)
  BY <1>7, WhoIsWho DEF vars, machineVars, Elsewhere, Lasts, Task, Resetting, Stopping
<1>8. DelayedClose \/ MoveTrigger \/ Pulse \/ UNCHANGED allVars => UNCHANGED <<vars, at>>
  BY DEF DelayedClose, MoveTrigger, Pulse, allVars, rigVars
<1>9. CASE \E c \in Client : StartTransfer(c) \/ AbortTransfer(c) \/ ClientStep(c)
  <2>1. PICK c \in Client : StartTransfer(c) \/ AbortTransfer(c) \/ ClientStep(c)
    BY <1>9
  <2>2. c \in Caller /\ c \in Task /\ ClientActs(c)
    BY <2>1, WhoIsWho DEF ClientActs, Task
  <2> QED BY <1>1, <1>2, <2>1, <2>2
<1>10. CASE \E k \in Timer : Lapse(k) \/ TimerStep(k)
  BY <1>5, <1>6, <1>10, WhoIsWho
<1>11. CASE OperatorStep \/ FlowStep
  BY <1>1, <1>3, <1>4, <1>11, WhoIsWho DEF Task
<1>12. CASE UNCHANGED <<vars, at>>
  BY <1>7, <1>12, WhoIsWho
<1> QED BY <1>8, <1>9, <1>10, <1>11, <1>12 DEF FluidNext

\* So an ended transfer stays ended until its one client has reset it.
LEMMA EndedStep ==
    ASSUME TimerInv, RigTypeOK, Places, EndedInv, [FluidNext]_allVars
    PROVE  EndedInv'
<1>1. PICK t \in Task :
          /\ Elsewhere(t) /\ (t \in Client => ClientActs(t))
          /\ \/ t \in Caller /\ (TransferMoves(t) \/ TransferEnds(t))
             \/ t \in Timer /\ TransferTimesOut(t)
             \/ Lasts(t)
  BY EndShapes
<1>2. \A c \in Client \ {t} : Resetting(c)' <=> Resetting(c)
  BY <1>1 DEF Elsewhere, Resetting
\* A transition finds no task in a callback: whoever stops then is resetting.
<1>3. ASSUME \A u \in Task : pc[u] \in Dormant, NEW u \in Task, at[u] \in Stopping
      PROVE  u \in Client /\ Resetting(u)
  BY <1>3, WhoIsWho DEF Places, ClientPlace, OperatorPlace, FlowPlace, TimerPlace,
     Dormant, Resetting
<1>4. CASE Lasts(t)
  BY <1>1, <1>2, <1>4 DEF Lasts, EndedInv, OwnEnding, Elsewhere
<1>5. CASE t \in Caller /\ TransferEnds(t)
  <2>1. /\ at[t] = "calling" /\ state' \in Ended
        /\ \A u \in Task : pc[u] \in Dormant
        /\ at'[t] \in Stopping /\ job' = job
        /\ state' = "aborted" => job[t] = "abort" /\ state \in Live
    BY <1>5, TransferEndsMoves DEF Ended
  <2>2. \A u \in Task \ {t} : at'[u] \notin Stopping \/ u \in Client
    BY <1>1, <1>3, <2>1 DEF Elsewhere
  <2>3. t \in Client => job[t] \in {"start", "abort", "reset"}
    BY <2>1 DEF Places, ClientPlace
  <2>4. t \notin Client => state' # "aborted"
    BY <1>5, <2>1, WhoIsWho DEF Places, OperatorPlace, FlowPlace
  <2>5. t \in Client => state \notin Ended
    BY <1>5, <2>1, <2>3, TransferEndsMoves DEF Live, Ended
  <2>6. \A c \in Client \ {t} : t \in Client => ~ Resetting(c)'
    BY <1>2, <2>5 DEF EndedInv
  <2> QED BY <1>2, <2>1, <2>2, <2>4, <2>6 DEF EndedInv, OwnEnding, Resetting, Stopping
<1>6. CASE t \in Timer /\ TransferTimesOut(t)
  <2>1. state' = "timeout" /\ t \notin Client
    BY <1>6, TimesOutMoves, WhoIsWho
  <2> QED BY <1>2, <2>1 DEF EndedInv, OwnEnding, Ended
<1>7. CASE t \in Caller /\ TransferMoves(t)
  <2>1. /\ at[t] = "calling" /\ at'[t] = "emit" /\ job' = job
        /\ \A u \in Task : pc[u] \in Dormant
        /\ \/ job[t] \in {"start", "press", "release"} /\ state \notin Ended
           \/ job[t] = "reset"
    BY <1>7, TransferMovesMoves DEF Ended
  <2>2. job[t] = "reset" => t \in Client /\ Resetting(t)
    BY <1>7, <2>1, WhoIsWho DEF Places, OperatorPlace, FlowPlace, Resetting
  <2>3. \A c \in Client \ {t} : ~ Resetting(c)
    BY <2>1, <2>2 DEF EndedInv
  <2>4. t \in Client => ~ Resetting(t)'
    BY <2>1, <1>7, TransferMovesMoves DEF Resetting, Stopping
  <2>5. \A u \in Task : at'[u] \notin Stopping
    BY <1>1, <1>3, <2>1, <2>3 DEF Elsewhere, Stopping
  <2> QED BY <1>2, <2>3, <2>4, <2>5 DEF EndedInv, OwnEnding
<1> QED BY <1>1, <1>4, <1>5, <1>6, <1>7

-----------------------------------------------------------------------------
(* What is off stays off.                                                   *)

OpOff == ~ opMonitoring /\ at[Operator] = "rest" /\ Operator \notin cancelling
FlowOff == ~ isMonitoring /\ ~ counting /\ at[Flow] = "rest" /\ Flow \notin cancelling
AllOff == OpOff /\ FlowOff /\ ~ gate /\ ~ pump /\ ~ closing

\* Only start_transfer turns a monitor on; without the operator's monitor
\* nothing turns the hardware on.
StaysOff ==
    /\ opMonitoring' => opMonitoring
    /\ isMonitoring' => isMonitoring
    /\ counting' => counting
    /\ OpOff => OpOff' /\ (gate' => gate) /\ (closing' => closing) /\ (pump' => pump)
    /\ FlowOff => FlowOff'

\* The beginning of a shutdown turns nothing on.
LEMMA ShutdownTurnsOff ==
    ASSUME RigTypeOK, NEW t \in Task, BeginShutdown(t), at[t] # "rest"
    PROVE  StaysOff
<1>1. \A u \in Task \ {t} : at'[u] = at[u]
  BY ShutdownMoves
<1>2. UNCHANGED <<isMonitoring, counting>> /\ (opMonitoring' => opMonitoring)
  BY DEF BeginShutdown, StopOperator, flowVars
<1>3. (gate' => gate) /\ ~ pump' /\ (closing' => closing)
  BY DEF BeginShutdown, StopPump
<1>4. cancelling' = cancelling \/ CancelMonitor(t, Operator)
  BY DEF BeginShutdown, StopOperator
<1>5. Flow \notin cancelling => Flow \notin cancelling'
  BY <1>4, WhoIsWho DEF CancelMonitor
<1>6. OpOff => Operator \notin cancelling'
  BY <1>4 DEF OpOff, CancelMonitor
<1> QED BY <1>1, <1>2, <1>3, <1>5, <1>6, WhoIsWho DEF StaysOff, OpOff, FlowOff, Task

\* Nor does the rest of it.
LEMMA StopTurnsOff ==
    ASSUME TimerInv, RigTypeOK, NEW t \in Task,
           CloseCancelled(t) \/ OperatorStopped(t) \/ FlowStopped(t)
    PROVE  StaysOff
<1>1. at[t] # "rest" /\ \A u \in Task \ {t} : at'[u] = at[u]
  BY StopMoves DEF OthersStay, Stopping
<1>2. /\ (opMonitoring' => opMonitoring) /\ (isMonitoring' => isMonitoring)
      /\ (counting' => counting)
  BY DEF CloseCancelled, OperatorStopped, FlowStopped, StopOperator, StopFlow,
         operatorVars, flowVars
<1>3. (gate' => gate) /\ UNCHANGED <<pump, closing>>
  BY DEF CloseCancelled, OperatorStopped, FlowStopped, hardware
<1>4. cancelling' = cancelling \/ CancelMonitor(t, Operator) \/ CancelMonitor(t, Flow)
  BY DEF CloseCancelled, OperatorStopped, FlowStopped, StopOperator
<1>5. FlowOff => Flow \notin cancelling'
  BY <1>4, WhoIsWho DEF FlowOff, CancelMonitor
<1>6. OpOff => Operator \notin cancelling'
  BY <1>4, WhoIsWho DEF OpOff, CancelMonitor
<1> QED BY <1>1, <1>2, <1>3, <1>5, <1>6, WhoIsWho DEF StaysOff, OpOff, FlowOff, Task

\* Nor does anything else but the start of the monitors.
LEMMA OffKept ==
    ASSUME TimerInv, RigTypeOK, Places, [FluidNext]_allVars, \A c \in Client : ~ Started(c)
    PROVE  StaysOff
<1>1. ASSUME NEW t \in Task, at[t] # "rest", \A u \in Task \ {t} : at'[u] = at[u],
             UNCHANGED <<hardware, opMonitoring, isMonitoring, counting, cancelling>>
      PROVE  StaysOff
  BY <1>1, WhoIsWho DEF StaysOff, OpOff, FlowOff, Task, hardware
<1>2. ASSUME NEW c \in Caller, TransferMoves(c) \/ TransferEnds(c)
      PROVE  StaysOff
  <2>1. CASE TransferMoves(c)
    BY <1>1, <2>1, TransferMovesMoves DEF TransferMoves, OthersStay, operatorVars, flowVars
  <2>2. CASE TransferEnds(c)
    BY <2>2, TransferEndsMoves, ShutdownTurnsOff DEF TransferEnds
  <2> QED BY <1>2, <2>1, <2>2
<1>3. ASSUME UNCHANGED <<hardware, opMonitoring, isMonitoring, counting, cancelling>>,
             at'[Operator] = at[Operator], at'[Flow] = at[Flow]
      PROVE  StaysOff
  BY <1>3 DEF StaysOff, OpOff, FlowOff, hardware
<1>4. ASSUME NEW c \in Client, ClientActs(c) PROVE StaysOff
  <2>0. c \in Caller /\ c \in Task /\ c # Operator /\ c # Flow /\ Operator \in Task /\ Flow \in Task
    BY WhoIsWho DEF Task
  <2>1. CASE StartTransfer(c) \/ AbortTransfer(c)
    BY <1>3, <2>0, <2>1, GoesMoves DEF StartTransfer, AbortTransfer, operatorVars, flowVars
  <2>2. CASE Replied(c)
    BY <1>3, <2>0, <2>2, GoesMoves DEF Replied, operatorVars, flowVars
  <2>3. CASE Aborted(c)
    BY <2>0, <2>3, ShutdownTurnsOff DEF Aborted
  <2> QED BY <1>2, <1>4, <2>0, <2>1, <2>2, <2>3, StopTurnsOff DEF ClientActs, ClientStep
<1>5. ASSUME OperatorStep PROVE StaysOff
  <2>0. Operator \in Caller /\ Operator \in Task /\ Flow \in Task /\ Operator # Flow
    BY WhoIsWho DEF Task
  <2>1. ASSUME at[Operator] # "rest", at'[Flow] = at[Flow], ~ isMonitoring' \/ isMonitoring' = isMonitoring,
               ~ counting' \/ counting' = counting, opMonitoring' = opMonitoring,
               FlowOff => Flow \notin cancelling'
        PROVE  StaysOff
    BY <2>1 DEF StaysOff, OpOff, FlowOff
  <2>2. CASE Press
    <3>1. at[Operator] # "rest" /\ Goes(Operator, "calling")
          /\ UNCHANGED <<opMonitoring, flowVars, cancelling>>
      BY <2>2 DEF Press, Runnable
    <3> QED BY <2>0, <2>1, <3>1, GoesMoves DEF flowVars, FlowOff
  <2>3. CASE LetGo
    <3>1. at[Operator] = "poll" /\ opMonitoring' = opMonitoring
      BY <2>3 DEF LetGo, Runnable
    <3>2. CASE isMonitoring
      <4>1. StopFlow /\ Goes(Operator, "pausing_flow")
        BY <2>3, <3>2 DEF LetGo
      <4> QED BY <2>0, <2>1, <3>1, <3>2, <4>1, GoesMoves DEF StopFlow, FlowOff
    <3>3. CASE ~ isMonitoring
      <4>1. UNCHANGED <<isMonitoring, counting, cancelling>> /\ Goes(Operator, "calling")
        BY <2>3, <3>3 DEF LetGo
      <4> QED BY <2>0, <2>1, <3>1, <4>1, GoesMoves DEF FlowOff
    <3> QED BY <3>2, <3>3
  <2>4. CASE FlowPaused \/ PumpFails \/ ReportFailure
    BY <1>1, <2>0, <2>4, GoesMoves
    DEF FlowPaused, PumpFails, ReportFailure, Runnable, operatorVars, flowVars
  <2>5. CASE HandlerReturns
    <3>1. at[Operator] # "rest" /\ Goes(Operator, "poll") /\ UNCHANGED <<operatorVars, flowVars, cancelling>>
      BY <2>5 DEF HandlerReturns, Runnable
    <3> QED BY <2>0, <2>1, <3>1, GoesMoves DEF operatorVars, flowVars, FlowOff
  <2>6. CASE Unwind(Operator)
    <3>1. Operator \in cancelling /\ cancelling' \subseteq cancelling /\ at'[Flow] = at[Flow]
          /\ UNCHANGED <<opMonitoring, isMonitoring, counting>>
      BY <2>0, <2>6, UnwindMoves DEF OthersStay
    <3> QED BY <3>1 DEF StaysOff, OpOff, FlowOff
  <2> QED BY <1>2, <1>5, <2>0, <2>2, <2>3, <2>4, <2>5, <2>6, StopTurnsOff DEF OperatorStep
<1>6. ASSUME FlowStep PROVE StaysOff
  <2>0. Flow \in Caller /\ Operator \in Task /\ Flow \in Task /\ Operator # Flow
    BY WhoIsWho DEF Task
  <2>1. ASSUME NEW op, DetectEnd(op) PROVE StaysOff
    <3>1. /\ at[Flow] # "rest" /\ at'[Operator] = at[Operator] /\ ~ isMonitoring' /\ ~ pump' /\ ~ gate'
          /\ UNCHANGED <<closing, opMonitoring, counting, cancelling>>
      BY <2>0, <2>1, GoesMoves DEF DetectEnd, Runnable, operatorVars
    <3> QED BY <3>1 DEF StaysOff, OpOff, FlowOff
  <2>2. CASE Report \/ Reported \/ Emitted
    BY <1>1, <2>0, <2>2, GoesMoves DEF Report, Reported, Emitted, Runnable, operatorVars, flowVars
  <2>3. CASE Unwind(Flow)
    <3>1. Flow \in cancelling /\ cancelling' \subseteq cancelling /\ at'[Operator] = at[Operator]
          /\ UNCHANGED <<gate, pump, closing, opMonitoring, isMonitoring, counting>>
      BY <2>0, <2>3, UnwindMoves DEF OthersStay
    <3> QED BY <3>1 DEF StaysOff, OpOff, FlowOff
  <2> QED BY <1>2, <1>6, <2>0, <2>1, <2>2, <2>3, StopTurnsOff DEF FlowStep
<1>7. ASSUME NEW k \in Timer, Lapse(k) \/ TimerStep(k) PROVE StaysOff
  <2>0. k \in Task
    BY DEF Task
  <2>1. CASE Lapse(k)
    BY <1>3, <2>1 DEF Lapse, rigVars, operatorVars, flowVars
  <2>2. CASE TransferTimesOut(k)
    <3>1. pc[k] = "queued" /\ BeginShutdown(k)
      BY <2>2, TimeoutMoves DEF TransferTimesOut
    <3>2. UNCHANGED <<isMonitoring, counting>> /\ k # Operator /\ k # Flow
      BY <3>1, WhoIsWho DEF BeginShutdown, flowVars
    <3>3. (gate' => gate) /\ ~ pump' /\ (closing' => closing) /\ (opMonitoring' => opMonitoring)
      BY <3>1 DEF BeginShutdown, StopPump, StopOperator
    <3>4. at'[Operator] = at[Operator] /\ at'[Flow] = at[Flow]
      BY <2>0, <3>1, <3>2, ShutdownMoves, WhoIsWho DEF Task
    <3>5. cancelling' = cancelling \/ CancelMonitor(k, Operator)
      BY <3>1 DEF BeginShutdown, StopOperator
    <3>6. (OpOff => Operator \notin cancelling') /\ (Flow \notin cancelling => Flow \notin cancelling')
      BY <3>5, WhoIsWho DEF OpOff, CancelMonitor
    <3> QED BY <3>2, <3>3, <3>4, <3>6 DEF StaysOff, OpOff, FlowOff
  <2> QED BY <1>7, <2>0, <2>1, <2>2, StopTurnsOff DEF TimerStep
<1>8. CASE DelayedClose
  BY <1>8 DEF DelayedClose, StaysOff, OpOff, FlowOff, operatorVars, flowVars
<1>9. CASE MoveTrigger \/ Pulse \/ UNCHANGED allVars
  BY <1>3, <1>9 DEF MoveTrigger, Pulse, allVars, rigVars, hardware, operatorVars, flowVars
<1> QED BY <1>4, <1>5, <1>6, <1>7, <1>8, <1>9 DEF FluidNext, ClientActs

-----------------------------------------------------------------------------
(* What an aborted transfer leaves behind.                                  *)

\* Only a task that runs is cancelled.
CancelInv == \A x \in cancelling : at[x] # "rest"

\* Every action keeps a cancellation for a task that runs.
LEMMA CancelStep ==
    ASSUME TimerInv, RigTypeOK, Places, CancelInv, \A c \in Client : MonitorsOff(c),
           [FluidNext]_allVars
    PROVE  CancelInv'
<1>0. cancelling \subseteq {Operator, Flow} /\ Operator \in Task /\ Flow \in Task
  BY WhoIsWho DEF RigTypeOK, Task
<1>1. ASSUME NEW t \in Task, CancelMonitor(t, Operator) \/ CancelMonitor(t, Flow)
             \/ cancelling' = cancelling,
             \A u \in Task \ {t} : at'[u] = at[u], at'[t] # "rest"
      PROVE  CancelInv'
  BY <1>0, <1>1 DEF CancelMonitor, CancelInv
<1>2. ASSUME NEW t \in Task, \A u \in Task \ {t} : at'[u] = at[u],
             cancelling' = cancelling, t \notin {Operator, Flow}
      PROVE  CancelInv'
  BY <1>0, <1>2 DEF CancelInv
<1>3. ASSUME NEW t \in Task, CloseCancelled(t) \/ OperatorStopped(t) \/ FlowStopped(t)
      PROVE  CancelInv'
  <2>1. at'[t] # "rest" /\ \A u \in Task \ {t} : at'[u] = at[u]
    BY <1>3, StopMoves DEF OthersStay, Stopping
  <2>2. CancelMonitor(t, Operator) \/ CancelMonitor(t, Flow) \/ cancelling' = cancelling
    BY <1>3 DEF CloseCancelled, OperatorStopped, FlowStopped, StopOperator
  <2> QED BY <1>1, <2>1, <2>2
<1>4. ASSUME NEW t \in Task, BeginShutdown(t) PROVE CancelInv'
  <2>1. at'[t] # "rest" /\ \A u \in Task \ {t} : at'[u] = at[u]
    BY <1>4, ShutdownMoves DEF Stopping
  <2>2. CancelMonitor(t, Operator) \/ cancelling' = cancelling
    BY <1>4 DEF BeginShutdown, StopOperator
  <2> QED BY <1>1, <2>1, <2>2
<1>5. ASSUME NEW t \in Task, NEW place, place # "rest", Goes(t, place), cancelling' = cancelling
      PROVE  CancelInv'
  BY <1>1, <1>5, GoesMoves
<1>6. ASSUME NEW c \in Caller, TransferMoves(c) \/ TransferEnds(c) PROVE CancelInv'
  BY <1>4, <1>5, <1>6 DEF TransferMoves, TransferEnds, Task
<1>7. ASSUME NEW c \in Client, ClientActs(c) PROVE CancelInv'
  <2>0. c \in Caller /\ c \in Task /\ c \notin {Operator, Flow}
    BY WhoIsWho DEF Task
  <2>1. CASE StartTransfer(c) \/ AbortTransfer(c) \/ Replied(c)
    BY <1>2, <2>0, <2>1, GoesMoves DEF StartTransfer, AbortTransfer, Replied
  <2>2. CASE Started(c)
    <3>1. at[Operator] = "rest" /\ at[Flow] = "rest" /\ cancelling' = cancelling
      BY <2>2 DEF Started, MonitorsOff
    <3> QED BY <1>0, <3>1 DEF CancelInv
  <2>3. CASE Aborted(c)
    BY <1>4, <2>0, <2>3 DEF Aborted
  <2> QED BY <1>3, <1>6, <1>7, <2>0, <2>1, <2>2, <2>3 DEF ClientActs, ClientStep
<1>8. ASSUME OperatorStep PROVE CancelInv'
  <2>1. CASE Press \/ FlowPaused \/ HandlerReturns \/ PumpFails \/ ReportFailure
    BY <1>0, <1>5, <2>1 DEF Press, FlowPaused, HandlerReturns, PumpFails, ReportFailure
  <2>2. CASE LetGo
    <3>1. \/ Goes(Operator, "pausing_flow") /\ CancelMonitor(Operator, Flow)
          \/ Goes(Operator, "calling") /\ cancelling' = cancelling
      BY <2>2 DEF LetGo
    <3> QED BY <1>0, <1>1, <3>1, GoesMoves
  <2>3. CASE Unwind(Operator)
    <3>1. cancelling' = cancelling \ {Operator} /\ at'[Flow] = at[Flow]
      BY <1>0, <2>3, UnwindMoves, WhoIsWho DEF OthersStay
    <3> QED BY <1>0, <3>1 DEF CancelInv
  <2> QED BY <1>0, <1>3, <1>6, <1>8, <2>1, <2>2, <2>3, WhoIsWho DEF OperatorStep
<1>9. ASSUME FlowStep PROVE CancelInv'
  <2>1. CASE DetectEnd("progress") \/ DetectEnd("complete_early") \/ Report \/ Reported \/ Emitted
    BY <1>0, <1>5, <2>1 DEF DetectEnd, Report, Reported, Emitted
  <2>2. CASE Unwind(Flow)
    <3>1. cancelling' = cancelling \ {Flow} /\ at'[Operator] = at[Operator]
      BY <1>0, <2>2, UnwindMoves, WhoIsWho DEF OthersStay
    <3> QED BY <1>0, <3>1 DEF CancelInv
  <2> QED BY <1>0, <1>3, <1>6, <1>9, <2>1, <2>2, WhoIsWho DEF FlowStep
<1>10. ASSUME NEW k \in Timer, TimerStep(k) PROVE CancelInv'
  BY <1>3, <1>4, <1>10 DEF TimerStep, TransferTimesOut, Task
<1>11. ASSUME NEW k \in Timer, Lapse(k) PROVE UNCHANGED <<at, cancelling>>
  BY <1>11 DEF Lapse, rigVars
<1>12. DelayedClose \/ MoveTrigger \/ Pulse \/ UNCHANGED allVars => UNCHANGED <<at, cancelling>>
  BY DEF DelayedClose, MoveTrigger, Pulse, allVars, rigVars
<1>13. CASE UNCHANGED <<at, cancelling>>
  BY <1>13 DEF CancelInv
<1> QED BY <1>7, <1>8, <1>9, <1>10, <1>11, <1>12, <1>13 DEF FluidNext, ClientActs

\* Between its start() and the starting of the monitors a client finds the
\* transfer as it has left it.
EmitStart == \A c \in Client : at[c] = "emit" /\ job[c] = "start" => state = "waiting_operator"

\* The first shutdown of an abort ends the monitors, one after the other; the
\* second one finds no delayed close, or the last, and closes the gate.
Again(c) == at[c] \in Stopping /\ pc[c] = "idle"
Stopped(c) ==
    /\ at[c] = "stopping_operator" => ~ opMonitoring
    /\ at[c] = "stopping_flow" => OpOff /\ ~ isMonitoring /\ ~ counting
    /\ (at[c] = "emit" /\ job[c] = "abort") \/ Again(c) => OpOff /\ FlowOff
    /\ Again(c) => ~ closing
    /\ Again(c) /\ at[c] # "closing_gate" => ~ gate
    /\ (at[c] = "calling" /\ job[c] = "reset")
          \/ (at[c] = "emit" /\ job[c] \in {"reset", "start"}) => AllOff

QuietInv == (\A c \in Client : Stopped(c)) /\ (state = "idle" => AllOff)

\* A client that has started the machine finds both monitors off.
LEMMA MonitorsAreOff ==
    ASSUME QuietInv
    PROVE  \A c \in Client : MonitorsOff(c)
BY DEF QuietInv, Stopped, AllOff, OpOff, FlowOff, MonitorsOff

\* A client that does not move stays as quiet as it is.
LEMMA StoppedKept ==
    ASSUME StaysOff, NEW c \in Client, Stopped(c),
           at'[c] = at[c], pc'[c] = pc[c], job'[c] = job[c]
    PROVE  Stopped(c)'
BY DEF StaysOff, Stopped, Again, AllOff

\* What is all off stays all off.
LEMMA AllOffKept == StaysOff /\ AllOff => AllOff'
BY DEF StaysOff, AllOff

\* Only the client that has made the transition can leave the state, and it
\* has the lock.
LEMMA EmitStartStep ==
    ASSUME TimerInv, RigTypeOK, Places, EmitStart, [FluidNext]_allVars
    PROVE  EmitStart'
<1> SUFFICES ASSUME NEW c \in Client, at'[c] = "emit", job'[c] = "start"
             PROVE  state' = "waiting_operator"
  BY DEF EmitStart
<1>0. c \in Task /\ c \in Caller /\ c \notin Timer /\ ClientPlace(c)
  BY WhoIsWho DEF Task, Places
<1>1. PICK t \in Task :
          /\ Elsewhere(t) /\ (t \in Client => ClientActs(t))
          /\ \/ t \in Caller /\ (TransferMoves(t) \/ TransferEnds(t))
             \/ t \in Timer /\ TransferTimesOut(t)
             \/ Lasts(t)
  BY EndShapes
<1>2. CASE t # c
  <2>1. at[c] = "emit" /\ job[c] = "start" /\ pc[c] = "callback"
    BY <1>0, <1>1, <1>2 DEF Elsewhere, ClientPlace
  <2>2. \E u \in Task : pc[u] \notin Dormant
    BY <1>0, <2>1 DEF Dormant
  <2>3. Lasts(t)
    BY <1>1, <2>2, TransferMovesMoves, TransferEndsMoves, TimesOutMoves
  <2> QED BY <2>1, <2>3 DEF EmitStart, Lasts
<1>3. CASE t = c
  <2>1. CASE TransferMoves(c)
    BY <1>0, <2>1, TransferMovesMoves
  <2>2. CASE TransferEnds(c)
    BY <1>0, <2>2, TransferEndsMoves DEF Stopping
  <2>3. CASE StartTransfer(c) \/ AbortTransfer(c)
    BY <1>0, <2>3, GoesMoves DEF StartTransfer, AbortTransfer
  <2>4. CASE Started(c)
    BY <1>0, <2>4, WhoIsWho DEF Started, RigTypeOK
  <2>5. CASE Aborted(c)
    BY <1>0, <2>5, ShutdownMoves DEF Aborted, Stopping
  <2>6. CASE Replied(c)
    BY <1>0, <2>6, GoesMoves DEF Replied
  <2>7. CASE CloseCancelled(c) \/ OperatorStopped(c) \/ FlowStopped(c)
    <3>1. at[c] \in Stopping /\ job[c] = "abort"
      BY <1>0, <2>7, StopMoves DEF ClientPlace
    <3>2. job'[c] \in {job[c], "reset"}
      BY <1>0, <2>7, StopMoves, ReenterMoves, CallMoves
      DEF CloseCancelled, OperatorStopped, FlowStopped, vars, TimerInv
    <3> QED BY <3>1, <3>2
  <2> QED BY <1>1, <1>3, <2>1, <2>2, <2>3, <2>4, <2>5, <2>6, <2>7 DEF ClientActs, ClientStep
<1> QED BY <1>2, <1>3

-----------------------------------------------------------------------------
(* Valve before pump.                                                       *)

\* What PumpGuarded needs to be inductive: the operator's handler has stopped
\* the pump before it tells the machine of a release, and no delayed close is
\* pending from a press until its handler returns.
PumpInv ==
    /\ PumpGuarded
    /\ at[Operator] = "pausing_flow" \/ (at[Operator] = "calling" /\ job[Operator] = "release")
           => ~ pump
    /\ at[Operator] \in {"calling", "emit"} /\ job[Operator] = "press" => ~ closing

\* Only the operator's handler turns the pump on, and the others leave the
\* active state and the gate only with the pump off.
LEMMA PumpStep ==
    ASSUME TimerInv, RigTypeOK, Places, EndedInv, PumpInv, [FluidNext]_allVars
    PROVE  PumpInv'
<1>0. /\ Operator \in Task /\ Operator \in Caller /\ Flow \in Task /\ Flow \in Caller
      /\ Operator # Flow /\ Operator \notin Client /\ OperatorPlace
  BY WhoIsWho DEF Task, Places
<1>1. ASSUME at'[Operator] = at[Operator], job'[Operator] = job[Operator],
             UNCHANGED hardware, ~ pump \/ state' = state
      PROVE  PumpInv'
  BY <1>1 DEF PumpInv, PumpGuarded, hardware
<1>2. ASSUME at'[Operator] = at[Operator], job'[Operator] = job[Operator],
             ~ pump', closing' => closing
      PROVE  PumpInv'
  BY <1>2 DEF PumpInv, PumpGuarded
<1>3. ASSUME at'[Operator] \notin {"calling", "emit"}, ~ pump'
      PROVE  PumpInv'
  BY <1>3 DEF PumpInv, PumpGuarded
<1>4. ASSUME NEW t \in Task, OthersStay(t), t # Operator
      PROVE  at'[Operator] = at[Operator] /\ job'[Operator] = job[Operator]
  BY <1>0, <1>4 DEF OthersStay, Apart
<1>5. ASSUME NEW t \in Task, BeginShutdown(t) PROVE ~ pump' /\ (closing' => closing)
  BY <1>5 DEF BeginShutdown, StopPump
<1>6. ASSUME NEW t \in Task, CloseCancelled(t) \/ OperatorStopped(t) \/ FlowStopped(t)
      PROVE  PumpInv'
  <2>1. OthersStay(t) /\ at[t] \in Stopping
    BY <1>6, StopMoves
  <2>2. ~ pump /\ (t \notin Client => state # "aborted")
    BY <2>1 DEF EndedInv, OwnEnding, PumpInv, PumpGuarded, Ended
  <2>3. UNCHANGED <<pump, closing>>
    BY <1>6 DEF CloseCancelled, OperatorStopped, FlowStopped, hardware
  <2>4. t = Operator => at'[t] \in Stopping \cup {"stuck"}
    BY <1>0, <1>6, <2>2, StopMoves
  <2> QED BY <1>2, <1>3, <1>4, <2>1, <2>2, <2>3, <2>4 DEF Stopping
<1>7. ASSUME NEW c \in Caller, TransferMoves(c) \/ TransferEnds(c)
      PROVE  PumpInv'
  <2>1. CASE TransferEnds(c)
    <3>1. BeginShutdown(c) /\ OthersStay(c) /\ c \in Task /\ at'[c] \in Stopping
      BY <2>1, TransferEndsMoves DEF TransferEnds
    <3> QED BY <1>2, <1>3, <1>4, <1>5, <3>1 DEF Stopping
  <2>2. CASE TransferMoves(c)
    <3>1. /\ c \in Task /\ OthersStay(c) /\ at[c] = "calling" /\ at'[c] = "emit" /\ job' = job
          /\ UNCHANGED hardware
          /\ \/ job[c] \in {"start", "press"} /\ state # "active"
             \/ job[c] = "release" /\ state' # "active"
             \/ job[c] = "reset"
      BY <2>2, TransferMovesMoves DEF TransferMoves
    <3>2. job[c] = "release" => c = Operator
      BY <1>0, <3>1, WhoIsWho DEF Places, ClientPlace, FlowPlace
    <3>3. job[c] = "reset" => c \in Client /\ Resetting(c)
      BY <1>0, <3>1, WhoIsWho DEF Places, OperatorPlace, FlowPlace, Resetting
    <3>4. ~ pump
      BY <3>1, <3>2, <3>3 DEF PumpInv, PumpGuarded, EndedInv, Ended
    <3>5. CASE c = Operator
      BY <3>1, <3>4, <3>5 DEF PumpInv, PumpGuarded, hardware
    <3> QED BY <1>1, <1>4, <3>1, <3>4, <3>5
  <2> QED BY <1>7, <2>1, <2>2
<1>8. ASSUME NEW c \in Client, ClientActs(c) PROVE PumpInv'
  <2>0. c \in Caller /\ c \in Task /\ c # Operator /\ c # Flow
    BY WhoIsWho DEF Task
  <2>1. CASE StartTransfer(c) \/ AbortTransfer(c)
    BY <1>1, <1>4, <2>0, <2>1, CallAt DEF StartTransfer, AbortTransfer
  <2>2. CASE Replied(c)
    BY <1>1, <1>4, <2>0, <2>2, FinishAt, ReturnAt DEF Replied
  <2>3. CASE Started(c)
    <3>1. /\ job' = job /\ state' = state /\ UNCHANGED hardware
          /\ at'[Operator] \in {at[Operator], "poll"}
      BY <1>0, <2>0, <2>3, FinishMoves DEF Started, RigTypeOK, hardware
    <3> QED BY <3>1 DEF PumpInv, PumpGuarded, hardware
  <2>4. CASE Aborted(c)
    <3>1. BeginShutdown(c) /\ OthersStay(c)
      BY <2>0, <2>4, FinishMoves, ShutdownMoves DEF Aborted, OthersStay
    <3> QED BY <1>2, <1>4, <1>5, <2>0, <3>1
  <2> QED BY <1>6, <1>7, <1>8, <2>0, <2>1, <2>2, <2>3, <2>4 DEF ClientActs, ClientStep
<1>9. ASSUME OperatorStep PROVE PumpInv'
  <2>1. CASE Press
    <3>1. at'[Operator] = "calling" /\ job'[Operator] = "press" /\ state' = state
      BY <1>0, <2>1, CallAt DEF Press
    <3>2. gate' /\ ~ closing' /\ pump' = pump
      BY <2>1 DEF Press, OpenGate
    <3> QED BY <3>1, <3>2 DEF PumpInv, PumpGuarded
  <2>2. CASE LetGo
    <3>1. ~ pump'
      BY <2>2 DEF LetGo, StopPump
    <3>2. CASE Goes(Operator, "pausing_flow")
      BY <1>0, <1>3, <3>1, <3>2, GoesMoves
    <3>3. CASE Call(Operator, "release") /\ Goes(Operator, "calling")
      <4>1. job'[Operator] = "release"
        BY <1>0, <3>3, CallAt
      <4> QED BY <3>1, <4>1 DEF PumpInv, PumpGuarded
    <3> QED BY <2>2, <3>2, <3>3 DEF LetGo
  <2>3. CASE FlowPaused
    <3>1. job'[Operator] = "release" /\ UNCHANGED hardware /\ ~ pump
      BY <1>0, <2>3, CallAt DEF FlowPaused, PumpInv
    <3> QED BY <3>1 DEF PumpInv, PumpGuarded, hardware
  <2>4. CASE ReportFailure
    <3>1. /\ at'[Operator] = "calling" /\ job'[Operator] = "error"
          /\ UNCHANGED hardware /\ state' = state
      BY <1>0, <2>4, CallAt DEF ReportFailure
    <3> QED BY <3>1 DEF PumpInv, PumpGuarded, hardware
  <2>5. CASE PumpFails
    <3>1. at'[Operator] = "failing" /\ UNCHANGED hardware /\ state' = state
      BY <1>0, <2>5, FinishAt DEF PumpFails
    <3> QED BY <3>1 DEF PumpInv, PumpGuarded, hardware
  <2>6. CASE HandlerReturns
    <3>1. at'[Operator] = "poll" /\ state' = state /\ UNCHANGED <<gate, closing>>
      BY <1>0, <2>6, FinishAt, ReturnAt DEF HandlerReturns
    <3>2. at[Operator] \in {"calling", "emit"}
      BY <2>6 DEF HandlerReturns, Runnable
    <3>3. pump' => pump \/ (StartsPump /\ gate)
      BY <2>6 DEF HandlerReturns, StartPump
    <3>4. StartsPump => ~ closing /\ state = "active"
      BY <3>2 DEF StartsPump, PumpInv
    <3> QED BY <3>1, <3>3, <3>4 DEF PumpInv, PumpGuarded
  <2>7. CASE Unwind(Operator)
    <3>1. at'[Operator] = "rest" /\ UNCHANGED <<gate, pump, closing, state>>
      BY <1>0, <2>7, UnwindMoves
    <3> QED BY <3>1 DEF PumpInv, PumpGuarded
  <2> QED BY <1>0, <1>6, <1>7, <1>9, <2>1, <2>2, <2>3, <2>4, <2>5, <2>6, <2>7 DEF OperatorStep
<1>10. ASSUME FlowStep PROVE PumpInv'
  <2>1. ASSUME NEW op, DetectEnd(op) PROVE PumpInv'
    <3>1. OthersStay(Flow) /\ ~ pump' /\ closing' = closing
      BY <1>0, <2>1, CallAt DEF DetectEnd
    <3> QED BY <1>0, <1>2, <1>4, <3>1
  <2>2. CASE Report \/ Reported
    BY <1>0, <1>1, <1>4, <2>2, CallAt, ReturnAt DEF Report, Reported
  <2>3. CASE Emitted
    <3>1. at'[Operator] = at[Operator] /\ UNCHANGED <<hardware, job, state>>
      BY <1>0, <2>3, GoesMoves DEF Emitted, vars, machineVars
    <3> QED BY <1>1, <3>1
  <2>4. CASE Unwind(Flow)
    <3>1. OthersStay(Flow) /\ UNCHANGED <<hardware, state>>
      BY <1>0, <2>4, UnwindMoves DEF hardware
    <3> QED BY <1>0, <1>1, <1>4, <3>1
  <2> QED BY <1>0, <1>6, <1>7, <1>10, <2>1, <2>2, <2>3, <2>4 DEF FlowStep
<1>11. ASSUME NEW k \in Timer, Lapse(k) \/ TimerStep(k) PROVE PumpInv'
  <2>0. k \in Task /\ k # Operator
    BY WhoIsWho DEF Task
  <2>1. CASE Lapse(k)
    <3>1. OthersStay(k) /\ UNCHANGED <<hardware, state>>
      BY <2>1, ExpireMoves DEF Lapse, rigVars, OthersStay, TimerInv
    <3> QED BY <1>1, <1>4, <2>0, <3>1
  <2>2. CASE TransferTimesOut(k)
    BY <1>2, <1>4, <1>5, <2>0, <2>2, TimesOutMoves DEF TransferTimesOut
  <2> QED BY <1>6, <1>11, <2>0, <2>1, <2>2 DEF TimerStep
<1>12. CASE DelayedClose
  <2>1. closing /\ ~ closing' /\ UNCHANGED <<pump, at, job, state>>
    BY <1>12 DEF DelayedClose, vars, machineVars
  <2> QED BY <2>1 DEF PumpInv, PumpGuarded
<1>13. CASE MoveTrigger \/ Pulse \/ UNCHANGED allVars
  BY <1>1, <1>13 DEF MoveTrigger, Pulse, allVars, rigVars, vars, machineVars
<1> QED BY <1>8, <1>9, <1>10, <1>11, <1>12, <1>13 DEF FluidNext, ClientActs

-----------------------------------------------------------------------------
(* Back in idle, nothing runs.                                              *)

\* What is left on when the client that aborts a transfer has taken a step.
LEMMA StoppedStep ==
    ASSUME TimerInv, RigTypeOK, Places, EndedInv, CancelInv, PumpInv, QuietInv, StaysOff,
           NEW c \in Client, ClientActs(c), ~ Started(c)
    PROVE  Stopped(c)'
<1>0. /\ c \in Caller /\ c \in Task /\ c # Operator /\ c # Flow /\ c \notin Timer
      /\ ClientPlace(c) /\ Stopped(c)
  BY WhoIsWho DEF Task, Places, QuietInv
<1>1. ASSUME at'[c] = "rest" \/ at'[c] = "stuck" \/ (at'[c] = "calling" /\ job'[c] # "reset")
      PROVE  Stopped(c)'
  BY <1>1 DEF Stopped, Again, Stopping
<1>2. CASE StartTransfer(c) \/ AbortTransfer(c)
  BY <1>0, <1>1, <1>2, CallAt DEF StartTransfer, AbortTransfer
<1>3. CASE TransferMoves(c)
  <2>1. /\ at[c] = "calling" /\ at'[c] = "emit" /\ job'[c] = job[c]
        /\ \/ job[c] = "start" /\ state = "idle"
           \/ job[c] = "reset"
    BY <1>0, <1>3, TransferMovesMoves DEF ClientPlace
  <2>2. AllOff
    BY <1>0, <2>1 DEF QuietInv, Stopped
  <2>3. AllOff'
    BY <2>2, AllOffKept
  <2> QED BY <2>1, <2>3 DEF Stopped, Again, Stopping, AllOff
<1>4. CASE TransferEnds(c)
  <2>1. BeginShutdown(c) /\ pc'[c] = "callback" /\ at'[c] \in Stopping \ {"stopping_flow"}
    BY <1>0, <1>4, TransferEndsMoves DEF TransferEnds
  <2>2. at'[c] = "stopping_operator" => ~ opMonitoring'
    BY <1>0, <2>1, GoesMoves DEF BeginShutdown, StopOperator
  <2> QED BY <2>1, <2>2 DEF Stopped, Again, Stopping
<1>5. CASE Aborted(c)
  <2>1. BeginShutdown(c) /\ at'[c] \in Stopping \ {"stopping_flow"} /\ OpOff /\ FlowOff
    BY <1>0, <1>5, ShutdownMoves DEF Aborted, Stopped
  <2>2. /\ ~ closing'
        /\ at'[c] = "stopping_operator" => ~ opMonitoring' /\ ~ gate'
    BY <1>0, <2>1, GoesMoves DEF BeginShutdown, StopOperator
  <2>3. OpOff' /\ FlowOff'
    BY <2>1 DEF StaysOff
  <2> QED BY <2>1, <2>2, <2>3 DEF Stopped, Again, Stopping
<1>6. CASE Replied(c)
  BY <1>0, <1>1, <1>6, FinishAt, ReturnAt DEF Replied
<1>7. CASE CloseCancelled(c)
  <2>1. /\ at[c] = "closing_gate" /\ at'[c] = "stopping_operator"
        /\ pc' = pc /\ ~ gate' /\ closing' = closing /\ ~ opMonitoring'
    BY <1>0, <1>7, GoesMoves DEF CloseCancelled, StopOperator, vars
  <2>2. Again(c)' => OpOff' /\ FlowOff' /\ ~ closing'
    BY <1>0, <2>1 DEF Stopped, Again, Stopping, StaysOff
  <2> QED BY <2>1, <2>2 DEF Stopped, Again
<1>8. CASE OperatorStopped(c)
  <2>1. /\ at[c] = "stopping_operator" /\ at'[c] = "stopping_flow" /\ at[Operator] = "rest"
        /\ pc' = pc /\ UNCHANGED <<gate, closing>> /\ ~ isMonitoring' /\ ~ counting'
    BY <1>0, <1>8, GoesMoves DEF OperatorStopped, Joined, StopFlow, hardware, vars
  <2>2. OpOff
    BY <1>0, <2>1 DEF Stopped, CancelInv, OpOff
  <2>3. OpOff'
    BY <2>2 DEF StaysOff
  <2>4. Again(c)' => FlowOff' /\ ~ closing' /\ ~ gate'
    BY <1>0, <2>1 DEF Stopped, Again, Stopping, StaysOff
  <2> QED BY <2>1, <2>3, <2>4 DEF Stopped, Again
<1>9. CASE FlowStopped(c)
  <2>1. /\ at[c] = "stopping_flow" /\ at[Flow] = "rest" /\ job[c] = "abort"
    BY <1>0, <1>9 DEF FlowStopped, Joined, ClientPlace, Stopping
  <2>2. OpOff /\ FlowOff
    BY <1>0, <2>1 DEF Stopped, CancelInv, OpOff, FlowOff
  <2>3. OpOff' /\ FlowOff'
    BY <2>2 DEF StaysOff
  <2>4. CASE Goes(c, "emit") /\ UNCHANGED vars
    <3>1. at'[c] = "emit" /\ job'[c] = "abort"
      BY <1>0, <2>1, <2>4, GoesMoves DEF vars
    <3> QED BY <2>3, <3>1 DEF Stopped, Again, Stopping
  <2>5. CASE Goes(c, "stuck")
    BY <1>0, <1>1, <2>5, GoesMoves
  <2>6. CASE Call(c, "reset") /\ Goes(c, "calling")
    <3>1. at'[c] = "calling" /\ pc[c] = "idle"
      BY <1>0, <2>6, CallAt
    <3>2. ~ closing /\ ~ gate
      BY <1>0, <2>1, <3>1 DEF Stopped, Again, Stopping
    <3>3. ~ pump
      BY <3>2 DEF PumpInv, PumpGuarded
    <3>4. AllOff'
      BY <2>2, <3>2, <3>3, AllOffKept DEF AllOff
    <3> QED BY <2>3, <3>1, <3>4 DEF Stopped, Again, Stopping
  <2> QED BY <1>9, <2>4, <2>5, <2>6 DEF FlowStopped
<1> QED BY <1>2, <1>3, <1>4, <1>5, <1>6, <1>7, <1>8, <1>9 DEF ClientActs, ClientStep

\* While a client starts the monitors no other one aborts or resets.
LEMMA StartedQuiet ==
    ASSUME TimerInv, RigTypeOK, Places, EndedInv, EmitStart, QuietInv,
           NEW c \in Client, Started(c)
    PROVE  QuietInv'
<1>0. c \in Task /\ c # Operator /\ c # Flow /\ c \notin Timer /\ ClientPlace(c) /\ LockOK
  BY WhoIsWho DEF Task, Places, TimerInv
<1>1. at[c] = "emit" /\ job[c] = "start" /\ Finish(c)
  BY DEF Started
<1>2. state = "waiting_operator" /\ state' = state /\ job' = job /\ Apart(c)
  BY <1>0, <1>1, FinishMoves DEF EmitStart
<1>3. at'[c] = "rest" /\ \A d \in Client \ {c} : at'[d] = at[d]
  BY <1>0, WhoIsWho DEF Started, RigTypeOK, Task
<1>4. ASSUME NEW d \in Client \ {c}
      PROVE  at[d] \notin Stopping \cup {"emit"} /\ ~ (at[d] = "calling" /\ job[d] = "reset")
  <2>1. ~ Resetting(d) /\ ClientPlace(d) /\ d \in Task
    BY <1>2, WhoIsWho DEF EndedInv, Ended, Places, Task
  <2>2. pc[c] = "callback" /\ (at[d] = "emit" => pc[d] = "callback")
    BY <1>0, <1>1, <2>1 DEF ClientPlace
  <2>3. at[d] # "emit"
    BY <1>0, <1>4, <2>1, <2>2 DEF LockOK
  <2> QED BY <2>1, <2>3 DEF Resetting, ClientPlace
<1>5. ASSUME NEW d \in Client PROVE Stopped(d)'
  BY <1>2, <1>3, <1>4 DEF Stopped, Again, Stopping
<1> QED BY <1>2, <1>5 DEF QuietInv

\* Every step keeps the hardware as quiet as the place of an aborting client
\* says.
LEMMA QuietStep ==
    ASSUME TimerInv, RigTypeOK, Places, EndedInv, EmitStart, CancelInv, PumpInv, QuietInv,
           [FluidNext]_allVars
    PROVE  QuietInv'
<1>1. CASE \E c \in Client : Started(c)
  BY <1>1, StartedQuiet
<1>2. CASE \A c \in Client : ~ Started(c)
  <2>1. StaysOff
    BY <1>2, OffKept
  <2>2. PICK t \in Task :
          /\ Elsewhere(t) /\ (t \in Client => ClientActs(t))
          /\ \/ t \in Caller /\ (TransferMoves(t) \/ TransferEnds(t))
             \/ t \in Timer /\ TransferTimesOut(t)
             \/ Lasts(t)
    BY EndShapes
  <2>3. ASSUME NEW c \in Client PROVE Stopped(c)'
    <3>1. CASE c = t
      BY <1>2, <2>1, <2>2, <3>1, StoppedStep
    <3>2. CASE c # t
      BY <2>1, <2>2, <3>2, StoppedKept DEF Elsewhere, QuietInv
    <3> QED BY <3>1, <3>2
  <2>4. ASSUME state' = "idle" PROVE AllOff
    <3>1. CASE t \in Caller /\ TransferMoves(t)
      <4>1. at[t] = "calling" /\ job[t] = "reset"
        BY <2>4, <3>1, TransferMovesMoves
      <4>2. t \in Client
        BY <3>1, <4>1, WhoIsWho DEF Places, OperatorPlace, FlowPlace
      <4> QED BY <4>1, <4>2 DEF QuietInv, Stopped
    <3>2. ~ (t \in Caller /\ TransferEnds(t)) /\ ~ (t \in Timer /\ TransferTimesOut(t))
      BY <2>4, TransferEndsMoves, TimesOutMoves
    <3>3. CASE Lasts(t)
      BY <2>4, <3>3 DEF Lasts, QuietInv
    <3> QED BY <2>2, <3>1, <3>2, <3>3
  <2> QED BY <2>1, <2>3, <2>4, AllOffKept DEF QuietInv
<1> QED BY <1>1, <1>2

-----------------------------------------------------------------------------
(* The invariants together.                                                 *)

FluidInv ==
    /\ TimerInv /\ RigTypeOK /\ Places /\ EndedInv
    /\ EmitStart /\ CancelInv /\ PumpInv /\ QuietInv

\* It holds at first.
LEMMA FluidInvInit == FluidInit => FluidInv
<1> SUFFICES ASSUME FluidInit PROVE FluidInv
  OBVIOUS
<1>0. Init /\ TimerInv /\ Client \subseteq Task /\ {Operator, Flow} \subseteq Task /\ Timer \subseteq Task
  BY TimerInvInit, WhoIsWho DEF FluidInit, Task
<1>1. /\ at = [t \in Task |-> "rest"] /\ pc = [t \in Task |-> "idle"]
      /\ job = [c \in Caller |-> "reset"] /\ state = "idle" /\ cancelling = {}
      /\ ~ gate /\ ~ pump /\ ~ closing
      /\ ~ opMonitoring /\ ~ isMonitoring /\ ~ counting
  BY <1>0 DEF FluidInit, Init
<1>2. \A t \in Task : at[t] = "rest" /\ pc[t] = "idle"
  BY <1>1
<1>3. RigTypeOK
  <2>1. 0 \in 0..Target /\ "rest" \in Location
    BY FluidAssumption DEF FluidAssumption, Location
  <2> QED BY <1>1, <2>1 DEF FluidInit, RigTypeOK
<1>4. Places
  BY <1>0, <1>2, WhoIsWho
  DEF Places, ClientPlace, OperatorPlace, FlowPlace, TimerPlace, Dormant, Stopping
<1>5. EndedInv /\ EmitStart /\ CancelInv
  BY <1>0, <1>1, <1>2 DEF EndedInv, OwnEnding, Resetting, EmitStart, CancelInv, Stopping
<1>6. PumpInv
  BY <1>0, <1>1, <1>2 DEF PumpInv, PumpGuarded
<1>7. QuietInv
  BY <1>0, <1>1, <1>2 DEF QuietInv, Stopped, Again, AllOff, OpOff, FlowOff, Stopping
<1> QED BY <1>0, <1>3, <1>4, <1>5, <1>6, <1>7 DEF FluidInv

\* Every step keeps it.
LEMMA FluidInvStep == FluidInv /\ [FluidNext]_allVars => FluidInv'
<1> SUFFICES ASSUME FluidInv, [FluidNext]_allVars PROVE FluidInv'
  OBVIOUS
<1>1. [Next]_vars
  BY FluidNextIsStep DEF allVars
<1>2. TimerInv'
  BY <1>1, TimerInvStep DEF FluidInv
<1>3. \A c \in Client : MonitorsOff(c)
  BY MonitorsAreOff DEF FluidInv
<1>4. \A t \in Task : OwnEnding(t)
  BY DEF FluidInv, EndedInv
<1> QED BY <1>2, <1>3, <1>4, RigTypes, PlacesStep, EndedStep, EmitStartStep, CancelStep,
        PumpStep, QuietStep DEF FluidInv

\* So it always holds.
LEMMA FluidInvHolds == FluidSpec => []FluidInv
BY FluidInvInit, FluidInvStep, PTL DEF FluidSpec

\* Whoever ends or pauses the transfer, and in whatever order the tasks run,
\* the pump runs only in an active transfer and against an open gate that no
\* delayed close will shut.
THEOREM PumpIsGuarded == FluidSpec => []PumpGuarded
<1>1. FluidInv => PumpGuarded
  BY DEF FluidInv, PumpInv
<1> QED BY <1>1, FluidInvHolds, PTL

\* However many clients start and abort, an idle machine has closed hardware
\* and no monitor task.
THEOREM IdleCorrect == FluidSpec => []IdleIsQuiet
<1>1. FluidInv => IdleIsQuiet
  BY DEF FluidInv, QuietInv, AllOff, OpOff, FlowOff, RigTypeOK, IdleIsQuiet
<1> QED BY <1>1, FluidInvHolds, PTL

-----------------------------------------------------------------------------
(* The monitors' handlers and the machine.                                  *)

\* Every step but the start of the monitors is that of one task, or leaves
\* the tasks alone.
LEMMA Movers ==
    ASSUME TimerInv, RigTypeOK, [FluidNext]_allVars, \A c \in Client : ~ Started(c)
    PROVE  \/ \E c \in Client : ClientActs(c) /\ OthersStay(c)
           \/ OperatorStep /\ OthersStay(Operator)
           \/ FlowStep /\ OthersStay(Flow)
           \/ \E k \in Timer : (Lapse(k) \/ TimerStep(k)) /\ OthersStay(k)
           \/ /\ DelayedClose \/ MoveTrigger \/ Pulse \/ UNCHANGED allVars
              /\ UNCHANGED <<vars, at>>
<1>1. ASSUME NEW c \in Caller, TransferMoves(c) \/ TransferEnds(c)
      PROVE  OthersStay(c)
  BY <1>1, TransferMovesMoves, TransferEndsMoves
<1>2. ASSUME NEW c \in Client, ClientActs(c) PROVE OthersStay(c)
  <2>0. c \in Caller /\ c \in Task
    BY WhoIsWho DEF Task
  <2>1. CASE StartTransfer(c) \/ AbortTransfer(c)
    BY <2>0, <2>1, CallAt DEF StartTransfer, AbortTransfer
  <2>2. CASE Aborted(c)
    BY <2>0, <2>2, FinishMoves, ShutdownMoves DEF Aborted, OthersStay
  <2>3. CASE Replied(c)
    BY <2>0, <2>3, FinishAt, ReturnAt DEF Replied
  <2> QED BY <1>1, <1>2, <2>0, <2>1, <2>2, <2>3, StopMoves DEF ClientActs, ClientStep
<1>3. ASSUME OperatorStep PROVE OthersStay(Operator)
  <2>0. Operator \in Caller /\ Operator \in Task
    BY WhoIsWho DEF Task
  <2>1. CASE Press \/ FlowPaused \/ ReportFailure
    BY <2>0, <2>1, CallAt DEF Press, FlowPaused, ReportFailure
  <2>2. CASE LetGo
    <3>1. CASE Goes(Operator, "pausing_flow") /\ UNCHANGED vars
      BY <2>0, <3>1, GoesMoves DEF OthersStay, Apart, vars
    <3>2. CASE Call(Operator, "release") /\ Goes(Operator, "calling")
      BY <2>0, <3>2, CallAt
    <3> QED BY <2>2, <3>1, <3>2 DEF LetGo
  <2>3. CASE HandlerReturns \/ PumpFails
    BY <2>0, <2>3, FinishAt, ReturnAt DEF HandlerReturns, PumpFails
  <2> QED BY <1>1, <1>3, <2>0, <2>1, <2>2, <2>3, StopMoves, UnwindMoves DEF OperatorStep
<1>4. ASSUME FlowStep PROVE OthersStay(Flow)
  <2>0. Flow \in Caller /\ Flow \in Task
    BY WhoIsWho DEF Task
  <2>1. CASE DetectEnd("progress") \/ DetectEnd("complete_early") \/ Report
    BY <2>0, <2>1, CallAt DEF DetectEnd, Report
  <2>2. CASE Reported
    BY <2>0, <2>2, ReturnAt DEF Reported
  <2>3. CASE Emitted
    BY <2>0, <2>3, GoesMoves DEF Emitted, OthersStay, Apart, vars
  <2> QED BY <1>1, <1>4, <2>0, <2>1, <2>2, <2>3, StopMoves, UnwindMoves DEF FlowStep
<1>5. ASSUME NEW k \in Timer, Lapse(k) \/ TimerStep(k) PROVE OthersStay(k)
  <2>0. k \in Task
    BY DEF Task
  <2>1. CASE Lapse(k)
    BY <2>1, ExpireMoves DEF Lapse, rigVars, OthersStay, TimerInv
  <2> QED BY <1>5, <2>0, <2>1, StopMoves, TimesOutMoves DEF TimerStep
<1>6. DelayedClose \/ MoveTrigger \/ Pulse \/ UNCHANGED allVars => UNCHANGED <<vars, at>>
  BY DEF DelayedClose, MoveTrigger, Pulse, allVars, rigVars
<1> QED BY <1>2, <1>3, <1>4, <1>5, <1>6 DEF FluidNext, ClientActs

\* x is at the same place, called the same operation and waits as it did.
Still(x) == at'[x] = at[x] /\ job'[x] = job[x] /\ pc'[x] = pc[x]

\* A monitor task moves by its own steps only.
LEMMA MonitorStill ==
    ASSUME NEW t \in Task, OthersStay(t), NEW x \in {Operator, Flow}, x # t
    PROVE  Still(x)
BY WhoIsWho DEF OthersStay, Apart, Still, Task

\* The operator's handlers alone press, let go and schedule a close.
LEMMA OperatorStill ==
    ASSUME TimerInv, RigTypeOK, [FluidNext]_allVars, \A c \in Client : ~ Started(c), ~ OperatorStep
    PROVE  Still(Operator) /\ pressed' = pressed /\ (closing' => closing)
<1>1. Still(Operator)
  <2>1. UNCHANGED <<vars, at>> => Still(Operator)
    BY DEF vars, Still
  <2> QED BY <2>1, Movers, MonitorStill, WhoIsWho
<1>2. ASSUME NEW t \in Task, TransferMoves(t) \/ TransferEnds(t) \/ CloseCancelled(t) \/ OperatorStopped(t) \/ FlowStopped(t)
      PROVE  pressed' = pressed /\ (closing' => closing)
  BY <1>2 DEF TransferMoves, TransferEnds, BeginShutdown, StopOperator, CloseCancelled, OperatorStopped,
     FlowStopped, hardware, operatorVars
<1>3. ASSUME NEW c \in Client, ClientActs(c)
      PROVE  pressed' = pressed /\ (closing' => closing)
  BY <1>2, <1>3, WhoIsWho DEF ClientActs, ClientStep, StartTransfer, AbortTransfer, Aborted, Replied,
     BeginShutdown, StopOperator, hardware, operatorVars
<1>4. ASSUME FlowStep PROVE pressed' = pressed /\ (closing' => closing)
  BY <1>2, <1>4, WhoIsWho DEF FlowStep, DetectEnd, Report, Reported, Emitted, Unwind, hardware, operatorVars
<1>5. ASSUME NEW k \in Timer, Lapse(k) \/ TimerStep(k) PROVE pressed' = pressed /\ (closing' => closing)
  BY <1>2, <1>5 DEF Task, Lapse, rigVars, TimerStep, TransferTimesOut, BeginShutdown, StopOperator, hardware, operatorVars
<1>6. ASSUME DelayedClose \/ MoveTrigger \/ Pulse \/ UNCHANGED allVars
      PROVE  pressed' = pressed /\ (closing' => closing)
  BY <1>6 DEF DelayedClose, MoveTrigger, Pulse, allVars, rigVars, hardware, operatorVars
<1>7. pressed' = pressed /\ (closing' => closing)
  BY <1>3, <1>4, <1>5, <1>6, Movers
<1> QED BY <1>1, <1>7

\* Where the operator's monitor is while a release stops the flow monitor and
\* waits for the lock.
Releasing == at[Operator] = "pausing_flow" \/ (at[Operator] = "calling" /\ job[Operator] = "release")

\* A delayed close is scheduled by a release, which has stopped the flow
\* monitor, and taken back by a press.
CloseInv ==
    /\ isMonitoring \/ (pressed /\ at[Operator] = "poll") => ~ closing
    /\ Releasing \/ (at[Operator] = "emit" /\ job[Operator] = "release") => ~ pressed

\* Only the operator's handlers and the start of the monitors bear on it.
LEMMA CloseStep ==
    ASSUME FluidInv, CloseInv, [FluidNext]_allVars
    PROVE  CloseInv'
<1>0. /\ TimerInv /\ RigTypeOK /\ Places /\ OperatorPlace
      /\ Operator \in Caller /\ Operator \in Task /\ Operator # Flow /\ Operator \notin Client
  BY WhoIsWho DEF FluidInv, Places, Task
<1>1. ASSUME NEW c \in Client, Started(c) PROVE CloseInv'
  <2>1. ~ closing
    BY <1>1 DEF FluidInv, QuietInv, Stopped, Started, AllOff
  <2>2. closing' = closing /\ at'[Operator] \in {at[Operator], "poll"} /\ at[Operator] = "rest"
    BY <1>0, <1>1, MonitorsAreOff DEF Started, hardware, RigTypeOK, FluidInv, MonitorsOff
  <2> QED BY <2>1, <2>2 DEF CloseInv, Releasing
<1>2. CASE \A c \in Client : ~ Started(c)
  <2>1. isMonitoring' => isMonitoring
    BY <1>0, <1>2, OffKept DEF StaysOff
  <2>2. CASE ~ OperatorStep
    <3>1. at'[Operator] = at[Operator] /\ job'[Operator] = job[Operator]
      BY <1>0, <1>2, <2>2, OperatorStill DEF Still
    <3>2. (pressed' <=> pressed) /\ (closing' => closing)
      BY <1>0, <1>2, <2>2, OperatorStill
    <3> QED BY <2>1, <3>1, <3>2 DEF CloseInv, Releasing
  <2>3. CASE Press
    <3>1. at'[Operator] = "calling" /\ job'[Operator] = "press" /\ ~ closing'
      BY <1>0, <2>3, CallAt DEF Press, OpenGate
    <3> QED BY <3>1 DEF CloseInv, Releasing
  <2>4. CASE LetGo
    <3>1. ~ pressed' /\ ~ isMonitoring'
      BY <2>4 DEF LetGo, StopFlow
    <3> QED BY <3>1 DEF CloseInv
  <2>5. CASE FlowPaused
    <3>1. at'[Operator] = "calling" /\ at[Operator] = "pausing_flow"
      BY <1>0, <2>5, CallAt DEF FlowPaused
    <3>2. (closing' <=> closing) /\ (pressed' <=> pressed)
      BY <2>5 DEF FlowPaused, hardware, operatorVars
    <3> QED BY <2>1, <3>1, <3>2 DEF CloseInv, Releasing
  <2>6. CASE HandlerReturns
    <3>1. at'[Operator] = "poll"
      BY <1>0, <2>6, FinishAt, ReturnAt DEF HandlerReturns
    <3>2. (closing' <=> closing) /\ (pressed' <=> pressed)
      BY <2>6 DEF HandlerReturns, operatorVars
    <3>3. at[Operator] \in {"calling", "emit"} /\ job[Operator] \in {"press", "release"}
      BY <1>0, <2>6 DEF HandlerReturns, Runnable, Refuse, Refused, OperatorPlace
    <3>4. job[Operator] = "press" => ~ closing
      BY <3>3 DEF FluidInv, PumpInv
    <3>5. job[Operator] = "release" => ~ pressed
      BY <3>3 DEF CloseInv, Releasing
    <3> QED BY <2>1, <3>1, <3>2, <3>3, <3>4, <3>5 DEF CloseInv, Releasing
  <2>7. CASE PumpFails \/ ReportFailure
    <3>1. at'[Operator] = "failing" \/ (at'[Operator] = "calling" /\ job'[Operator] = "error")
      BY <1>0, <2>7, FinishAt, CallAt DEF PumpFails, ReportFailure
    <3>2. closing' <=> closing
      BY <2>7 DEF PumpFails, ReportFailure, hardware
    <3> QED BY <2>1, <3>1, <3>2 DEF CloseInv, Releasing
  <2>8. CASE TransferMoves(Operator)
    <3>1. at[Operator] = "calling" /\ at'[Operator] = "emit" /\ job' = job
      BY <1>0, <2>8, TransferMovesMoves
    <3>2. (closing' <=> closing) /\ (pressed' <=> pressed)
      BY <2>8 DEF TransferMoves, hardware, operatorVars
    <3> QED BY <2>1, <3>1, <3>2 DEF CloseInv, Releasing
  <2>9. CASE TransferEnds(Operator)
    <3>1. at'[Operator] \in Stopping
      BY <1>0, <2>9, TransferEndsMoves
    <3>2. closing' => closing
      BY <2>9 DEF TransferEnds, BeginShutdown
    <3> QED BY <2>1, <3>1, <3>2 DEF CloseInv, Releasing, Stopping
  <2>10. CASE Unwind(Operator)
    <3>1. at'[Operator] = "rest" /\ (closing' <=> closing)
      BY <1>0, <2>10, UnwindMoves
    <3> QED BY <2>1, <3>1 DEF CloseInv, Releasing
  <2>11. CASE CloseCancelled(Operator) \/ OperatorStopped(Operator) \/ FlowStopped(Operator)
    <3>1. at'[Operator] \in Stopping \cup {"stuck"}
      <4>1. at[Operator] \in Stopping => state # "aborted"
        BY <1>0 DEF FluidInv, EndedInv, OwnEnding
      <4>2. /\ at[Operator] \in Stopping
            /\ \/ at'[Operator] \in Stopping
               \/ state = "aborted"
               \/ at'[Operator] = "stuck"
        BY <1>0, <2>11, StopMoves
      <4> QED BY <4>1, <4>2
    <3>2. closing' <=> closing
      BY <2>11 DEF CloseCancelled, OperatorStopped, FlowStopped, hardware
    <3> QED BY <2>1, <3>1, <3>2 DEF CloseInv, Releasing, Stopping
  <2> QED BY <2>2, <2>3, <2>4, <2>5, <2>6, <2>7, <2>8, <2>9, <2>10, <2>11 DEF OperatorStep
<1> QED BY <1>1, <1>2

\* A flow monitor that has something to tell the machine, or to end, is off,
\* as it is from a release until its answer.  A monitor is cancelled only where
\* that ends it, and the operator's waits for none but a cancelled one.
MeterInv ==
    /\ Releasing \/ at[Flow] \in {"calling", "stuck"} \cup Stopping => ~ isMonitoring
    /\ at[Operator] = "pausing_flow" => at[Flow] = "rest" \/ Flow \in cancelling
    /\ \A x \in cancelling : at[x] \notin Joins /\ pc[x] \in {"idle", "queued"}
    /\ at[Flow] = "report" => job[Flow] = "progress"

\* The flow monitor's task moves by its own steps only, and not from its rest.
LEMMA FlowStill ==
    ASSUME TimerInv, RigTypeOK, [FluidNext]_allVars, \A c \in Client : ~ Started(c)
    PROVE  /\ Still(Flow) \/ FlowStep
           /\ at[Flow] = "rest" => at'[Flow] = "rest"
<1>1. Still(Flow) \/ FlowStep
  <2>1. UNCHANGED <<vars, at>> => Still(Flow)
    BY DEF vars, Still
  <2> QED BY <2>1, Movers, MonitorStill, WhoIsWho
<1>2. FlowStep => at[Flow] # "rest" \/ at'[Flow] = "rest"
  <2>1. TransferEnds(Flow) \/ CloseCancelled(Flow) \/ OperatorStopped(Flow) \/ FlowStopped(Flow)
          => at[Flow] # "rest"
    BY DEF TransferEnds, Runnable, CloseCancelled, OperatorStopped, FlowStopped
  <2>2. Unwind(Flow) => at'[Flow] = "rest"
    BY WhoIsWho, UnwindMoves
  <2> QED BY <2>1, <2>2 DEF FlowStep, DetectEnd, Report, Reported, Emitted, Runnable
<1> QED BY <1>1, <1>2 DEF Still

\* While one task is in a callback no other one is.
LEMMA HolderAlone ==
    ASSUME TimerInv, NEW t \in Task, pc[t] = "callback", NEW u \in Task, u # t
    PROVE  pc[u] \notin {"callback", "stuck"}
BY DEF TimerInv, LockOK

\* A monitor outside a callback is idle or waits for the lock.
LEMMA MonitorWaits ==
    ASSUME RigTypeOK, Places, NEW x \in {Operator, Flow}, pc[x] \notin {"callback", "stuck"}
    PROVE  pc[x] \in {"idle", "queued"}
<1>1. at[x] \in Location
  BY WhoIsWho DEF RigTypeOK, Task
<1> QED BY <1>1 DEF Places, OperatorPlace, FlowPlace, Location, Joins, Stopping

\* A cancellation is requested by a task that waits for the one it cancels, and
\* it ends with that one.
LEMMA CancelShape ==
    ASSUME [FluidNext]_allVars
    PROVE  \/ cancelling' = cancelling
           \/ \E t, y : CancelMonitor(t, y)
           \/ Unwind(Operator) \/ Unwind(Flow)
<1>1. ASSUME NEW t \in Task, BeginShutdown(t) \/ CloseCancelled(t) \/ OperatorStopped(t) \/ FlowStopped(t)
      PROVE  cancelling' = cancelling \/ \E u, y : CancelMonitor(u, y)
  BY <1>1 DEF BeginShutdown, CloseCancelled, OperatorStopped, FlowStopped, StopOperator
<1>2. ASSUME NEW t \in Task, TransferMoves(t) \/ TransferEnds(t)
      PROVE  cancelling' = cancelling \/ \E u, y : CancelMonitor(u, y)
  BY <1>1, <1>2 DEF TransferMoves, TransferEnds
<1>3. ASSUME NEW c \in Client, ClientActs(c)
      PROVE  cancelling' = cancelling \/ \E u, y : CancelMonitor(u, y)
  BY <1>1, <1>2, <1>3, WhoIsWho
  DEF ClientActs, ClientStep, StartTransfer, AbortTransfer, Started, Aborted, Replied
<1>4. ASSUME OperatorStep
      PROVE  cancelling' = cancelling \/ (\E u, y : CancelMonitor(u, y)) \/ Unwind(Operator)
  BY <1>1, <1>2, <1>4, WhoIsWho
  DEF OperatorStep, Press, LetGo, FlowPaused, HandlerReturns, PumpFails, ReportFailure
<1>5. ASSUME FlowStep
      PROVE  cancelling' = cancelling \/ (\E u, y : CancelMonitor(u, y)) \/ Unwind(Flow)
  BY <1>1, <1>2, <1>5, WhoIsWho DEF FlowStep, DetectEnd, Report, Reported, Emitted
<1>6. ASSUME NEW k \in Timer, Lapse(k) \/ TimerStep(k)
      PROVE  cancelling' = cancelling \/ \E u, y : CancelMonitor(u, y)
  BY <1>1, <1>6 DEF Lapse, rigVars, TimerStep, TransferTimesOut, Task
<1> QED BY <1>3, <1>4, <1>5, <1>6
    DEF FluidNext, ClientActs, DelayedClose, MoveTrigger, Pulse, allVars, rigVars

\* What a cancellation finds, and what becomes of the task it is about to end:
\* nothing else than its end.
LEMMA Cancelled ==
    ASSUME FluidInv, MeterInv, [FluidNext]_allVars, \A c \in Client : ~ Started(c),
           NEW x \in cancelling'
    PROVE  Still(x) /\ at[x] \notin Joins /\ pc[x] \in {"idle", "queued"}
<1>0. /\ TimerInv /\ RigTypeOK /\ Places /\ EndedInv /\ Operator \in Task /\ Flow \in Task
      /\ Operator # Flow /\ Operator \in Caller /\ Flow \in Caller
      /\ Operator \notin Client /\ Flow \notin Client
  BY WhoIsWho DEF FluidInv, Task
<1>1. x \in {Operator, Flow} /\ x \in Task
  BY <1>0, RigTypes DEF RigTypeOK
<1> DEFINE Waits == at[x] \notin Joins /\ pc[x] \in {"idle", "queued"}
<1>2. x \in cancelling => Waits
  BY DEF MeterInv
<1>3. ASSUME NEW t \in Task, NEW y, CancelMonitor(t, y), x \notin cancelling
      PROVE  x # t /\ x = y /\ at[x] \notin Joins
  BY <1>3 DEF CancelMonitor
<1> HIDE DEF Waits
<1>4. ASSUME NEW t \in Task, NEW y, CancelMonitor(t, y),
             pc[t] = "callback" \/ pc[x] \in Dormant
      PROVE  Waits
  <2>1. CASE x \in cancelling
    BY <1>2, <2>1
  <2>2. CASE x \notin cancelling
    <3>1. x # t /\ at[x] \notin Joins
      BY <1>3, <1>4, <2>2
    <3>2. pc[x] \notin {"callback", "stuck"}
      BY <1>0, <1>1, <1>4, <3>1, HolderAlone DEF Dormant
    <3> QED BY <1>0, <1>1, <3>1, <3>2, MonitorWaits DEF Waits
  <2> QED BY <2>1, <2>2
<1>5. ASSUME NEW t \in Task, BeginShutdown(t), pc[x] \in Dormant PROVE Waits
  <2>1. cancelling' = cancelling \/ CancelMonitor(t, Operator)
    BY <1>5 DEF BeginShutdown, StopOperator
  <2> QED BY <1>2, <1>4, <1>5, <2>1
<1>6. ASSUME NEW t \in Task, CloseCancelled(t) \/ OperatorStopped(t) \/ FlowStopped(t)
      PROVE  Waits
  <2>1. CancelMonitor(t, Operator) \/ CancelMonitor(t, Flow) \/ cancelling' = cancelling
    BY <1>6 DEF CloseCancelled, OperatorStopped, FlowStopped, StopOperator
  <2>2. at[t] \in Stopping
    BY <1>0, <1>6, StopMoves
  <2>3. CASE pc[t] = "callback"
    BY <1>2, <1>4, <2>1, <2>3
  <2>4. CASE pc[t] # "callback"
    <3>1. t \in Client /\ Again(t)
      BY <2>2, <2>4, <1>0, WhoIsWho
      DEF Places, ClientPlace, OperatorPlace, FlowPlace, TimerPlace, Again
    <3>2. at[x] = "rest"
      BY <1>1, <3>1 DEF FluidInv, QuietInv, Stopped, OpOff, FlowOff
    <3>3. x \in cancelling
      BY <2>1, <3>2 DEF CancelMonitor
    <3> QED BY <1>2, <3>3
  <2> QED BY <2>3, <2>4
<1>7. ASSUME NEW c \in Client, ClientActs(c) PROVE Waits
  <2>0. c \in Task /\ c \in Caller
    BY WhoIsWho DEF Task
  <2>1. CASE TransferEnds(c)
    BY <1>0, <1>1, <1>5, <2>0, <2>1, TransferEndsMoves DEF TransferEnds
  <2>2. CASE Aborted(c)
    <3>1. OpOff /\ (cancelling' = cancelling \/ CancelMonitor(c, Operator))
      BY <2>2 DEF Aborted, FluidInv, QuietInv, Stopped, BeginShutdown, StopOperator
    <3>2. x \in cancelling
      BY <3>1 DEF OpOff, CancelMonitor
    <3> QED BY <1>2, <3>2
  <2>3. CASE StartTransfer(c) \/ AbortTransfer(c) \/ TransferMoves(c) \/ Replied(c)
    <3>1. cancelling' = cancelling
      BY <2>3 DEF StartTransfer, AbortTransfer, TransferMoves, Replied
    <3> QED BY <1>2, <3>1
  <2>4. ~ Started(c)
    OBVIOUS
  <2> QED BY <1>6, <1>7, <2>0, <2>1, <2>2, <2>3, <2>4 DEF ClientActs, ClientStep
<1>8. ASSUME NEW k \in Timer, Lapse(k) \/ TimerStep(k) PROVE Waits
  <2>0. k \in Task
    BY DEF Task
  <2>1. CASE Lapse(k)
    BY <1>2, <2>1 DEF Lapse, rigVars
  <2>2. CASE TransferTimesOut(k)
    BY <1>0, <1>1, <1>5, <2>0, <2>2, TimesOutMoves DEF TransferTimesOut
  <2> QED BY <1>6, <1>8, <2>0, <2>1, <2>2 DEF TimerStep
<1>9. ASSUME OperatorStep PROVE Waits /\ x # Operator
  <2>1. CASE Unwind(Operator)
    <3>1. x \in cancelling /\ x # Operator
      BY <1>0, <2>1, UnwindMoves
    <3> QED BY <1>2, <3>1
  <2>2. CASE CloseCancelled(Operator) \/ OperatorStopped(Operator) \/ FlowStopped(Operator)
    <3>1. pc[Operator] = "callback"
      BY <1>0, <2>2, StopMoves DEF Places, OperatorPlace
    <3>2. Waits
      BY <1>0, <1>6, <2>2
    <3> QED BY <3>1, <3>2 DEF Waits
  <2>3. CASE TransferEnds(Operator)
    <3>1. Operator \notin cancelling /\ Waits
      BY <1>0, <1>1, <1>5, <2>3, TransferEndsMoves DEF TransferEnds, Runnable
    <3>2. cancelling' = cancelling
      BY <2>3 DEF TransferEnds, BeginShutdown, StopOperator, CancelMonitor
    <3> QED BY <3>1, <3>2
  <2>4. CASE LetGo
    <3>1. Operator \notin cancelling
      BY <2>4 DEF LetGo, Runnable
    <3>2. CASE isMonitoring
      <4>1. CancelMonitor(Operator, Flow)
        BY <2>4, <3>2 DEF LetGo
      <4>2. x # Operator
        BY <1>3, <3>1, <4>1, <1>0
      <4>3. pc[Flow] \in {"idle", "queued"}
        BY <1>0, <3>2 DEF MeterInv, Places, FlowPlace, RigTypeOK, Location, Joins, Stopping
      <4> QED BY <1>0, <1>1, <1>4, <4>1, <4>2, <4>3 DEF Dormant
    <3>3. CASE ~ isMonitoring
      BY <1>2, <2>4, <3>1, <3>3 DEF LetGo
    <3> QED BY <3>2, <3>3
  <2>5. CASE Press \/ FlowPaused \/ HandlerReturns \/ PumpFails \/ ReportFailure \/ TransferMoves(Operator)
    <3>1. cancelling' = cancelling
      BY <2>5 DEF Press, FlowPaused, HandlerReturns, PumpFails, ReportFailure, TransferMoves
    <3>2. at[Operator] \notin Joins /\ pc[Operator] \in {"idle", "queued"} => Operator \notin cancelling
      BY <2>5 DEF Press, FlowPaused, HandlerReturns, PumpFails, ReportFailure, TransferMoves, Runnable,
         Finish, Joins
    <3>3. Operator \notin cancelling
      BY <3>2 DEF MeterInv
    <3> QED BY <1>2, <3>1, <3>3
  <2> QED BY <1>9, <2>1, <2>2, <2>3, <2>4, <2>5 DEF OperatorStep
<1>10. ASSUME FlowStep PROVE Waits /\ x # Flow
  <2>1. CASE Unwind(Flow)
    <3>1. x \in cancelling /\ x # Flow
      BY <1>0, <2>1, UnwindMoves
    <3> QED BY <1>2, <3>1
  <2>2. CASE CloseCancelled(Flow) \/ OperatorStopped(Flow) \/ FlowStopped(Flow)
    <3>1. pc[Flow] = "callback"
      BY <1>0, <2>2, StopMoves DEF Places, FlowPlace
    <3>2. Waits
      BY <1>0, <1>6, <2>2
    <3> QED BY <3>1, <3>2 DEF Waits
  <2>3. CASE TransferEnds(Flow)
    <3>1. Flow \notin cancelling /\ Waits
      BY <1>0, <1>1, <1>5, <2>3, TransferEndsMoves DEF TransferEnds, Runnable
    <3>2. cancelling' = cancelling \/ CancelMonitor(Flow, Operator)
      BY <2>3 DEF TransferEnds, BeginShutdown, StopOperator
    <3> QED BY <1>0, <1>3, <3>1, <3>2
  <2>4. CASE DetectEnd("progress") \/ DetectEnd("complete_early") \/ Report \/ Reported \/ Emitted
    <3>1. cancelling' = cancelling /\ Flow \notin cancelling
      BY <2>4 DEF DetectEnd, Report, Reported, Emitted, Runnable
    <3> QED BY <1>2, <3>1
  <2> QED BY <1>10, <2>1, <2>2, <2>3, <2>4 DEF FlowStep
<1>11. ASSUME DelayedClose \/ MoveTrigger \/ Pulse \/ UNCHANGED allVars
       PROVE  Waits
  <2>1. cancelling' = cancelling
    BY <1>11 DEF DelayedClose, MoveTrigger, Pulse, allVars, rigVars
  <2> QED BY <1>2, <2>1
<1>12. Waits
  BY <1>7, <1>8, <1>9, <1>10, <1>11 DEF FluidNext, ClientActs
<1>13. Still(x)
  <2>1. x = Operator => Still(x)
    BY <1>0, <1>9, OperatorStill
  <2>2. x = Flow => Still(x)
    BY <1>0, <1>10, FlowStill
  <2> QED BY <1>1, <2>1, <2>2
<1> QED BY <1>12, <1>13 DEF Waits

\* The start of the monitors finds both at rest and sends them to their loops.
LEMMA StartedMonitors ==
    ASSUME FluidInv, NEW c \in Client, Started(c)
    PROVE  /\ AllOff /\ state = "waiting_operator" /\ state' = state /\ cancelling' = {}
           /\ at'[Operator] = "poll" /\ at'[Flow] = "poll" /\ pulses' = 0
           /\ pc[c] = "callback" /\ pc'[Operator] = pc[Operator] /\ pc'[Flow] = pc[Flow]
           /\ UNCHANGED <<progress, job>>
<1>1. at[c] = "emit" /\ job[c] = "start" /\ Finish(c) /\ cancelling' = cancelling
  BY DEF Started
<1>2. c \in Task /\ c # Operator /\ c # Flow /\ Operator \in Task /\ Flow \in Task /\ Operator # Flow
      /\ Operator \notin Timer /\ Flow \notin Timer
  BY WhoIsWho DEF Task
<1>3. AllOff /\ state = "waiting_operator" /\ TimerInv /\ RigTypeOK
  BY <1>1 DEF FluidInv, QuietInv, Stopped, EmitStart
<1>4. cancelling' = {}
  BY <1>1, <1>3 DEF AllOff, OpOff, FlowOff, RigTypeOK
<1>5. at'[Operator] = "poll" /\ at'[Flow] = "poll" /\ pulses' = 0
  BY <1>2, <1>3 DEF Started, StartFlow, AllOff, OpOff, FlowOff, RigTypeOK
<1>6. pc[c] = "callback" /\ Apart(c) /\ UNCHANGED <<job, state, progress>>
  BY <1>1, <1>2, <1>3, FinishMoves DEF Finish, machineVars
<1> QED BY <1>2, <1>3, <1>4, <1>5, <1>6 DEF Apart

\* Every step keeps the monitors so.
LEMMA MeterStep ==
    ASSUME FluidInv, MeterInv, [FluidNext]_allVars
    PROVE  MeterInv'
<1>0. /\ TimerInv /\ RigTypeOK /\ Places /\ Operator \in Task /\ Flow \in Task
      /\ Operator # Flow /\ Operator \in Caller /\ Flow \in Caller
      /\ Operator \notin Client /\ Flow \notin Client /\ OperatorPlace /\ FlowPlace
  BY WhoIsWho DEF FluidInv, Task, Places
<1>1. ASSUME NEW c \in Client, Started(c) PROVE MeterInv'
  BY <1>1, StartedMonitors DEF MeterInv, Releasing, Stopping
<1>2. CASE \A c \in Client : ~ Started(c)
  <2>0. isMonitoring' => isMonitoring
    BY <1>0, <1>2, OffKept DEF StaysOff
  \* Neither monitor is cancelled but where that ends it.
  <2>1. \A x \in cancelling' : at'[x] \notin Joins /\ pc'[x] \in {"idle", "queued"}
    BY <1>2, Cancelled DEF Still
  \* A release goes on with the flow monitor off.
  <2>2. Releasing' => ~ isMonitoring'
    <3>1. CASE ~ OperatorStep
      BY <1>0, <1>2, <2>0, <3>1, OperatorStill DEF Still, Releasing, MeterInv
    <3>2. CASE OperatorStep
      <4>1. CASE LetGo
        BY <4>1 DEF LetGo, StopFlow
      <4>2. CASE FlowPaused
        BY <2>0, <4>2 DEF FlowPaused, MeterInv, Releasing
      <4>3. CASE Press \/ HandlerReturns \/ PumpFails \/ ReportFailure
        <5>1. \/ at'[Operator] \in {"poll", "failing"}
              \/ at'[Operator] = "calling" /\ job'[Operator] \in {"press", "error"}
          BY <1>0, <4>3, CallAt, FinishAt, ReturnAt DEF Press, HandlerReturns, PumpFails, ReportFailure
        <5> QED BY <5>1 DEF Releasing
      <4>4. CASE TransferMoves(Operator) \/ TransferEnds(Operator) \/ Unwind(Operator)
        BY <1>0, <4>4, TransferMovesMoves, TransferEndsMoves, UnwindMoves DEF Releasing, Stopping
      <4>5. CASE CloseCancelled(Operator) \/ OperatorStopped(Operator) \/ FlowStopped(Operator)
        BY <1>0, <4>5, StopMoves DEF Releasing, Stopping
      <4> QED BY <3>2, <4>1, <4>2, <4>3, <4>4, <4>5 DEF OperatorStep
    <3> QED BY <3>1, <3>2
  \* So does the flow monitor's own ending.
  <2>3. at'[Flow] \in {"calling", "stuck"} \cup Stopping => ~ isMonitoring'
    <3>1. CASE Still(Flow)
      BY <2>0, <3>1 DEF Still, MeterInv
    <3>2. CASE FlowStep
      <4>1. CASE DetectEnd("progress") \/ DetectEnd("complete_early")
        BY <4>1 DEF DetectEnd
      <4>2. CASE Report \/ Reported \/ Emitted
        BY <1>0, <4>2, GoesMoves DEF Report, Reported, Emitted, Stopping
      <4>3. CASE TransferEnds(Flow)
        BY <1>0, <2>0, <4>3, TransferEndsMoves DEF MeterInv
      <4>4. CASE Unwind(Flow)
        BY <1>0, <4>4, UnwindMoves DEF Stopping
      <4>5. CASE CloseCancelled(Flow) \/ OperatorStopped(Flow) \/ FlowStopped(Flow)
        BY <1>0, <2>0, <4>5, StopMoves DEF MeterInv
      <4> QED BY <3>2, <4>1, <4>2, <4>3, <4>4, <4>5 DEF FlowStep
    <3> QED BY <1>0, <1>2, <3>1, <3>2, FlowStill
  \* The flow monitor a release waits for is cancelled, until it is at rest.
  <2>4. at'[Operator] = "pausing_flow" => at'[Flow] = "rest" \/ Flow \in cancelling'
    <3>0. at[Flow] = "rest" => at'[Flow] = "rest"
      BY <1>0, <1>2, FlowStill
    <3>1. ASSUME at[Operator] = "pausing_flow", Flow \in cancelling
          PROVE  at'[Flow] = "rest" \/ Flow \in cancelling'
      <4>1. CASE FlowStep
        <5>1. Unwind(Flow)
          <6>1. pc[Flow] # "callback" /\ at[Flow] \notin Joins
            BY <3>1 DEF MeterInv
          <6>2. ~ CloseCancelled(Flow) /\ ~ OperatorStopped(Flow) /\ ~ FlowStopped(Flow)
            BY <6>1 DEF CloseCancelled, OperatorStopped, FlowStopped, Joins
          <6> QED BY <3>1, <4>1, <6>2
              DEF FlowStep, DetectEnd, Report, Reported, Emitted, TransferEnds, Runnable
        <5> QED BY <1>0, <5>1, UnwindMoves
      <4>2. CASE ~ FlowStep
        <5>1. cancelling \subseteq cancelling' \cup {Operator}
          BY <4>2, CancelShape DEF FlowStep, CancelMonitor, Unwind
        <5> QED BY <1>0, <3>1, <5>1
      <4> QED BY <4>1, <4>2
    <3>2. CASE at[Operator] = "pausing_flow"
      BY <3>0, <3>1, <3>2 DEF MeterInv
    <3>3. CASE at[Operator] # "pausing_flow" /\ at'[Operator] = "pausing_flow"
      <4>1. OperatorStep
        BY <1>0, <1>2, <3>3, OperatorStill DEF Still
      <4>2. LetGo
        <5>1. ASSUME Press \/ FlowPaused \/ HandlerReturns \/ PumpFails \/ ReportFailure PROVE FALSE
          BY <1>0, <3>3, <5>1, GoesMoves DEF Press, FlowPaused, HandlerReturns, PumpFails, ReportFailure
        <5>2. ASSUME TransferMoves(Operator) \/ TransferEnds(Operator) \/ Unwind(Operator) PROVE FALSE
          BY <1>0, <3>3, <5>2, TransferMovesMoves, TransferEndsMoves, UnwindMoves DEF Stopping
        <5>3. ASSUME CloseCancelled(Operator) \/ OperatorStopped(Operator) \/ FlowStopped(Operator) PROVE FALSE
          BY <1>0, <3>3, <5>3, StopMoves DEF Stopping
        <5> QED BY <4>1, <5>1, <5>2, <5>3 DEF OperatorStep
      <4>3. isMonitoring /\ CancelMonitor(Operator, Flow)
        BY <1>0, <3>3, <4>2, GoesMoves DEF LetGo
      <4>4. at[Flow] \notin Joins
        BY <1>0, <4>3 DEF MeterInv, FlowPlace, Joins, Stopping
      <4> QED BY <1>0, <3>0, <4>3, <4>4 DEF CancelMonitor
    <3> QED BY <3>2, <3>3
  <2>5. at'[Flow] = "report" => job'[Flow] = "progress"
    <3>1. CASE Still(Flow)
      BY <3>1 DEF Still, MeterInv
    <3>2. CASE FlowStep
      <4>1. CASE Report
        BY <1>0, <4>1, CallAt DEF Report
      <4>2. CASE DetectEnd("progress") \/ DetectEnd("complete_early") \/ Reported \/ Emitted
        BY <1>0, <4>2, GoesMoves DEF DetectEnd, Reported, Emitted
      <4>3. CASE TransferEnds(Flow) \/ Unwind(Flow)
        BY <1>0, <4>3, TransferEndsMoves, UnwindMoves DEF Stopping
      <4>4. CASE CloseCancelled(Flow) \/ OperatorStopped(Flow) \/ FlowStopped(Flow)
        BY <1>0, <4>4, StopMoves DEF Stopping
      <4> QED BY <3>2, <4>1, <4>2, <4>3, <4>4 DEF FlowStep
    <3> QED BY <1>0, <1>2, <3>1, <3>2, FlowStill
  <2> QED BY <2>1, <2>2, <2>3, <2>4, <2>5 DEF MeterInv
<1> QED BY <1>1, <1>2

\* The flow monitor has found the end of the transfer and waits for the lock,
\* and nobody is about to end its task.
Deciding == at[Flow] = "calling" /\ Flow \notin cancelling

\* A release that did not have to stop the flow monitor may have found it
\* there: it waits behind it.
OrderInv == Deciding /\ Releasing => Before(queue, Flow, Operator)

\* One step does not move both monitors.
LEMMA OneMonitorMoves ==
    ASSUME TimerInv, RigTypeOK, [FluidNext]_allVars, \A c \in Client : ~ Started(c)
    PROVE  Still(Operator) \/ Still(Flow)
<1>1. UNCHANGED <<vars, at>> => Still(Operator)
  BY DEF vars, Still
<1> QED BY <1>1, Movers, MonitorStill, WhoIsWho

\* The flow monitor decides where its loop finds the end.
LEMMA NewDecision ==
    ASSUME FluidInv, MeterInv, [FluidNext]_allVars, \A c \in Client : ~ Started(c), Deciding'
    PROVE  \/ Deciding /\ Still(Flow)
           \/ ~ Still(Flow) /\ \E op \in {"progress", "complete_early"} : DetectEnd(op)
<1>0. /\ TimerInv /\ RigTypeOK /\ Flow \in Task /\ Flow \in Caller /\ FlowPlace /\ Flow \notin Client
  BY WhoIsWho DEF FluidInv, Task, Places
<1>1. ASSUME ~ Still(Flow) PROVE DetectEnd("progress") \/ DetectEnd("complete_early")
  <2>0. at'[Flow] = "calling"
    BY DEF Deciding
  <2>1. FlowStep
    BY <1>0, <1>1, FlowStill
  <2>2. ASSUME Report \/ Reported \/ Emitted PROVE FALSE
    BY <1>0, <2>0, <2>2, GoesMoves DEF Report, Reported, Emitted
  <2>3. ASSUME TransferEnds(Flow) \/ Unwind(Flow) PROVE FALSE
    BY <1>0, <2>0, <2>3, TransferEndsMoves, UnwindMoves DEF Stopping
  <2>4. ASSUME CloseCancelled(Flow) \/ OperatorStopped(Flow) \/ FlowStopped(Flow) PROVE FALSE
    BY <1>0, <2>0, <2>4, StopMoves DEF Stopping
  <2> QED BY <2>1, <2>2, <2>3, <2>4 DEF FlowStep
<1>2. ASSUME Still(Flow) PROVE Deciding
  <2>1. at[Flow] = "calling" /\ pc'[Flow] = "queued"
    BY <1>0, <1>2 DEF Deciding, Still, FlowPlace
  <2>2. ASSUME Flow \in cancelling PROVE FALSE
    <3>1. ~ Unwind(Flow)
      BY <1>0, <2>1, UnwindMoves
    <3>2. Flow \in cancelling'
      BY <2>2, <3>1, CancelShape, WhoIsWho DEF CancelMonitor, Unwind
    <3> QED BY <3>2 DEF Deciding
  <2> QED BY <2>1, <2>2 DEF Deciding
<1> QED BY <1>1, <1>2

\* The queue keeps the order of the two.
LEMMA OrderStep ==
    ASSUME FluidInv, MeterInv, OrderInv, [FluidNext]_allVars
    PROVE  OrderInv'
<1> SUFFICES ASSUME Deciding', Releasing' PROVE Before(queue', Flow, Operator)
  BY DEF OrderInv
<1>0. /\ TimerInv /\ RigTypeOK /\ OperatorPlace /\ FlowPlace /\ Operator \in Task /\ Flow \in Task
      /\ Operator # Flow /\ Operator \in Caller /\ Flow \in Caller /\ Operator \notin Client
  BY WhoIsWho DEF FluidInv, Task, Places
<1>1. \A c \in Client : ~ Started(c)
  BY StartedMonitors DEF Deciding
<1>2. FluidInv' /\ MeterInv'
  BY FluidInvStep, MeterStep
<1>3. at'[Operator] = "calling" /\ job'[Operator] = "release"
  BY <1>2 DEF Releasing, Deciding, MeterInv
<1>4. pc'[Operator] = "queued" /\ pc'[Flow] = "queued"
  BY <1>2, <1>3 DEF FluidInv, Places, OperatorPlace, FlowPlace, Deciding
\* While both wait they keep their order.
<1>5. CASE Deciding /\ Releasing
  <2>1. Before(queue, Flow, Operator)
    BY <1>5 DEF OrderInv
  <2>2. FirstComeFirstServed
    BY <1>0, FluidNextIsStep, OrderKept DEF allVars, TimerInv
  <2> QED BY <1>0, <1>4, <2>1, <2>2 DEF FirstComeFirstServed
\* After a release has begun the flow monitor is off, and finds no end.
<1>6. CASE ~ Deciding
  <2>1. ~ Still(Flow) /\ isMonitoring
    BY <1>1, <1>6, NewDecision DEF DetectEnd
  <2>2. Still(Operator)
    BY <1>0, <1>1, <2>1, OneMonitorMoves
  <2> QED BY <2>1, <2>2 DEF Still, Releasing, MeterInv
\* A release that begins joins the queue behind it.
<1>7. CASE Deciding /\ ~ Releasing
  <2>1. ~ Still(Operator)
    BY <1>7 DEF Still, Releasing
  <2>2. OperatorStep
    BY <1>0, <1>1, <2>1, OperatorStill
  <2>3. ASSUME Press \/ HandlerReturns \/ PumpFails \/ ReportFailure PROVE FALSE
    BY <1>0, <1>3, <2>3, CallAt, GoesMoves DEF Press, HandlerReturns, PumpFails, ReportFailure
  <2>4. ASSUME TransferMoves(Operator) \/ TransferEnds(Operator) \/ Unwind(Operator) PROVE FALSE
    BY <1>0, <1>3, <2>4, TransferMovesMoves, TransferEndsMoves, UnwindMoves DEF Stopping
  <2>5. ASSUME CloseCancelled(Operator) \/ OperatorStopped(Operator) \/ FlowStopped(Operator) PROVE FALSE
    BY <1>0, <1>3, <2>5, StopMoves DEF Stopping
  <2>6. ~ FlowPaused
    BY <1>7 DEF FlowPaused, Releasing
  <2>7. LetGo
    BY <2>2, <2>3, <2>4, <2>5, <2>6 DEF OperatorStep
  <2>8. Call(Operator, "release")
    BY <1>0, <1>3, <2>7, GoesMoves DEF LetGo
  <2>9. queue' = Append(queue, Operator) /\ queue \in Seq(Task)
    BY <1>0, <2>8 DEF Call, TimerInv, TypeOK, TaskTypeOK
  <2>10. Contains(queue, Flow)
    BY <1>0, <1>7 DEF Deciding, FlowPlace, TimerInv, LockOK
  <2> QED BY <1>0, <2>9, <2>10, BeforeJoin
<1> QED BY <1>5, <1>6, <1>7

Begun == {"active"} \cup Ended

\* A transfer that has begun stays so but for a release and a reset, which
\* finds all off.
LEMMA BegunKept ==
    ASSUME FluidInv, [FluidNext]_allVars, state \in Begun
    PROVE  \/ state' \in Begun
           \/ TransferMoves(Operator) /\ job[Operator] = "release"
           \/ AllOff
<1>1. PICK t \in Task :
          /\ Elsewhere(t) /\ (t \in Client => ClientActs(t))
          /\ \/ t \in Caller /\ (TransferMoves(t) \/ TransferEnds(t))
             \/ t \in Timer /\ TransferTimesOut(t)
             \/ Lasts(t)
  BY EndShapes DEF FluidInv
<1>2. CASE t \in Caller /\ TransferMoves(t)
  <2>1. /\ at[t] = "calling"
        /\ \/ job[t] = "start" /\ state = "idle"
           \/ job[t] = "press" /\ state' = "active"
           \/ job[t] = "release"
           \/ job[t] = "reset"
    BY <1>2, TransferMovesMoves DEF FluidInv
  <2>2. job[t] = "release" => t = Operator
    BY <1>2, <2>1, WhoIsWho DEF FluidInv, Places, ClientPlace, FlowPlace
  <2>3. job[t] = "reset" => AllOff
    BY <1>2, <2>1, WhoIsWho DEF FluidInv, Places, OperatorPlace, FlowPlace, QuietInv, Stopped
  <2> QED BY <1>2, <2>1, <2>2, <2>3 DEF Begun, Ended
<1>3. CASE t \in Caller /\ TransferEnds(t)
  BY <1>3, TransferEndsMoves DEF FluidInv, Begun, Ended
<1>4. CASE t \in Timer /\ TransferTimesOut(t)
  BY <1>4, TimesOutMoves DEF FluidInv, Begun, Ended
<1> QED BY <1>1, <1>2, <1>3, <1>4 DEF Lasts

\* Pulses are counted while the pump runs.
LEMMA PulsesGrow ==
    ASSUME [FluidNext]_allVars
    PROVE  pulses' = pulses \/ pulses' = 0 \/ Pulse
<1>1. ASSUME NEW t \in Task, BeginShutdown(t) \/ CloseCancelled(t) \/ OperatorStopped(t) \/ FlowStopped(t)
      PROVE  pulses' = pulses \/ pulses' = 0
  BY <1>1 DEF BeginShutdown, CloseCancelled, OperatorStopped, FlowStopped, flowVars
<1>2. ASSUME NEW t \in Task, TransferMoves(t) \/ TransferEnds(t)
      PROVE  pulses' = pulses \/ pulses' = 0
  BY <1>1, <1>2 DEF TransferMoves, TransferEnds, flowVars
<1>3. ASSUME NEW c \in Client, ClientActs(c)
      PROVE  pulses' = pulses \/ pulses' = 0
  BY <1>1, <1>2, <1>3, WhoIsWho
  DEF ClientActs, ClientStep, StartTransfer, AbortTransfer, Started, StartFlow, Aborted, Replied, flowVars
<1>4. ASSUME OperatorStep PROVE pulses' = pulses \/ pulses' = 0
  BY <1>1, <1>2, <1>4, WhoIsWho
  DEF OperatorStep, Press, LetGo, FlowPaused, HandlerReturns, PumpFails, ReportFailure, Unwind, flowVars
<1>5. ASSUME FlowStep PROVE pulses' = pulses \/ pulses' = 0
  BY <1>1, <1>2, <1>5, WhoIsWho DEF FlowStep, DetectEnd, Report, Reported, Emitted, Unwind, flowVars
<1>6. ASSUME NEW k \in Timer, Lapse(k) \/ TimerStep(k) PROVE pulses' = pulses \/ pulses' = 0
  BY <1>1, <1>6 DEF Lapse, rigVars, TimerStep, TransferTimesOut, Task, flowVars
<1> QED BY <1>3, <1>4, <1>5, <1>6
    DEF FluidNext, ClientActs, DelayedClose, MoveTrigger, allVars, rigVars, flowVars

\* Whoever lets the lock go, but for the start of the monitors, is a client
\* that ends or resets, or the operator's handler.
LEMMA FreedBy ==
    ASSUME FluidInv, [FluidNext]_allVars, \A c \in Client : ~ Started(c), holder # None, holder' = None
    PROVE  \/ \E c \in Client : at[c] = "emit" /\ job[c] \in {"abort", "reset"}
           \/ at[Operator] = "emit" /\ state' = state
<1>0. TimerInv /\ RigTypeOK /\ Places
  BY DEF FluidInv
<1>1. ASSUME NEW t \in Task, CloseCancelled(t) \/ OperatorStopped(t) \/ FlowStopped(t)
      PROVE  FALSE
  BY <1>1 DEF CloseCancelled, OperatorStopped, FlowStopped, Reenter, Call, vars
<1>2. ASSUME NEW c \in Caller, TransferMoves(c) \/ TransferEnds(c) PROVE FALSE
  BY <1>0, <1>2, TransferMovesMoves, TransferEndsMoves, TransitsMoves
<1>3. ASSUME NEW c \in Client, ClientActs(c)
      PROVE  at[c] = "emit" /\ job[c] \in {"abort", "reset"}
  <2>1. ASSUME StartTransfer(c) \/ AbortTransfer(c) PROVE FALSE
    BY <2>1 DEF StartTransfer, AbortTransfer, Call
  <2>2. ~ Refuse(c)
    BY DEF Refuse, Admitted
  <2>3. ~ Started(c)
    OBVIOUS
  <2> QED BY <1>1, <1>2, <1>3, <2>1, <2>2, <2>3, WhoIsWho DEF ClientActs, ClientStep, Aborted, Replied
<1>4. ASSUME OperatorStep PROVE at[Operator] = "emit" /\ state' = state
  <2>1. ASSUME Press \/ LetGo \/ FlowPaused \/ ReportFailure PROVE FALSE
    BY <2>1 DEF Press, LetGo, FlowPaused, ReportFailure, Call, vars
  <2>2. ASSUME Unwind(Operator) PROVE FALSE
    BY <2>2 DEF Unwind, Withdraw, vars
  <2>3. ASSUME HandlerReturns \/ PumpFails PROVE at[Operator] = "emit" /\ state' = state
    BY <2>3 DEF HandlerReturns, PumpFails, Refuse, Admitted, Finish, machineVars
  <2> QED BY <1>1, <1>2, <1>4, <2>1, <2>2, <2>3, WhoIsWho DEF OperatorStep
<1>5. ASSUME FlowStep PROVE FALSE
  <2>1. ASSUME DetectEnd("progress") \/ DetectEnd("complete_early") \/ Report PROVE FALSE
    BY <2>1 DEF DetectEnd, Report, Call
  <2>2. ASSUME Reported \/ Emitted \/ Unwind(Flow) PROVE FALSE
    BY <2>2 DEF Reported, ReportProgress, Return, Emitted, Unwind, Withdraw, vars
  <2> QED BY <1>1, <1>2, <1>5, <2>1, <2>2, WhoIsWho DEF FlowStep
<1>6. ASSUME NEW k \in Timer, Lapse(k) \/ TimerStep(k) PROVE FALSE
  <2>1. ~ TransferTimesOut(k)
    BY <1>0, TimeoutMoves DEF TransferTimesOut
  <2>2. ~ Lapse(k)
    BY DEF Lapse, Expire
  <2> QED BY <1>1, <1>6, <2>1, <2>2 DEF TimerStep, Task
<1>7. ASSUME DelayedClose \/ MoveTrigger \/ Pulse \/ UNCHANGED allVars PROVE FALSE
  BY <1>7 DEF DelayedClose, MoveTrigger, Pulse, allVars, vars
<1> QED BY <1>3, <1>4, <1>5, <1>6, <1>7 DEF FluidNext, ClientActs

\* What the flow monitor reports, the machine waits for: there is a progress
\* to update until the reset; pulses, and an early end, come after the press;
\* and an ended transfer keeps the lock until the monitor's task has ended.
ReportInv ==
    /\ progress = "none" => state = "idle"
    /\ isMonitoring /\ pulses > 0 => state \in Begun
    /\ Deciding /\ job[Flow] = "complete_early" => state \in Begun
    /\ state \in Ended /\ holder = None => at[Flow] = "rest"
    /\ at[Operator] = "emit" => state \in {"active", "paused"}

\* Only a reset forgets the progress.
LEMMA ProgressKept ==
    ASSUME FluidInv, ReportInv, [FluidNext]_allVars, progress' = "none"
    PROVE  state' = "idle"
<1>0. TimerInv /\ Places /\ [Next]_vars
  BY FluidNextIsStep DEF FluidInv, allVars
<1>1. ASSUME state = "idle", NEW c \in Caller, Runs(c, "error") PROVE FALSE
  <2>1. pc[c] = "queued"
    BY <1>0, <1>1, AdmittedQueue DEF TimerInv, TypeOK, Runs
  <2>2. at[Operator] = "rest" /\ at[Flow] = "rest"
    BY <1>1 DEF FluidInv, QuietInv, AllOff, OpOff, FlowOff
  <2>3. c \in Client
    BY <1>0, <2>1, <2>2, WhoIsWho DEF Places, OperatorPlace, FlowPlace
  <2>4. at[c] \in {"rest", "calling", "emit", "stuck"} \cup Stopping /\ ClientPlace(c)
    BY <1>0, <2>3 DEF Places, ClientPlace
  <2> QED BY <1>1, <2>1, <2>4 DEF ClientPlace, Runs
<1>2. CASE Quiet
  <2>1. state' = state
    BY <1>0, <1>2, QuietTicks DEF TimersKept, TimerInv
  <2>2. progress' = progress
    <3>1. ~ \E c \in Caller : ReportProgress(c)
      BY DEF ReportProgress
    <3> QED BY <1>2, <3>1 DEF Quiet, Call, Refuse, Return, Withdraw, Expire, Interrupt, Reenter,
               vars, machineVars
  <2> QED BY <2>1, <2>2 DEF ReportInv
<1>3. ASSUME NEW c \in Caller, Transits(c) PROVE state' = "idle"
  <2>1. CASE Reset(c)
    BY <2>1 DEF Reset, Transition
  <2>2. CASE Error(c)
    <3>1. progress = "none"
      BY <2>2 DEF Error
    <3> QED BY <1>1, <2>2, <3>1 DEF ReportInv, Error
  <2>3. CASE Start(c) \/ ReachTarget(c)
    BY <2>3 DEF Start, ReachTarget
  <2>4. CASE PressToStart(c) \/ PressToResume(c) \/ Release(c) \/ CompleteEarly(c) \/ Abort(c)
    BY <2>4 DEF PressToStart, PressToResume, Release, CompleteEarly, Abort, ReportInv, Live
  <2> QED BY <1>3, <2>1, <2>2, <2>3, <2>4 DEF Transits
<1>4. ASSUME NEW k \in Timer, Timeout(k) PROVE FALSE
  BY <1>0, <1>4, FiringTimer DEF Timeout, ReportInv, Live
<1>5. ASSUME NEW t \in Task, Finish(t) PROVE state' = "idle"
  BY <1>5 DEF Finish, machineVars, ReportInv
<1> QED BY <1>0, <1>2, <1>3, <1>4, <1>5, StepCases

\* While the operator's handler emits the state it has brought about, it has
\* the lock.
LEMMA EmitKept ==
    ASSUME FluidInv, ReportInv, [FluidNext]_allVars, at'[Operator] = "emit"
    PROVE  state' \in {"active", "paused"}
<1>0. /\ TimerInv /\ RigTypeOK /\ OperatorPlace /\ Operator \in Task /\ Operator \in Caller
      /\ Operator \notin Client
  BY WhoIsWho DEF FluidInv, Places, Task
<1>1. \A c \in Client : ~ Started(c)
  BY StartedMonitors
<1>2. CASE ~ OperatorStep
  <2>1. at[Operator] = "emit" /\ pc[Operator] = "callback"
    BY <1>0, <1>1, <1>2, OperatorStill DEF Still, OperatorPlace
  <2>2. PICK t \in Task :
          \/ t \in Caller /\ (TransferMoves(t) \/ TransferEnds(t))
          \/ t \in Timer /\ TransferTimesOut(t)
          \/ Lasts(t)
    BY EndShapes DEF FluidInv
  <2>3. Lasts(t)
    BY <1>0, <2>1, <2>2, TransferMovesMoves, TransferEndsMoves, TimesOutMoves DEF Dormant
  <2> QED BY <2>1, <2>3 DEF Lasts, ReportInv
<1>3. CASE OperatorStep
  <2>1. ASSUME Press \/ LetGo \/ FlowPaused \/ HandlerReturns \/ PumpFails \/ ReportFailure PROVE FALSE
    BY <1>0, <2>1, GoesMoves DEF Press, LetGo, FlowPaused, HandlerReturns, PumpFails, ReportFailure
  <2>2. ASSUME TransferEnds(Operator) \/ Unwind(Operator) PROVE FALSE
    BY <1>0, <2>2, TransferEndsMoves, UnwindMoves DEF Stopping
  <2>3. ASSUME CloseCancelled(Operator) \/ OperatorStopped(Operator) \/ FlowStopped(Operator) PROVE FALSE
    <3>1. at[Operator] \in Stopping => state # "aborted"
      BY <1>0 DEF FluidInv, EndedInv, OwnEnding
    <3> QED BY <1>0, <2>3, <3>1, StopMoves DEF Stopping
  <2>4. TransferMoves(Operator)
    BY <1>3, <2>1, <2>2, <2>3 DEF OperatorStep
  <2> QED BY <1>0, <2>4, TransferMovesMoves DEF OperatorPlace
<1> QED BY <1>2, <1>3

\* Every step keeps the reports welcome.
LEMMA ReportStep ==
    ASSUME FluidInv, MeterInv, OrderInv, ReportInv, [FluidNext]_allVars
    PROVE  ReportInv'
<1>0. /\ TimerInv /\ RigTypeOK /\ FlowPlace /\ Flow \in Task /\ Flow \in Caller
      /\ Operator \in Task /\ Operator \in Caller
  BY WhoIsWho DEF FluidInv, Places, Task
<1>1. ASSUME NEW c \in Client, Started(c) PROVE ReportInv'
  <2>1. /\ state' = "waiting_operator" /\ pulses' = 0 /\ progress' = progress /\ progress # "none"
        /\ at'[Operator] = "poll" /\ at'[Flow] = "poll"
    BY <1>1, StartedMonitors DEF ReportInv
  <2> QED BY <2>1 DEF ReportInv, Deciding, Ended
<1>2. CASE \A c \in Client : ~ Started(c)
  <2>1. isMonitoring' => isMonitoring
    BY <1>0, <1>2, OffKept DEF FluidInv, StaysOff
  <2>2. isMonitoring' /\ pulses' > 0 => state' \in Begun
    <3> SUFFICES ASSUME isMonitoring', pulses' > 0 PROVE state' \in Begun
      OBVIOUS
    <3>1. CASE Pulse
      BY <3>1 DEF Pulse, vars, machineVars, FluidInv, PumpInv, PumpGuarded, Begun
    <3>2. CASE ~ Pulse
      <4>1. isMonitoring /\ pulses > 0
        BY <2>1, <3>2, PulsesGrow
      <4>2. state \in Begun
        BY <4>1 DEF ReportInv
      <4>3. ~ AllOff
        BY <4>1 DEF AllOff, FlowOff
      <4>4. ~ (TransferMoves(Operator) /\ job[Operator] = "release")
        BY <4>1 DEF MeterInv, Releasing, TransferMoves, Runnable
      <4> QED BY <4>2, <4>3, <4>4, BegunKept
    <3> QED BY <3>1, <3>2
  <2>3. Deciding' /\ job'[Flow] = "complete_early" => state' \in Begun
    <3> SUFFICES ASSUME Deciding', job'[Flow] = "complete_early" PROVE state' \in Begun
      OBVIOUS
    <3>1. CASE Deciding /\ Still(Flow)
      <4>1. state \in Begun /\ ~ AllOff
        BY <3>1 DEF ReportInv, Still, Deciding, AllOff, FlowOff
      <4>2. ASSUME TransferMoves(Operator), job[Operator] = "release" PROVE FALSE
        <5>1. at[Operator] = "calling" /\ Admitted(Operator)
          BY <1>0, <4>2, TransferMovesMoves, TransitsByTransition
        <5>2. Before(queue, Flow, Operator)
          BY <3>1, <4>2, <5>1 DEF OrderInv, Releasing
        <5>3. queue \in Seq(Task) /\ Distinct(queue)
          BY <1>0, LockOKIsDistinct DEF TimerInv, TypeOK, TaskTypeOK
        <5>4. Head(queue) # Operator
          BY <5>2, <5>3, BeforeNotHead, Zenon
        <5> QED BY <5>1, <5>4 DEF Admitted
      <4> QED BY <4>1, <4>2, BegunKept
    <3>2. ASSUME NEW op \in {"progress", "complete_early"}, DetectEnd(op) PROVE state' \in Begun
      <4>1. job'[Flow] = op /\ state' = state
        BY <1>0, <3>2, CallAt DEF DetectEnd
      <4>2. isMonitoring /\ pulses > 0
        BY <3>2, <4>1 DEF DetectEnd
      <4> QED BY <4>1, <4>2 DEF ReportInv
    <3> QED BY <1>2, <3>1, <3>2, NewDecision
  <2>4. state' \in Ended /\ holder' = None => at'[Flow] = "rest"
    <3> SUFFICES ASSUME state' \in Ended, holder' = None PROVE at'[Flow] = "rest"
      OBVIOUS
    <3>0. at[Flow] = "rest" => at'[Flow] = "rest"
      BY <1>0, <1>2, FlowStill
    <3>1. CASE holder = None
      <4>1. PICK t \in Task :
              \/ t \in Caller /\ (TransferMoves(t) \/ TransferEnds(t))
              \/ t \in Timer /\ TransferTimesOut(t)
              \/ Lasts(t)
        BY EndShapes DEF FluidInv
      <4>2. t # None
        BY WhoIsWho
      <4>3. ASSUME t \in Caller, TransferMoves(t) \/ TransferEnds(t) PROVE FALSE
        <5>1. holder' = t
          BY <1>0, <4>3, TransferMovesMoves, TransferEndsMoves, TransitsByTransition DEF Transition
        <5> QED BY <4>2, <5>1
      <4>4. ~ TransferTimesOut(t)
        BY <4>2 DEF TransferTimesOut, Timeout, Transition
      <4>5. state' = state
        BY <4>1, <4>3, <4>4 DEF Lasts
      <4> QED BY <3>0, <3>1, <4>5 DEF ReportInv
    <3>2. CASE holder # None
      <4>1. CASE \E c \in Client : at[c] = "emit" /\ job[c] \in {"abort", "reset"}
        BY <3>0, <4>1 DEF FluidInv, QuietInv, Stopped, AllOff, FlowOff
      <4>2. CASE at[Operator] = "emit" /\ state' = state
        BY <4>2 DEF ReportInv, Ended
      <4> QED BY <1>2, <3>2, <4>1, <4>2, FreedBy
    <3> QED BY <3>1, <3>2
  <2> QED BY <2>2, <2>3, <2>4, ProgressKept, EmitKept DEF ReportInv
<1> QED BY <1>1, <1>2

-----------------------------------------------------------------------------
(* The invariants of the handlers together.                                 *)

HandlersInv == CloseInv /\ MeterInv /\ OrderInv /\ ReportInv

\* They hold at first, and every step keeps them.
LEMMA HandlersInvHolds == FluidSpec => []HandlersInv
<1>1. FluidInit => HandlersInv
  <2> SUFFICES ASSUME FluidInit PROVE HandlersInv
    OBVIOUS
  <2>1. /\ at[Operator] = "rest" /\ at[Flow] = "rest" /\ cancelling = {} /\ state = "idle"
        /\ ~ isMonitoring /\ ~ closing
    BY WhoIsWho DEF FluidInit, Init, Task
  <2> QED BY <2>1 DEF HandlersInv, CloseInv, MeterInv, OrderInv, ReportInv, Releasing, Deciding,
             Stopping, Ended
<1>2. FluidInv /\ HandlersInv /\ [FluidNext]_allVars => HandlersInv'
  BY CloseStep, MeterStep, OrderStep, ReportStep DEF HandlersInv
<1> QED BY <1>1, <1>2, FluidInvHolds, PTL DEF FluidSpec

\* In whatever order the tasks run: no report of the flow monitor is refused,
\* no delayed close is pending while the flow is monitored or when a release
\* schedules one, no monitor is cancelled inside its own transition, and the
\* monitors do not wait for each other.
THEOREM HandlersCorrect == FluidSpec => []HandlersMeetMachine
<1>1. FluidInv /\ HandlersInv => HandlersMeetMachine
  <2> SUFFICES ASSUME FluidInv, HandlersInv PROVE HandlersMeetMachine
    OBVIOUS
  <2>0. /\ TimerInv /\ FlowPlace /\ OperatorPlace /\ Operator \in Task /\ Flow \in Task /\ Operator # Flow
    BY WhoIsWho DEF FluidInv, Places, Task
  <2>1. ASSUME Admitted(Flow), Flow \notin cancelling PROVE ~ Refused(job[Flow])
    <3>1. pc[Flow] = "queued" /\ holder = None
      BY <2>0, <2>1, AdmittedQueue DEF TimerInv, TypeOK
    <3>2. at[Flow] \in {"calling", "report"} /\ job[Flow] \in {"progress", "complete_early"}
      BY <2>0, <3>1, WhoIsWho DEF FlowPlace, FluidInv, RigTypeOK, Location, Joins, Stopping
    <3>3. state # "idle"
      BY <3>2 DEF FluidInv, QuietInv, AllOff, FlowOff
    <3>4. progress # "none"
      BY <3>3 DEF HandlersInv, ReportInv
    <3>5. job[Flow] = "complete_early" => state = "active"
      BY <2>1, <3>1, <3>2 DEF HandlersInv, MeterInv, ReportInv, Deciding, Begun
    <3> QED BY <3>2, <3>4, <3>5 DEF Refused
  <2>2. isMonitoring \/ (pressed /\ at[Operator] = "poll") => ~ closing
    BY DEF HandlersInv, CloseInv
  <2>3. \A x \in cancelling : pc[x] \in {"idle", "queued"}
    BY DEF HandlersInv, MeterInv
  <2>4. ~ (at[Flow] = "stopping_operator" /\ at[Operator] \in {"pausing_flow", "stopping_flow"})
    <3>1. ~ (at[Flow] = "stopping_operator" /\ at[Operator] = "stopping_flow")
      BY <2>0, HolderAlone DEF FlowPlace, OperatorPlace, Stopping
    <3>2. ~ (at[Flow] = "stopping_operator" /\ at[Operator] = "pausing_flow")
      BY DEF HandlersInv, MeterInv, Joins
    <3> QED BY <3>1, <3>2
  <2> QED BY <2>1, <2>2, <2>3, <2>4 DEF HandlersMeetMachine
<1> QED BY <1>1, FluidInvHolds, HandlersInvHolds, PTL
=============================================================================
