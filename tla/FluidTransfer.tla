---------------------------- MODULE FluidTransfer ----------------------------
(****************************************************************************)
(* FluidTransferOrchestrator (fluid_transfer/orchestrator.py) with its      *)
(* operator and flow monitors, gate and pump controllers, over the gated    *)
(* transfer state machine.                                                  *)
(*                                                                          *)
(* Tasks: clients run start_transfer and abort_transfer; the operator and   *)
(* flow monitors each run a polling loop that calls the handlers of the     *)
(* orchestrator; timeouts run in tasks of their own.  Each of them may be   *)
(* the one that runs _on_state_change, with the state machine's lock held.  *)
(*                                                                          *)
(* Cancelling a task ends it at its next step, except where it awaits       *)
(* another task inside "try ... except CancelledError: pass": there the     *)
(* cancellation is lost.  A task that cancels and awaits itself so goes on. *)
(* The order in which ready tasks run is left open.                         *)
(****************************************************************************)
EXTENDS GatedTransfer

CONSTANTS
    Client,     \* tasks that run start_transfer and abort_transfer
    Operator,   \* the task of OperatorTriggerMonitor._monitor_loop
    Flow,       \* the task of FlowSensorMonitor._monitor_loop
    Target      \* target_pulses

ASSUME FluidAssumption ==
    /\ Caller = Client \cup {Operator, Flow}
    /\ Operator # Flow /\ {Operator, Flow} \cap Client = {}
    /\ Target \in Nat
    /\ MayFail /\ Reentrant

VARIABLES
    gate,          \* the flow gate is open
    pump,          \* the pump runs
    closing,       \* the gate's delayed close is pending
    trigger,       \* the operator holds the trigger
    pressed,       \* OperatorTriggerState.is_pressed
    opMonitoring,  \* OperatorTriggerMonitor._monitoring
    isMonitoring,  \* FlowSensorState.is_monitoring
    counting,      \* the flow sensor counts pulses
    pulses,        \* its count
    at,            \* where each task is in the orchestrator
    cancelling     \* the monitor tasks a cancellation is about to end

hardware == <<gate, pump, closing>>
operatorVars == <<trigger, pressed, opMonitoring>>
flowVars == <<isMonitoring, counting, pulses>>
rigVars == <<hardware, operatorVars, flowVars, at, cancelling>>
allVars == <<vars, rigVars>>

\* "calling" the state machine, or in one of the awaits.  In Joins, a task
\* awaits another one and a cancellation of its own is lost.
Joins == {"closing_gate", "stopping_operator", "stopping_flow", "pausing_flow"}
Location == Joins \cup {"rest", "poll", "calling", "emit", "report", "failing", "stuck"}

FluidTypeOK ==
    /\ TypeOK
    /\ gate \in BOOLEAN /\ pump \in BOOLEAN /\ closing \in BOOLEAN
    /\ trigger \in BOOLEAN /\ pressed \in BOOLEAN /\ opMonitoring \in BOOLEAN
    /\ isMonitoring \in BOOLEAN /\ counting \in BOOLEAN /\ pulses \in 0..Target
    /\ at \in [Task -> Location]
    /\ cancelling \subseteq {Operator, Flow}

FluidInit ==
    /\ Init
    /\ gate = FALSE /\ pump = FALSE /\ closing = FALSE
    /\ trigger = FALSE /\ pressed = FALSE /\ opMonitoring = FALSE
    /\ isMonitoring = FALSE /\ counting = FALSE /\ pulses = 0
    /\ at = [t \in Task |-> "rest"]
    /\ cancelling = {}

Goes(t, place) == at' = [at EXCEPT ![t] = place]
Runnable(t, place) == at[t] = place /\ t \notin cancelling

-----------------------------------------------------------------------------
(* The controllers and the monitors.                                        *)

OpenGate == gate' = TRUE /\ closing' = FALSE

\* A release has one delayed close at most to replace: none can be pending.
ScheduleClose == closing' = TRUE /\ UNCHANGED gate

StopPump == pump' = FALSE

\* start_pump: the interlock holds, or the pump runs already.
StartPump == (gate \/ pump) /\ pump' = TRUE

StartOperator == opMonitoring' = TRUE

\* A monitor that is on is left as it is, its count too.
StartFlow ==
    /\ isMonitoring' = TRUE
    /\ counting' = (counting \/ ~ isMonitoring)
    /\ pulses' = IF isMonitoring THEN pulses ELSE 0

\* The sensor and the loop stop; the loop's task is cancelled besides.
StopFlow == isMonitoring' = FALSE /\ counting' = FALSE

-----------------------------------------------------------------------------
(* _shutdown_hardware, run by t: it stops the pump, closes the gate, then    *)
(* cancels and awaits the operator monitor and after it the flow monitor.   *)

\* Mutant: the caller is cancelled, not the monitor's task.
CancelCaller(t, x) == cancelling' = cancelling \cup {t}

\* t cancels monitor task x.  A task that has ended, one in a join and t
\* itself go on as they are.
CancelMonitor(t, x) ==
    cancelling' = IF x = t \/ at[x] \in Joins \cup {"rest"}
                  THEN cancelling ELSE cancelling \cup {x}

\* Mutant: the cancelled task is not awaited.
JoinedAtOnce(t, x) == TRUE

Joined(t, x) == x = t \/ at[x] = "rest"

StopOperator(t) ==
    /\ opMonitoring' = FALSE
    /\ CancelMonitor(t, Operator)
    /\ Goes(t, "stopping_operator")

\* Mutant: the shutdown leaves the pump to the state machine.
ShutdownPumping(t) ==
    /\ gate' = FALSE
    /\ StopOperator(t)
    /\ UNCHANGED <<pump, closing, trigger, pressed, flowVars>>

BeginShutdown(t) ==
    /\ StopPump
    /\ IF closing
       THEN /\ closing' = FALSE
            /\ Goes(t, "closing_gate")
            /\ UNCHANGED <<gate, opMonitoring, cancelling>>
       ELSE /\ gate' = FALSE
            /\ StopOperator(t)
            /\ UNCHANGED closing
    /\ UNCHANGED <<trigger, pressed, flowVars>>

CloseCancelled(t) ==
    /\ at[t] = "closing_gate"
    /\ gate' = FALSE
    /\ StopOperator(t)
    /\ UNCHANGED <<vars, pump, closing, trigger, pressed, flowVars>>

OperatorStopped(t) ==
    /\ at[t] = "stopping_operator"
    /\ Joined(t, Operator)
    /\ StopFlow
    /\ CancelMonitor(t, Flow)
    /\ Goes(t, "stopping_flow")
    /\ UNCHANGED <<vars, hardware, operatorVars, pulses>>

\* The end of the shutdown, and what its caller does next: the callback of an
\* abort emits its status, that of any other ending calls reset() with the
\* lock held, and abort_transfer calls reset().
FlowStopped(t) ==
    /\ at[t] = "stopping_flow"
    /\ Joined(t, Flow)
    /\ pulses' = 0
    /\ \/ pc[t] = "callback" /\ state = "aborted" /\ Goes(t, "emit") /\ UNCHANGED vars
       \/ state # "aborted" /\ Reenter(t) /\ Goes(t, "stuck")
       \/ t \in Client /\ Call(t, "reset") /\ Goes(t, "calling")
    /\ UNCHANGED <<hardware, operatorVars, isMonitoring, counting, cancelling>>

\* A cancelled monitor task leaves its loop, and the lock's queue.
Unwind(x) ==
    /\ x \in cancelling
    /\ \/ pc[x] = "queued" /\ Withdraw(x)
       \/ pc[x] = "idle" /\ UNCHANGED vars
    /\ cancelling' = cancelling \ {x}
    /\ Goes(x, "rest")
    /\ UNCHANGED <<hardware, operatorVars, flowVars>>

-----------------------------------------------------------------------------
(* The state machine's lock, taken by a task of the orchestrator.           *)

\* A transition that ends the transfer starts the shutdown in its callback.
Ends(c) == ReachTarget(c) \/ CompleteEarly(c) \/ Error(c) \/ Abort(c)

TransferEnds(c) ==
    /\ Runnable(c, "calling")
    /\ Ends(c)
    /\ BeginShutdown(c)

TransferTimesOut(k) == Timeout(k) /\ BeginShutdown(k)

\* Any other transition only emits its status.
TransferMoves(c) ==
    /\ Runnable(c, "calling")
    /\ Start(c) \/ PressToStart(c) \/ PressToResume(c) \/ Release(c) \/ Reset(c)
    /\ Goes(c, "emit")
    /\ UNCHANGED <<hardware, operatorVars, flowVars, cancelling>>

Lapse(k) == Expire(k) /\ UNCHANGED rigVars

-----------------------------------------------------------------------------
(* Clients.                                                                 *)

StartTransfer(c) ==
    /\ Runnable(c, "rest")
    /\ Call(c, "start")
    /\ Goes(c, "calling")
    /\ UNCHANGED <<hardware, operatorVars, flowVars, cancelling>>

AbortTransfer(c) ==
    /\ Runnable(c, "rest")
    /\ Call(c, "abort")
    /\ Goes(c, "calling")
    /\ UNCHANGED <<hardware, operatorVars, flowVars, cancelling>>

\* start() has returned True: both monitors start, unless they run already.
Started(c) ==
    /\ at[c] = "emit" /\ job[c] = "start"
    /\ Finish(c)
    /\ StartOperator
    /\ StartFlow
    /\ at' = [at EXCEPT ![c] = "rest",
                        ![Operator] = IF opMonitoring THEN @ ELSE "poll",
                        ![Flow] = IF isMonitoring THEN @ ELSE "poll"]
    /\ UNCHANGED <<hardware, trigger, pressed, cancelling>>

\* abort() has returned True: the hardware is shut down once more.
Aborted(c) ==
    /\ at[c] = "emit" /\ job[c] = "abort"
    /\ Finish(c)
    /\ BeginShutdown(c)

\* reset() has returned, or the command was refused: the client has its reply.
Replied(c) ==
    /\ \/ at[c] = "emit" /\ job[c] = "reset" /\ Finish(c)
       \/ at[c] = "calling" /\ Refuse(c)
    /\ Goes(c, "rest")
    /\ UNCHANGED <<hardware, operatorVars, flowVars, cancelling>>

ClientStep(c) ==
    \/ TransferMoves(c) \/ TransferEnds(c)
    \/ Started(c) \/ Aborted(c) \/ Replied(c)
    \/ CloseCancelled(c) \/ OperatorStopped(c) \/ FlowStopped(c)

-----------------------------------------------------------------------------
(* The operator monitor and its handlers.                                   *)

\* Mutants: opening the gate leaves a delayed close pending; the monitor does
\* not remember the press.
PressKeepingClose ==
    /\ Runnable(Operator, "poll") /\ opMonitoring /\ trigger /\ ~ pressed
    /\ pressed' = TRUE /\ gate' = TRUE
    /\ Call(Operator, "press") /\ Goes(Operator, "calling")
    /\ UNCHANGED <<pump, closing, trigger, opMonitoring, flowVars, cancelling>>
PressForgotten ==
    /\ Runnable(Operator, "poll") /\ opMonitoring /\ trigger /\ ~ pressed
    /\ OpenGate
    /\ Call(Operator, "press") /\ Goes(Operator, "calling")
    /\ UNCHANGED <<pump, trigger, pressed, opMonitoring, flowVars, cancelling>>

\* The press opens the gate and tells the state machine.
Press ==
    /\ Runnable(Operator, "poll") /\ opMonitoring
    /\ trigger /\ ~ pressed
    /\ pressed' = TRUE
    /\ OpenGate
    /\ Call(Operator, "press")
    /\ Goes(Operator, "calling")
    /\ UNCHANGED <<pump, trigger, opMonitoring, flowVars, cancelling>>

\* Mutant: the release leaves the flow monitor on.
LetGoMetering ==
    /\ Runnable(Operator, "poll") /\ opMonitoring /\ ~ trigger /\ pressed
    /\ pressed' = FALSE /\ StopPump /\ ScheduleClose
    /\ Call(Operator, "release") /\ Goes(Operator, "calling")
    /\ UNCHANGED <<trigger, opMonitoring, flowVars, cancelling>>

\* The release stops the pump, schedules the gate's close, and stops the flow
\* monitor if it is on before it tells the state machine.
LetGo ==
    /\ Runnable(Operator, "poll") /\ opMonitoring
    /\ ~ trigger /\ pressed
    /\ pressed' = FALSE
    /\ StopPump
    /\ ScheduleClose
    /\ IF isMonitoring
       THEN /\ StopFlow
            /\ CancelMonitor(Operator, Flow)
            /\ Goes(Operator, "pausing_flow")
            /\ UNCHANGED vars
       ELSE /\ Call(Operator, "release")
            /\ Goes(Operator, "calling")
            /\ UNCHANGED <<isMonitoring, counting, cancelling>>
    /\ UNCHANGED <<trigger, opMonitoring, pulses>>

FlowPaused ==
    /\ at[Operator] = "pausing_flow"
    /\ Joined(Operator, Flow)
    /\ Call(Operator, "release")
    /\ Goes(Operator, "calling")
    /\ UNCHANGED <<hardware, operatorVars, flowVars, cancelling>>

\* After on_operator_pressed() the handler reads the state once more, with
\* the lock released: if it is active it starts the pump.
StartsPump == job[Operator] = "press" /\ state = "active"

HandlerReturns ==
    /\ \/ at[Operator] = "emit" /\ Finish(Operator)
       \/ Runnable(Operator, "calling") /\ Refuse(Operator)
    /\ IF StartsPump THEN StartPump ELSE UNCHANGED pump
    /\ Goes(Operator, "poll")
    /\ UNCHANGED <<gate, closing, operatorVars, flowVars, cancelling>>

\* The pump refuses to start, for the interlock or for a fault of its own.
PumpFails ==
    /\ at[Operator] = "emit" /\ StartsPump /\ ~ pump
    /\ Finish(Operator)
    /\ Goes(Operator, "failing")
    /\ UNCHANGED <<hardware, operatorVars, flowVars, cancelling>>

ReportFailure ==
    /\ Runnable(Operator, "failing")
    /\ Call(Operator, "error")
    /\ Goes(Operator, "calling")
    /\ UNCHANGED <<hardware, operatorVars, flowVars, cancelling>>

OperatorStep ==
    \/ Press \/ LetGo \/ FlowPaused \/ HandlerReturns \/ PumpFails \/ ReportFailure
    \/ TransferMoves(Operator) \/ TransferEnds(Operator) \/ Unwind(Operator)
    \/ CloseCancelled(Operator) \/ OperatorStopped(Operator) \/ FlowStopped(Operator)

-----------------------------------------------------------------------------
(* The flow monitor and its handlers.                                       *)

\* Mutant: the target has to be exceeded.
DetectEndLate(op) ==
    /\ Runnable(Flow, "poll") /\ isMonitoring
    /\ op = "progress" /\ pulses > Target
    /\ isMonitoring' = FALSE /\ pump' = FALSE /\ gate' = FALSE
    /\ Call(Flow, op) /\ Goes(Flow, "calling")
    /\ UNCHANGED <<closing, operatorVars, counting, pulses, cancelling>>

\* The target is reached, or the flow has been low for too long: the handler
\* stops the pump and closes the gate before it tells the state machine.
DetectEnd(op) ==
    /\ Runnable(Flow, "poll") /\ isMonitoring
    /\ \/ op = "progress" /\ pulses >= Target
       \/ op = "complete_early" /\ pulses > 0
    /\ isMonitoring' = FALSE
    /\ pump' = FALSE
    /\ gate' = FALSE
    /\ Call(Flow, op)
    /\ Goes(Flow, "calling")
    /\ UNCHANGED <<closing, operatorVars, counting, pulses, cancelling>>

Report ==
    /\ Runnable(Flow, "poll") /\ isMonitoring
    /\ pulses < Target
    /\ Call(Flow, "progress")
    /\ Goes(Flow, "report")
    /\ UNCHANGED <<hardware, operatorVars, flowVars, cancelling>>

Reported ==
    /\ Runnable(Flow, "report")
    /\ ReportProgress(Flow)
    /\ Goes(Flow, "emit")
    /\ UNCHANGED <<hardware, operatorVars, flowVars, cancelling>>

Emitted ==
    /\ Runnable(Flow, "emit")
    /\ Goes(Flow, "poll")
    /\ UNCHANGED <<vars, hardware, operatorVars, flowVars, cancelling>>

FlowStep ==
    \/ DetectEnd("progress") \/ DetectEnd("complete_early")
    \/ Report \/ Reported \/ Emitted
    \/ TransferEnds(Flow) \/ Unwind(Flow)
    \/ CloseCancelled(Flow) \/ OperatorStopped(Flow) \/ FlowStopped(Flow)

-----------------------------------------------------------------------------
(* Timeouts, the delayed close, and the world.                              *)

TimerStep(k) ==
    \/ TransferTimesOut(k)
    \/ CloseCancelled(k) \/ OperatorStopped(k) \/ FlowStopped(k)

DelayedClose ==
    /\ closing
    /\ closing' = FALSE
    /\ gate' = FALSE
    /\ UNCHANGED <<vars, pump, operatorVars, flowVars, at, cancelling>>

MoveTrigger ==
    /\ trigger' = ~ trigger
    /\ UNCHANGED <<vars, hardware, pressed, opMonitoring, flowVars, at, cancelling>>

\* The monitor only compares the count with the target, so it is capped there.
Pulse ==
    /\ pump /\ gate /\ counting /\ pulses < Target
    /\ pulses' = pulses + 1
    /\ UNCHANGED <<vars, hardware, operatorVars, isMonitoring, counting, at, cancelling>>

FluidNext ==
    \/ \E c \in Client : StartTransfer(c) \/ AbortTransfer(c) \/ ClientStep(c)
    \/ \E k \in Timer : Lapse(k) \/ TimerStep(k)
    \/ OperatorStep \/ FlowStep
    \/ DelayedClose \/ MoveTrigger \/ Pulse

FluidSpec == FluidInit /\ [][FluidNext]_allVars

\* Every task that can run runs.  Nobody has to press, release, start or
\* abort, and a timeout may be longer than all that happens.
FluidPromptSpec ==
    /\ FluidSpec
    /\ \A c \in Client : WF_allVars(ClientStep(c))
    /\ \A k \in Timer : WF_allVars(TimerStep(k))
    /\ WF_allVars(OperatorStep) /\ WF_allVars(FlowStep)
    /\ WF_allVars(DelayedClose)

\* And every timeout's sleep ends.
FluidFairSpec == FluidPromptSpec /\ \A k \in Timer : WF_allVars(Lapse(k))

-----------------------------------------------------------------------------
(* Correctness.                                                             *)

\* Valve before pump: whoever ends or pauses the transfer, and in whatever
\* order the tasks run, the pump runs only in an active transfer, never against
\* a closed gate nor one that an earlier release's delayed close will shut.
PumpGuarded == pump => gate /\ ~ closing /\ state = "active"

\* Back in the idle state, with the lock free, nothing of the transfer is
\* left: the next start finds closed hardware and no monitor task.
IdleIsQuiet ==
    state = "idle" /\ holder = None =>
        /\ ~ gate /\ ~ pump /\ ~ closing
        /\ ~ opMonitoring /\ ~ isMonitoring /\ ~ counting
        /\ at[Operator] = "rest" /\ at[Flow] = "rest" /\ cancelling = {}

\* The monitors' handlers meet the machine as they were written for: a report
\* of the flow monitor is never refused; no delayed close is pending while the
\* flow is monitored or when a release schedules one; a monitor is never
\* cancelled inside its own transition, with the rest of it left undone; and
\* the two monitors never await each other.
HandlersMeetMachine ==
    /\ Admitted(Flow) /\ Flow \notin cancelling => ~ Refused(job[Flow])
    /\ isMonitoring \/ (pressed /\ at[Operator] = "poll") => ~ closing
    /\ \A x \in cancelling : pc[x] \in {"idle", "queued"}
    /\ ~ (at[Flow] = "stopping_operator" /\ at[Operator] \in {"pausing_flow", "stopping_flow"})

\* Once the monitor has the target's pulses to see, the pump stops, and not
\* only when the limit on the duration ends the transfer.
TargetStopsPump == pump /\ isMonitoring /\ pulses = Target ~> ~ pump

\* Once the trigger is let go the pump stops, unless it is held again.  The
\* handlers see to it, without help of a timeout.
ReleaseStopsPump == pump /\ ~ trigger ~> ~ pump \/ trigger

\* projects/fluid-transfer/README.md line 3: "pulse-based volume tracking".
\* While the pump runs, the flow monitor is on.
PumpIsMetered == pump => isMonitoring

\* docs/architecture.md line 11: the controller "must remain responsive" to
\* command traffic.  Every start_transfer and abort_transfer returns.
CommandsAnswered == \A c \in Client : at[c] = "calling" ~> at[c] = "rest"

\* tests/test_fluid_transfer.py lines 92-93: an abort_transfer() of a live
\* transfer returns "aborted".  Its last step is the return to idle.
AbortEnds == state = "aborted" ~> state = "idle"
=============================================================================
