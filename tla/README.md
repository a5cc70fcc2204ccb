# A TLA+ model of the Embedded Control Framework

This directory models the concurrent core of the repository: the asyncio state
machine that gates a transfer on an operator's trigger
(`embedded_control/process`), the fluid transfer unit built on it
(`fluid_transfer`), the sensor event dispatcher (`embedded_control/sensors`), the
WebSocket router and processor (`embedded_control/websocket`) with the server of
`examples/demo_server.py`, the robot arm's positioning pipeline (`robot_arm`),
and the S-curve profiles (`embedded_control/motion`). TLC checks small instances.
TLAPS proves every safety property of the passing runs for every value of the
constants.

Paths are relative to the repository's `src/` package directory unless they
begin with `docs/`, `tests/`, `projects/` or `examples/`.

## The system

| Component | State it keeps | Operations | Talks to |
|---|---|---|---|
| Gated state machine, `embedded_control/process/state_machine.py` | state, request, progress, three reasons, one `asyncio.Lock`, one timeout task | `start`, `on_operator_pressed`, `on_operator_released`, `update_progress`, `complete_early`, `error`, `abort`, `reset`, the timeout handler | awaits `on_state_change` with the lock held |
| Fluid transfer orchestrator, `fluid_transfer/orchestrator.py` | the active volume | `start_transfer`, `abort_transfer`, five handlers, `_on_state_change`, `_shutdown_hardware` | calls everything in its package, is called back by the machine and both monitors |
| Operator trigger monitor, `operator_trigger_monitor.py` | `is_pressed`, `_monitoring`, its task | start, stop, the polling loop | awaits the orchestrator's handlers in its own task |
| Flow sensor monitor, `flow_sensor_monitor.py` | `is_monitoring`, counts, the start of a low flow, its task | start, stop, pause, resume (never called), the polling loop, cleanup | the same |
| Gate and pump controllers, simulated hardware | gate open, pending delayed close, pump running, pulse count, trigger | open, schedule a close, close at once; start, stop; count | plain calls |
| Request parser, `request_parser.py` | none | `parse` | called by `start_transfer` |
| Sensor dispatcher, `embedded_control/sensors/dispatcher.py` | a queue of at most 1000 events, listeners, a thread, a stop event | start, stop, `enqueue`, the processing loop | polling threads put, the processing thread calls listeners |
| Sensor registry, `sensors/registry.py` | sensors, configurations, groups | `register`, lookups | |
| WebSocket router and processor, `embedded_control/websocket` | handlers sorted by priority | register, unregister, `route`, `process` | handlers, a connection manager |
| Demo server, `examples/demo_server.py` | the list of open connections | one endpoint coroutine per connection, connect, disconnect, `broadcast` | the processor calls its manager back for a broadcast |
| Robot arm, `robot_arm` | axis positions, one stop flag | `move_to_slot` over five stages, the retry loop, `stop_all` | motor driver, feedback, a progress callback |
| Motion profiles, `embedded_control/motion` | none | phases and step counts of an S-curve | |

What is hard about each:

* **State machine.** Commands, monitors and timeouts queue for one FIFO lock.
  The callback is awaited while the lock is held. The timeout handler checks
  no state, so the cancelling has to be right even for a handler that already
  queues for the lock. A raising callback skips the code after the transition.
  It is correct when one timeout at most can fire, and only in the transfer it
  was made for; when every wait has one; and when callers see atomic
  operations.
* **Fluid transfer.** The shutdown runs in whichever task ends the transfer: a
  client, a timeout, or one of the monitors that it cancels and awaits. Each
  cancel-and-await swallows `CancelledError`. The operator's handler reads the
  state again after the lock has been released. It is correct when the pump
  runs only with the gate open and in the active state, when it stops at the
  target and at a release, and when an idle machine has idle hardware.
* **Dispatcher.** A full queue blocks producers; a restart races a thread that
  has not ended; listeners are registered while the thread goes through their
  list. No event may be lost, doubled or overtaken, and a dispatcher that runs
  has to drain its queue.
* **Router and broadcast.** The first capable handler in priority order
  answers, whatever was added and removed before; a `can_handle` that raises ends
  the endpoint. A broadcast awaits between the
  connections of a list that others append to and remove from, and a send that
  fails raises in the sender's endpoint. Nobody may be told twice, a message
  must be done with, and the list has to name those who are served.
* **Robot arm.** Two moves share positions and a stop flag that every motor
  call clears; the retry loop ignores what a move returns. Success has to mean
  arrival, the arm must not travel before it is retracted, and a move must end.
* **Profiles.** Phases must join up and stay within the limits, a ramp must not
  turn back on the way, and the truncated step estimates must add up to the
  steps that were asked for.

`PROJECT.json` lists every hazard at its line, with the properties that cover
it or the reason why none does.

## The modules

**`TransferLifecycle`** is the abstract specification: a phase, the request in
hand, and a deadline. Every operation is atomic. There is no lock, callback or
task. It promises what the code does, so a resumed transfer has no deadline and
the target may be reported after the end.

**`GatedTransfer`** models `GatedTransferStateMachine`. A step is what a task
runs between two suspensions.

| In the module | In the code |
|---|---|
| `state`, `request`, `progress`, `pauseOpen`, `outcome` | the machine's attributes; `progress` says whether the target is reached, `pauseOpen` whether `last_pause_time` is set, `outcome` the three reasons |
| `timeoutTask`, `reason`, `arming` | `_timeout_task`, the reason in each handler's closure, and the timeout that the operation in progress starts after its callback |
| `holder`, `queue` | `self._lock`. A caller that finds it free takes it without a suspension; `Call` followed at once by the operation is that case |
| `pc`, `job` | where each task is suspended, and the operation it has called |
| `Start` ... `Reset`, `Timeout` | an operation from its admission to the await of the callback, `_cancel_timeout` included |
| `ReportProgress`, `Refuse` | an `update_progress` short of the target, and the early returns: no transition |
| `Finish` | the callback returns, the timeout is armed, the lock is released |
| `Withdraw` | a caller is cancelled in the lock's queue |
| `Interrupt` | the callback raises or is cancelled |
| `Reenter` | the callback calls the machine and waits for its own task's lock |

`MayFail` allows `Withdraw` and `Interrupt`, `Reentrant` allows `Reenter`.

**`FluidTransfer`** extends it with the orchestrator, both monitors, the gate,
the pump and the flow sensor. Clients, the two monitor tasks and the timeouts
are the tasks of `GatedTransfer`; each action of the composition is an action
of `GatedTransfer` together with what the handler around it does. `at` says
where a task is in the orchestrator, `cancelling` which monitor tasks a
cancellation is about to end. `_shutdown_hardware` is the sequence
`BeginShutdown`, `CloseCancelled` (only if a delayed close was pending),
`OperatorStopped`, `FlowStopped`, run by any task. A task in one of the `Joins`
awaits another task inside `try ... except CancelledError: pass` and loses a
cancellation of its own; a task that awaits itself goes on. After any ending but
an abort `FlowStopped` calls `reset()` inside the callback: `Reenter`.

A volume is a number of pulses, at least one. The pump may fail to start for
the interlock or for a fault of its own. `on_status_update` is a callback that
returns. `_finalize` has no action: the update before it always ends the
transfer (`HandlersMeetMachine`: the flow monitor's reports are never refused),
and that ends in the shutdown and a `reset()` that does not return.
`resume_monitoring` has none because nothing calls it.

**`EventChannel`** is the abstract dispatcher: a channel with bounded room that
delivers what it accepts, once and in order.

**`SensorDispatch`** models `EventDispatcher` with real threads: a step is an
access to the queue, to the stop event or to a list, or a listener's call.

| In the module | In the code |
|---|---|
| `eventQueue`, `listeners`, `thread`, `stopEvent` | `event_queue`, `listeners` and `global_listeners`, `processing_thread`, `_stop_event` |
| `owner` | the thread that starts and stops the dispatcher, which is taken to be one, and whether it waits in `join` |
| `pending`, `Enqueue`, `Put` | a polling thread inside `enqueue`, and the moment `put` succeeds |
| `at`, `inHand`, `next` | a processing thread's place in `_process_events`, the event it has taken, and its position in the list it goes through |
| `LookUp`, `ListOf` | `self.listeners.get(...)`, asked once for each event, and the list in progress. A sensor without listeners gives an empty list of the thread's own, which a registration in the meantime does not reach |
| `GetTimesOut`, `JoinReturns` | the 0.1 s of a `get` on an empty queue, and a `join` that ends or gives up after 2 s |
| `accepted`, `handled`, `heard`, `since` | history only |

A thread that has ended can be used again as a new one. What a listener raises
is swallowed by `_safe_call`, so a call simply returns. A listener is registered
once: registered twice, the code calls it twice. `ImplementsChannel` maps the
channel's room to the queue's capacity plus the event in hand.

**`RobotArm`** models `MultiStageMotionOrchestrator`, `MotionStageExecutor`,
`PositioningRetryHandler` and the simulated driver. A task runs until it sleeps
after a motor step (`turn`); `Command` begins a motor call and clears the stop
flag, `Advance` is a step and a sleep, `Arrive`, `Halt` and `Raise` end the
call. `EnterStage`, `MoveHorizontal`, `Lifted` and `Verify` are the pipeline and
the retry loop between the calls; `Fail` is a failed stage with its `stop_all`.
`StopAll` is a `stop_all` by anybody else. Nothing in the repository runs two
moves at once, but nothing prevents it either: the orchestrator is asynchronous
and has no lock, so the model has several callers. `Raise` stands for a driver
other than the simulated one.

**`MessageRouter`** models `MessageRouter` and the part of `MessageProcessor`
that fills it. It has no processes of its own: `route()` finds its handler
without a suspension.

| In the module | In the code |
|---|---|
| `handlers` | `_handlers` |
| `order` | history: the registrations in force, in the order they were made |
| `Register`, `Unregister` | `add_handler`, `remove_handler`; the length of the list is bounded by `MaxHandlers` in the guard of `Register` |
| `Placed`, `Without` | `append` followed by the stable `sort`; `list.remove` of the first occurrence |
| `Accepts`, `Raises`, `Chosen` | the `can_handle` of each handler, and where the loop of `route()` stops |
| `Audiences` | whether a handler's response is broadcast, and to whom |

A message is a ping, a health request, JSON that is neither object nor null
(`"scalar"`), or any other text. Only the health handler tells the last two
apart: its `can_handle` raises on a scalar.

**`DemoServer`** extends it with the endpoints and the connection manager. A step
is what an endpoint runs between two suspensions.

| In the module | In the code |
|---|---|
| `active` | `active_connections` |
| `sock` | the socket as the server library knows it: the client there, gone, noticed to be gone by a failed send, closed |
| `at` | where each endpoint is suspended; `"crashed"` if an exception other than `WebSocketDisconnect` has ended it |
| `casting`, `cursor` | the response's audience, and the index of the `for` loop in `broadcast` |
| `roster`, `told` | history: the list when the broadcast began, and whom it was sent to; a connection that leaves is taken out of both and leaves its place in `roster` empty |
| `Connect`, `Accepted`, `AcceptFails`, `Leave` | a connection arrives, `connect()` lists it or fails, the client goes |
| `Receive`, `RouteRaises`, `Disconnected` | `receive_text()` and `route()` as far as the await of `handle()`; a raising `can_handle`; `disconnect()` |
| `Reply`, `ReplyFails` | the response is sent to its client, or the send raises |
| `BeginBroadcast`, `Tell`, `TellRaisesDisconnect`, `TellRaises` | `broadcast`: the first step, a send, and the two ways it raises, both in the sender's endpoint |
| `Resume` | `process()` has returned, the loop calls `receive_text()` again |
| `ChangeHandlers` | the application adds or removes a handler |

The server library is external. What is assumed of it is in the module's head:
a send to a client that has gone may go nowhere or raise `WebSocketDisconnect`,
which makes the socket unusable; using an unusable or a closed socket raises
`RuntimeError`; `receive_text()` raises once the client has gone; the library
closes the socket of an endpoint that has ended. The identity of a connection
whose endpoint has ended with `disconnect()` is used again for a new one at once,
also while a broadcast is under way that has told the old one, so clients can
come, be told, leave and come again for ever. Only connections in `Sender` send
messages; the others come, are told, and leave.

`RouteRaises` is what a message that is valid JSON but no object does:
`HealthHandler.can_handle` calls `get()` on it (`handlers/health.py:20`) outside
the `try` of `route()` (`router.py:43`). The `AttributeError` ends the endpoint,
which catches `WebSocketDisconnect` only (`demo_server.py:62`), and the echo
handler, "Fallback handler for unrecognized messages." (`handlers/echo.py:1`), is
never asked. The closed connection stays listed and ends the endpoint of each
later broadcast's sender. `ListedOnce` says that such connections are the only
ones listed unserved.

**`MotionProfile`** models `calculate_s_curve_profile` and
`get_frequency_at_step_ratio` with the phase builder and the curve functions.
`Calculate` makes a profile, and `Advance` is the pulse generator, external,
that looks the frequency up as it goes along it. Frequencies are in 1/120 Hz and
times in 1/6 ms, rounded down to whole units where the code's floats are rounded
in the last place. For the run's inputs all of them are exact, so that no
division but the code's own truncations loses anything. The cosine is known
where it is rational, at the thirds and the middle of a phase; these are the
points `Advance` stops at.

`MCDemoServer` and `MCMotionProfile` give handlers and inputs, `MCRobotArm` the
slots. `MCGatedTransfer` and `MCFluidTransfer` add the symmetry of the
interchangeable tasks. The `_proofs` modules hold the theorems.
Definitions headed "Mutant" are faulty versions of the operator that follows
them; no specification uses them, and each makes one property fail.

## The runs

| Run | Instance | Shows |
|---|---|---|
| `gated_safety` | 2 callers, 2 timeouts, 1 request, everything may fail; 58,872 states | `TypeOK`, `LockOK`, `NoStaleTimer`, `LiveRecord` |
| `gated_liveness` | the same size, callbacks return; 108,000 states | `WaitTimed`, `EveryCallReturns`, `WaitEnds`, `ImplementsLifecycle` |
| `fluid_transfer` | 2 clients, both monitors, 2 timeouts, a target of 2 pulses; 628,338 states | `FluidTypeOK`, `PumpGuarded`, `IdleIsQuiet`, `HandlersMeetMachine`, `TargetStopsPump`, `ReleaseStopsPump` |
| `fluid_commands` | the same with 1 client | `CommandsAnswered` is violated |
| `fluid_abort` | the same with 1 client | `AbortEnds` is violated |
| `fluid_metered` | as `fluid_transfer` | `PumpIsMetered` is violated |
| `sensor_dispatch` | 2 sensors, 2 listeners, 2 polling threads, 2 threads, a queue of 1, 2 events; 136,116 states | `TypeOK`, `OneThread`, `Conserved`, `HeardInFull`, `RunningDelivers`, `ImplementsChannel` |
| `sensor_restart` | 1 sensor, 1 listener, 1 polling thread, 4 events | `PollingGoesOn` is violated |
| `robot_arm` | 2 tasks, slots A1 and B2, 2 retries; 33,950 states | `TypeOK`, `ArrivedOnSuccess`, `UndisturbedSucceeds`, `TravelsRetracted`, `MoveEnds` |
| `arm_clearance` | 1 task | `TravelsAtClearance` is violated |
| `demo_server` | 3 connections, 2 of which send, at most 4 handlers, one of them added and removed, with the health handler's priority; 201,728 states | `TypeOK`, `AnsweredByPriority`, `ListedOnce`, `ToldOnce`, `MissedForGone`, `ProcessingEnds` |
| `motion_profile` | 972 combinations of limits, target, ramps, jerk and steps; 26,221 states | `Envelope`, `RampsUpThenDown`, `TakesGivenSteps` |

**Bounds.** No counter is bounded by a guard in `GatedTransfer`: its state space
is finite. Two callers and a timeout are enough for three tasks in the queue and
for any order between two operations and a timeout. At most one timeout can fire
(proved), and a task that has ended can be used again, so two identities suffice
for a timeout that replaces a running one. A transfer's identity matters only
as "a request or None", so one request stands for all. In `FluidTransfer` the
count is capped at `Target`, because the monitor only compares it with the
target; two pulses give a state below and above zero short of the target. Two
clients are needed for an abort or a start during another command's shutdown.

In `SensorDispatch` the events put are bounded by `MaxEvents`, in the guard of
`Enqueue`. With a queue of 1, two events fill it, block a polling thread and put
an event in a thread's hand; the same properties hold for 3 events with one
polling thread (642,380 states). Two listeners make a list that grows while it
is gone through, and two thread identities let a second thread run beside the
first if `start_processing` allowed it. In `RobotArm` the unit is 50, so the
slots, the clearance heights and the retracted height are the code's; a step of
100 at speed 2 jumps over the goal and back, which is the hardest case in which
a move still ends. Two slots that differ in both axes and in level give every
branch, and a second task gives every disturbance.

In `DemoServer` three connections are the fewest of which one sends, one leaves
and one is shifted by that in the list. `Conn` bounds how many there are at a
time, not how many come; `Sender` bounds the broadcasts at a time, and two of
them walk one list that each other's endings change. `MaxHandlers` lets the added handler be
there once besides the three defaults, before and after it was removed; two of
one priority show that the sort is stable. (Longer lists and a handler that is
there twice are left to the proof.) In `MotionProfile` the minimum is 0,
20 or 40 Hz and the maximum 100 Hz, with targets below, between, near the
minimum and above; ramps of 0.1, 0.5 and 1 s, both shorter and longer than the
code's least phase; jerk ratios that give no jerk, some, and no linear part; and
0, 50 or 200 steps, so that there is a cruise or none. The constants are chosen
so that the arithmetic is exact; the theorems do without that.

**Fairness.** The event loop runs every task that can run, and a sleep ends:
weak fairness of each task's own steps, of `Expire`, and of the delayed close.
`FluidPromptSpec`, which `fluid_transfer` uses, does not promise that a
timeout's sleep ends: the pump has to be stopped by the monitors' handlers, not
by the limit on the duration. `FluidFairSpec` adds it for `fluid_commands` and
`fluid_abort`. Nobody is obliged to press, release, start or abort, callers need not call, and
neither `Withdraw` nor `Interrupt` has to happen. In `SensorDispatch` the
scheduler runs each thread that can run, and listeners and joins return; nobody
has to start the dispatcher, so `RunningDelivers` is about one that stays
started. In `RobotArm` sleeps end; nobody has to stop anything or stop stopping,
so `MoveEnds` holds even if the arm is stopped again and again. In `DemoServer`
the event loop runs each endpoint that can run, handlers return and sends end
(weak fairness of `Process` for each connection); clients need not connect, send
or leave, so `ProcessingEnds` is about messages that have been received.
`MotionProfile` has no liveness property and no fairness.

`ProcessingEnds` also assumes that the connections open at a time are bounded, by
the size of `Conn`, however many come and go in the end. The loop of a broadcast
then reaches the end of the list, since each connection that joins takes the
place of one that has left. Without such a bound it need not: if a client
connects during every send (`demo_server.py:33-36` awaits in each round) and none
leaves, the list grows as fast as the loop walks and the broadcast goes on for
ever. The code does not bound its connections, so this is an assumption about
its clients.

In `gated_liveness` `MayFail` and `Reentrant` are off: with a callback that calls
back in, or that raises before a timeout is armed, the liveness properties do
fail, and `fluid_commands` shows where the repository's own callback does that.

**Deadlock** is checked in all passing runs.

### What the violated properties show

* `CommandsAnswered`: `_on_state_change` calls `reset()` (`orchestrator.py:159`)
  while `_transition_to` awaits it under the lock. The lock is not reentrant, so
  after a completed, failed or timed out transfer every command waits for ever.
  `docs/architecture.md:11` wants the controller responsive to commands.
* `AbortEnds`: an abort stops the operator monitor while that task stops the
  flow monitor for a release. The task loses its cancellation
  (`flow_sensor_monitor.py:71`) and queues for the lock that the abort holds
  while it awaits that task. `tests/test_fluid_transfer.py:92-93` expects the
  abort to return.
* `PumpIsMetered`: a resume starts the pump but not the flow monitor
  (`orchestrator.py:112-120`), so the target is not seen. The project's README
  (`projects/fluid-transfer/README.md:3`) promises pulse-based volume tracking.
* `PollingGoesOn`: a listener holds the thread for longer than the join of
  `stop_processing` waits. The `start_processing` that follows finds the thread
  alive and returns (`dispatcher.py:39`) with the stop event set; the thread
  then ends. The queue fills up and `enqueue` blocks a polling thread for ever,
  which `docs/architecture.md:99` says consumers should not do.
* `TravelsAtClearance`: `VERTICAL_ALIGN` moves both axes, first to the slot's
  height and then sideways (`stage_executor.py:35-36`, `retry.py:42-43`), so the
  arm leaves the clearance height before it travels, and the
  `HORIZONTAL_ALIGN` that follows finds it at the slot. `stage_executor.py:65`
  says "Move to shared clearance height before horizontal travel.", and
  `projects/robot-arm/README.md:19` and `:54` speak of a shared transit height
  and a clearance zone. The property is stated for moves that nobody disturbs,
  so no stop and no other move is to blame. `TravelsLevel` proves what the code
  does instead.

`TargetStopsPump` is stated for a pump that is monitored because of
`PumpIsMetered`. A resumed transfer has no limit on its duration either: the
resume starts no timeout (`state_machine.py:134-140`), and `TransferLifecycle`
says so. Then only the operator's release or an abort stops the pump.

## What is proved

`GatedTransfer_proofs` holds for all finite or infinite `Caller`, `Timer` and
`Request`, from `ConstantsAssumption` alone: callers and timeouts are different
tasks, `None` is none of them, and the two flags are Booleans.

* `TypeCorrect`, `LockCorrect`: `TypeOK /\ LockOK` is inductive. The lemmas
  before them say what joining, leaving and serving the queue do to its
  elements, and that it stays without repetition.
* `NoTimerIsStale`, `TimeoutsEndLive`: `NoStaleTimer` is not inductive by
  itself, since `Finish` arms a timeout after the transition. `TimerInv` adds
  that a timeout about to be armed is for a live state (`ArmingLive`). Every
  operation that cancels then leaves no timeout that ticks (`CancelTicks`);
  `Release` keeps one until `Finish` replaces it; the timeout that has the lock
  is the remembered one, so the state it ends is live.
* `LiveRecordCorrect`: `RecordInv` adds that an idle machine carries no reason
  and that progress and request exist together.
* `WaitsAreTimed`, `TimeoutsAreDue`: assume `~ MayFail`. `DeadlineInv` says that
  a wait whose lock is held is about to get its timeout, and that a timeout,
  running or about to be armed, has the reason of the state.
* `LifecycleImplemented`: assumes `~ MayFail`. Under the refinement of
  `Deadline`, the initial states are `TransferLifecycle`'s, each transition is
  its atomic operation, and every other step stutters.

The assumption `~ MayFail` is needed: a callback that raises in `start` leaves a
wait without a timeout. All but the last three theorems do without it, and none
assumes anything of `Reentrant`.

`SensorDispatch_proofs` assumes `DispatchAssumption`: finitely many polling
threads, a queue that holds at least one event, `None` and `Everywhere` are
nothing else.

* `TypeCorrect`, `ThreadIsOne`: `ThreadInv` adds to the two properties that a
  thread has an event in hand exactly while it is at the listeners (`HandOK`) and
  that the events put and being put stay within the bound (`Bounded`).
* `ConservedCorrect`: each step moves one event from one part of
  `handled \o Taken \o eventQueue` to the next. `OneThread` is needed, since
  `Taken` looks at one thread only.
* `ChannelImplemented`: `Put` is the channel's `Accept`, `Done` its `Deliver`,
  every other step stutters. This is the whole of `ImplementsChannel`.

`RobotArm_proofs` assumes `ArmAssumption`: lengths are integers, step and speed
are positive.

* `TypeCorrect`, `RetractedBeforeTravel`: `ArmInv` adds to the types that only
  the third and later stages move sideways, and that a move which has left its
  retract stage has been at a safe height. A stopped or raising motor call does
  not leave it, and what others do to the arm does not matter.
* `SuccessIsArrival`: the last stage compares the position with the slot and
  returns with no suspension in between; no other step reports success.
* `TravelsLevel`, `UndisturbedMoveSucceeds`: the first is about
  `TravelsAtSlotHeight`, defined beside it: a move that nobody disturbs travels
  sideways at its slot's height, whatever the clearance heights are. `CalmInv` says of a move that nobody
  has disturbed that it is not stopped, that each motor call that has arrived is
  at its goal, and that an aligning stage moves sideways only at the slot's
  height. A step of another task either disturbs the move or leaves all this
  alone (`LeftAlone`). The second theorem assumes tolerances that are not
  negative: otherwise arrival at the goal is not enough for the retry loop.

`HeardCorrect`, also in `SensorDispatch_proofs`: `HearInv` says what the kth
listener of a list has heard in the middle of a dispatch. It has heard all that
is done, and the event in hand exactly if the thread has passed position k
(`Due`). A listener that is appended while the thread goes through its list is
due for an event that was put before it was registered: it hears that one too,
and none twice. The first listener of a sensor is not, if the thread has asked
for the list before: it then goes through an empty one of its own (`LookUp`).

`MessageRouter_proofs` assumes `RouterAssumption`: the handlers are different
ones, and the three defaults have the priorities of the code. Its invariant
`RouterInv` says that the list is the registrations in force, sorted by priority
and stably. That `Placed` keeps it rests on what `InsertAt` and `Without` do to
the elements of a list; that the first capable handler of such a list is the
right one rests on a set of numbers having a least element, which comes from
`NatLessThanWellFounded`.

`DemoServer_proofs` adds `ServerAssumption`: the handlers that change are
handlers, and `None` is no connection. It assumes nothing of `Sender`.

* `TypeCorrect`, `ListedCorrect`: together they are inductive.
* `PriorityAnswers`: every step of the server keeps `RouterInv`.
* `ToldCorrect`: `ToldInv` adds that those told are not listed, or listed before
  the position of the loop. What leaves the list only moves the others forward,
  and what joins it goes to the end. A connection that leaves is forgotten, so one
  that comes back under its identity is a new one (`Known`).
* `MissedCorrect`: `LostInv` adds that the roster is in the order of the list,
  that whoever the loop has passed without telling it is behind the empty place
  of one that has left, and that there are not more of them than such places.

`FluidTransfer_proofs` assumes `FluidAssumption`: the callers are the clients and
the two monitor tasks, which are different.

* `RunsTheMachine`: each action of the composition is a step of `GatedTransfer`
  or leaves it alone, so all theorems of the machine that do not assume
  `~ MayFail` hold in it, `TimerInv` among them.
* `FluidTypeCorrect`.
* `PumpIsGuarded`, `IdleCorrect`: neither is inductive. `FluidInv` adds where a
  task can be in the orchestrator given what it does in the machine (`Places`);
  that one task at most ends and resets a transfer, in a state that has ended
  (`EndedInv`); that a client which has started a transfer finds it still
  waiting, and all hardware off, until it has started the monitors (`EmitStart`,
  `QuietInv`); that a cancelled monitor runs (`CancelInv`); that during a release
  the pump is off already, and during a press no close is pending (`PumpInv`).
  `IdleIsQuiet` needs what each step of
  the shutdown has turned off so far (`Stopped`), until the reset at its end.

* `HandlersCorrect`: a handler takes the machine and the hardware to be in a
  state that another task could have changed while it waited for the lock. Four
  invariants on top of `FluidInv` say why none has:
  * `CloseInv`: a delayed close is pending only from a release, which has stopped
    the flow monitor, to the next press, which takes it back.
  * `MeterInv`: a flow monitor that calls the machine has turned itself off. A
    cancelled monitor sleeps or waits for the lock, so a cancellation never
    lands inside a transition, and a task that joins another is never cancelled
    itself. That is why the two monitors cannot wait for each other.
  * `OrderInv`: a release that finds the flow monitor off does not stop it, so
    the monitor's decision, made before, is still to come; it is ahead of the
    release in the lock's queue. Served first, it finds the transfer active.
    This is where the order of the queue matters: `BeforeJoin`, `BeforeServe`
    and `BeforeLeave` say that joining, serving and leaving keep two tasks in
    order.
  * `ReportInv`: a pulse is counted only after the press, progress is kept until
    the reset, and a transfer that has ended keeps its lock until the flow
    monitor's task has ended, so that a report finds a progress to update.

`LockIsFair`, in `GatedTransfer_proofs`, is the same lemmas as an action property
of the machine: of two tasks that go on waiting, neither overtakes the other,
whatever callers are cancelled, callbacks raise and handlers call back in.

`MotionProfile_proofs` assumes `MotionAssumption`: limits, targets, times and
steps are natural numbers, the lower limit is not above the upper one and a jerk
ratio is at most 100 percent. So it covers the profiles that the run leaves out
because their quantities are no whole units. `ProfileIs` says that six or seven
phases, each of a positive duration, follow each other without a gap in time or
frequency; it rests on the two shapes that a profile can have.

* `MotionInvHolds`: the frequency in use is the one looked up at the
  generator's place (`MotionInv`). The lookup's `CHOOSE` has a unique result
  inside a profile, since phases do not overlap and of two that meet the first
  is asked (`Lookup`).
* `EnvelopeKept`: a looked-up frequency lies between the ends of its phase, which
  are the minimum, the target, or one of the two points where a ramp turns.
* `RampsKept`: each end of a phase is a sample, so a step stays within one phase
  (`NextSample`), and a curve goes in one direction.
* `StepsTakenAsGiven`: a profile is its ramps and its cruise (`ProfileArea`). The
  cruise is short of the steps given by twice the truncated acceleration, so
  less than two steps are gained, less than one unit of the clock is lost, and
  the difference between the ramps is left over. Without room for the ramps there
  is no cruise.

Only model-checked: everything under fairness, which is outside the prover's
reach: `TargetStopsPump`, `ReleaseStopsPump`, `RunningDelivers`, `MoveEnds`,
`ProcessingEnds`, `EveryCallReturns`, `WaitEnds` and the fairness part of
`ImplementsLifecycle`. The runs that expect a violation check what the code does
not keep; there is nothing to prove about it.

## Not modelled

Clock readings, so `elapsed_time` and the moment a timeout fires (any time);
quantities, rates and statistics; the wording of statuses and replies; pump
speed; the simulated flow rate (a low flow may be found at any time once a pulse
was counted); the truncation of a volume to pulses, a product of floats (the
target may be any number of pulses); `get_status`, which changes nothing. The
request parser is a pure validation: what passes it is a member of `Request`.
The sensor registry and the simulated sensor: a catalogue filled at start-up and
a polling thread whose only effect is `enqueue`; a module of the registry would
repeat its assignments. An event's readings: only its sensor and its place in
the order matter. A `get_listener_id` that raises, which would end the dispatch
of an event early. The durations and progress callbacks of the robot arm. The
router's `clear_handlers`, which nothing calls, and the server's two HTTP
routes, which only read. The rounding of floats in the profiles and the
cosine between the points named above.

Two things the robot arm does are not stated as properties, because the code
promises nothing: two moves to different slots can pull the arm back and forth
without end, and a stop is taken back by the next motor call, be it of another
task or of the retry loop itself (`retry.py:42-43` ignore that a motor call was
stopped).

## Plan

Done, most important first: `TransferLifecycle`, `GatedTransfer`,
`FluidTransfer`, `EventChannel`, `SensorDispatch`, `RobotArm`, `MessageRouter`
with `DemoServer`, and `MotionProfile`, all with proofs.

What could come next:

1. `TransferClock`: what `elapsed_time` reports across pauses.
2. A repaired transfer (reset after the callback, a stop that lets its caller's
   cancellation through, a resume that starts the flow monitor) for which
   `CommandsAnswered`, `AbortEnds` and `PumpIsMetered` hold.
3. An abstract transfer unit, with the valve and the pump as the operator sees
   them, that `FluidTransfer` implements, as `GatedTransfer` does
   `TransferLifecycle`.
