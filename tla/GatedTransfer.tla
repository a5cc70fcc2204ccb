---------------------------- MODULE GatedTransfer ----------------------------
(****************************************************************************)
(* GatedTransferStateMachine (process/state_machine.py): the asyncio state  *)
(* machine that gates a transfer on an operator trigger.                    *)
(*                                                                          *)
(* Every public coroutine runs under one asyncio.Lock, which is FIFO and    *)
(* not reentrant.  _transition_to awaits the on_state_change callback with  *)
(* the lock HELD, and the code after it (the arming of a timeout) runs      *)
(* when the callback returns.  A timeout is a task of its own: it sleeps,   *)
(* then queues for the same lock.  Cancelling it before it has the lock     *)
(* makes it vanish.                                                         *)
(*                                                                          *)
(* A step is what a task runs from one suspension to the next.  Clock       *)
(* readings and quantities are abstracted: progress is below the target or  *)
(* has reached it, a pause is open or not, a sleep may end at any time.     *)
(****************************************************************************)
EXTENDS Naturals, Sequences, SequencesExt

CONSTANTS
    Caller,      \* tasks that call the public coroutines
    Timer,       \* identities for timeout tasks
    Request,     \* the requests start() may be given
    None,        \* Python's None
    MayFail,     \* callers may be cancelled and callbacks may raise
    Reentrant    \* the callback may call the state machine again

Task == Caller \cup Timer

ProcessState == {"idle", "waiting_operator", "active", "paused",
                 "completed", "error", "timeout", "aborted"}
Live == {"waiting_operator", "active", "paused"}

Operation == {"start", "press", "release", "progress", "complete_early",
              "error", "abort", "reset"}
TimerReason == {"operator_wait", "operator_pause", "max_duration"}

ASSUME ConstantsAssumption ==
    /\ Caller \cap Timer = {}
    /\ None \notin Task \cup Request \cup TimerReason
    /\ MayFail \in BOOLEAN
    /\ Reentrant \in BOOLEAN

VARIABLES
    state,        \* self.state
    request,      \* self.current_request
    progress,     \* self.progress: "none", "short" of the target, "reached"
    pauseOpen,    \* progress.last_pause_time is not None
    outcome,      \* timeout_reason, completion_reason and abort_reason
    timeoutTask,  \* self._timeout_task
    reason,       \* the reason each timeout task was created with
    holder,       \* the task that holds self._lock
    queue,        \* the tasks waiting for self._lock, first come first served
    pc,           \* where each task is suspended
    job,          \* the operation each caller has called
    arming        \* the timeout the holder starts when the callback returns

machineVars == <<state, request, progress, pauseOpen, outcome>>
vars == <<machineVars, timeoutTask, reason, holder, queue, pc, job, arming>>

Outcome == [timeout : TimerReason \cup {"message", None},
            completion : {"target_reached", "low_throughput", None},
            abort : {"user_request", None}]
NoOutcome == [timeout |-> None, completion |-> None, abort |-> None]

MachineTypeOK ==
    /\ state \in ProcessState
    /\ request \in Request \cup {None}
    /\ progress \in {"none", "short", "reached"}
    /\ pauseOpen \in BOOLEAN
    /\ outcome \in Outcome

TaskTypeOK ==
    /\ timeoutTask \in Timer \cup {None}
    /\ reason \in [Timer -> TimerReason]
    /\ holder \in Task \cup {None}
    /\ queue \in Seq(Task)
    /\ pc \in [Task -> {"idle", "sleeping", "queued", "callback", "stuck"}]
    /\ job \in [Caller -> Operation]
    /\ arming \in TimerReason \cup {None}

TypeOK == MachineTypeOK /\ TaskTypeOK

Init ==
    /\ state = "idle"
    /\ request = None
    /\ progress = "none"
    /\ pauseOpen = FALSE
    /\ outcome = NoOutcome
    /\ timeoutTask = None
    /\ reason = [k \in Timer |-> "operator_wait"]
    /\ holder = None
    /\ queue = <<>>
    /\ pc = [t \in Task |-> "idle"]
    /\ job = [c \in Caller |-> "reset"]
    /\ arming = None

-----------------------------------------------------------------------------
(* The lock, and the timeout task.                                          *)

\* c calls an operation and asks for the lock.  When the lock is free the
\* code takes it without suspending: Admitted(c) is then enabled at once.
Call(c, op) ==
    /\ pc[c] = "idle"
    /\ pc' = [pc EXCEPT ![c] = "queued"]
    /\ job' = [job EXCEPT ![c] = op]
    /\ queue' = Append(queue, c)
    /\ UNCHANGED <<machineVars, timeoutTask, reason, holder, arming>>

\* t is the task the free lock goes to.
Admitted(t) ==
    /\ holder = None
    /\ queue # <<>>
    /\ Head(queue) = t

Runs(c, op) == Admitted(c) /\ job[c] = op

\* _cancel_timeout forgets the task and cancels it unless it is done: asleep
\* or in the lock's queue, it leaves.
\* Mutant: a cancelled waiter stays in the queue.
LeaveNobody(q, t) == q

Leave(q, t) ==
    IF Contains(q, t)
    THEN RemoveAt(q, CHOOSE i \in 1..Len(q) : q[i] = t)
    ELSE q

\* _transition_to as far as the await of the callback, by the new holder t;
\* "gone" is the _timeout_task cancelled before it, or None.
Transition(t, s, arm, gone) ==
    /\ state' = s
    /\ holder' = t
    /\ arming' = arm
    /\ queue' = Leave(Tail(queue), gone)
    /\ pc' = [u \in Task |-> CASE u = t -> "callback"
                               [] u # t /\ u = gone -> "idle"
                               [] OTHER -> pc[u]]
    /\ timeoutTask' = IF gone = None THEN timeoutTask ELSE None
    /\ UNCHANGED <<reason, job>>

\* The callback returns to t.  The timeout the operation asks for replaces
\* the one still running, and the lock is released.
Finish(t) ==
    /\ pc[t] = "callback"
    /\ holder' = None
    /\ arming' = None
    /\ IF arming = None
       THEN /\ pc' = [pc EXCEPT ![t] = "idle"]
            /\ UNCHANGED <<timeoutTask, reason, queue>>
       ELSE \E k \in Timer :
            /\ pc[k] = "idle"
            /\ pc' = [u \in Task |-> CASE u = k -> "sleeping"
                                       [] u # k /\ u \in {t, timeoutTask} -> "idle"
                                       [] OTHER -> pc[u]]
            /\ queue' = Leave(queue, timeoutTask)
            /\ timeoutTask' = k
            /\ reason' = [reason EXCEPT ![k] = arming]
    /\ UNCHANGED <<machineVars, job>>

\* The sleep of a timeout task ends, and it asks for the lock.
Expire(k) ==
    /\ pc[k] = "sleeping"
    /\ pc' = [pc EXCEPT ![k] = "queued"]
    /\ queue' = Append(queue, k)
    /\ UNCHANGED <<machineVars, timeoutTask, reason, holder, job, arming>>

-----------------------------------------------------------------------------
(* The operations, each from its admission to the await of the callback.    *)

\* Mutant: the wait for the operator gets no timeout.
StartUntimed(c) ==
    /\ Runs(c, "start") /\ state = "idle"
    /\ request' \in Request /\ progress' = "short" /\ pauseOpen' = FALSE
    /\ Transition(c, "waiting_operator", None, None)
    /\ UNCHANGED outcome

Start(c) ==
    /\ Runs(c, "start")
    /\ state = "idle"
    /\ request' \in Request
    /\ progress' = "short"
    /\ pauseOpen' = FALSE
    /\ Transition(c, "waiting_operator", "operator_wait", None)
    /\ UNCHANGED outcome

PressToStart(c) ==
    /\ Runs(c, "press")
    /\ state = "waiting_operator"
    /\ Transition(c, "active", "max_duration", timeoutTask)
    /\ UNCHANGED <<request, progress, pauseOpen, outcome>>

\* Mutant: the resume leaves the pause open.
ResumeKeepingPause(c) ==
    /\ Runs(c, "press") /\ state = "paused" /\ progress # "none"
    /\ Transition(c, "active", None, timeoutTask)
    /\ UNCHANGED <<request, progress, pauseOpen, outcome>>

\* The resume closes the pause and cancels its timeout; it starts none.
PressToResume(c) ==
    /\ Runs(c, "press")
    /\ state = "paused"
    /\ progress # "none"
    /\ pauseOpen' = FALSE
    /\ Transition(c, "active", None, timeoutTask)
    /\ UNCHANGED <<request, progress, outcome>>

\* Mutant: the pause cancels the timeout and gets none.
ReleaseUntimed(c) ==
    /\ Runs(c, "release") /\ state = "active"
    /\ pauseOpen' = (progress # "none" \/ pauseOpen)
    /\ Transition(c, "paused", None, timeoutTask)
    /\ UNCHANGED <<request, progress, outcome>>

Release(c) ==
    /\ Runs(c, "release")
    /\ state = "active"
    /\ pauseOpen' = (progress # "none" \/ pauseOpen)
    /\ Transition(c, "paused", "operator_pause", None)
    /\ UNCHANGED <<request, progress, outcome>>

\* update_progress reads no state: it completes the transfer from any.
ReachTarget(c) ==
    /\ Runs(c, "progress")
    /\ progress # "none"
    /\ progress' = "reached"
    /\ outcome' = [outcome EXCEPT !.completion = "target_reached"]
    /\ Transition(c, "completed", None, timeoutTask)
    /\ UNCHANGED <<request, pauseOpen>>

CompleteEarly(c) ==
    /\ Runs(c, "complete_early")
    /\ state = "active"
    /\ outcome' = [outcome EXCEPT !.completion = "low_throughput"]
    /\ Transition(c, "completed", None, timeoutTask)
    /\ UNCHANGED <<request, progress, pauseOpen>>

\* Mutant: the error leaves the timeout running.
ErrorKeepingTimeout(c) ==
    /\ Runs(c, "error")
    /\ outcome' = [outcome EXCEPT !.timeout = "message"]
    /\ Transition(c, "error", None, None)
    /\ UNCHANGED <<request, progress, pauseOpen>>

Error(c) ==
    /\ Runs(c, "error")
    /\ outcome' = [outcome EXCEPT !.timeout = "message"]
    /\ Transition(c, "error", None, timeoutTask)
    /\ UNCHANGED <<request, progress, pauseOpen>>

\* Mutant: the abort leaves the timeout running.
AbortKeepingTimeout(c) ==
    /\ Runs(c, "abort") /\ state \in Live
    /\ outcome' = [outcome EXCEPT !.abort = "user_request"]
    /\ Transition(c, "aborted", None, None)
    /\ UNCHANGED <<request, progress, pauseOpen>>

Abort(c) ==
    /\ Runs(c, "abort")
    /\ state \in Live
    /\ outcome' = [outcome EXCEPT !.abort = "user_request"]
    /\ Transition(c, "aborted", None, timeoutTask)
    /\ UNCHANGED <<request, progress, pauseOpen>>

Reset(c) ==
    /\ Runs(c, "reset")
    /\ request' = None
    /\ progress' = "none"
    /\ pauseOpen' = FALSE
    /\ outcome' = NoOutcome
    /\ Transition(c, "idle", None, timeoutTask)

\* Mutant: _start_timeout is given its state and reason in the wrong order.
TimeoutSwapped(k) ==
    /\ Admitted(k)
    /\ outcome' = [outcome EXCEPT !.timeout = "message"]
    /\ Transition(k, reason[k], None, None)
    /\ UNCHANGED <<request, progress, pauseOpen>>

\* timeout_handler with the lock: it checks nothing, and stays _timeout_task.
Timeout(k) ==
    /\ Admitted(k)
    /\ outcome' = [outcome EXCEPT !.timeout = reason[k]]
    /\ Transition(k, "timeout", None, None)
    /\ UNCHANGED <<request, progress, pauseOpen>>

\* c releases the lock without a transition.
Return(c) ==
    /\ pc' = [pc EXCEPT ![c] = "idle"]
    /\ queue' = Tail(queue)
    /\ UNCHANGED <<state, request, pauseOpen, outcome, timeoutTask, reason,
                   holder, job, arming>>

ReportProgress(c) ==
    /\ Runs(c, "progress")
    /\ progress # "none"
    /\ progress' = "short"
    /\ Return(c)

\* The early returns.
Refused(op) ==
    \/ op = "start" /\ state # "idle"
    \/ op = "press" /\ state # "waiting_operator"
                    /\ (state # "paused" \/ progress = "none")
    \/ op \in {"release", "complete_early"} /\ state # "active"
    \/ op = "progress" /\ progress = "none"
    \/ op = "abort" /\ state \notin Live

\* Mutant: an early return keeps the lock.
RefuseKeepingLock(c) ==
    /\ Admitted(c) /\ Refused(job[c])
    /\ holder' = c
    /\ UNCHANGED <<machineVars, timeoutTask, reason, queue, pc, job, arming>>

Refuse(c) ==
    /\ Admitted(c)
    /\ Refused(job[c])
    /\ Return(c)
    /\ UNCHANGED progress

-----------------------------------------------------------------------------
(* What callers and callbacks may do to the machine.                        *)

\* A caller is cancelled while it waits for the lock.
Withdraw(c) ==
    /\ MayFail
    /\ pc[c] = "queued"
    /\ pc' = [pc EXCEPT ![c] = "idle"]
    /\ queue' = Leave(queue, c)
    /\ UNCHANGED <<machineVars, timeoutTask, reason, holder, job, arming>>

\* The callback raises, or its caller is cancelled in it: the lock is
\* released, and what follows the transition is skipped.
Interrupt(t) ==
    /\ MayFail
    /\ pc[t] \in {"callback", "stuck"}
    /\ pc' = [pc EXCEPT ![t] = "idle"]
    /\ holder' = None
    /\ arming' = None
    /\ UNCHANGED <<machineVars, timeoutTask, reason, queue, job>>

\* The callback calls the machine and waits for the lock its own task holds.
Reenter(t) ==
    /\ Reentrant
    /\ pc[t] = "callback"
    /\ pc' = [pc EXCEPT ![t] = "stuck"]
    /\ UNCHANGED <<machineVars, timeoutTask, reason, holder, queue, job, arming>>

Operate(c) ==
    \/ Start(c) \/ PressToStart(c) \/ PressToResume(c) \/ Release(c)
    \/ ReachTarget(c) \/ ReportProgress(c) \/ CompleteEarly(c)
    \/ Error(c) \/ Abort(c) \/ Reset(c) \/ Refuse(c)

Next ==
    \/ \E c \in Caller : \/ \E op \in Operation : Call(c, op)
                         \/ Operate(c)
                         \/ Withdraw(c)
    \/ \E k \in Timer : Expire(k) \/ Timeout(k)
    \/ \E t \in Task : Finish(t) \/ Interrupt(t) \/ Reenter(t)

Spec == Init /\ [][Next]_vars

\* The event loop runs every task that can run, and a sleep ends.
Fairness ==
    /\ \A c \in Caller : WF_vars(Operate(c))
    /\ \A k \in Timer : WF_vars(Expire(k)) /\ WF_vars(Timeout(k))
    /\ \A t \in Task : WF_vars(Finish(t))

FairSpec == Spec /\ Fairness

-----------------------------------------------------------------------------
(* Correctness.                                                             *)

Ticking(k) == pc[k] \in {"sleeping", "queued"}

\* The lock is held by the one task that is inside a callback, and the queue
\* holds every task that waits for it, once (asyncio.Lock, state_machine.py
\* line 98).
LockOK ==
    /\ \A t \in Task : holder = t <=> pc[t] \in {"callback", "stuck"}
    /\ \A t \in Task : pc[t] = "queued" <=> Contains(queue, t)
    /\ IsInjective(queue)

\* Whatever is cancelled, raised or called from a callback, at most one
\* timeout can still fire: the one _timeout_task refers to, and only in a
\* live transfer ("transitions cancel the previous timer").
NoStaleTimer == \A k \in Timer : Ticking(k) => k = timeoutTask /\ state \in Live

\* A live transfer has a request, is short of its target, is in a pause
\* exactly when it is paused, and carries no reason of an earlier ending.
LiveRecord == state \in Live =>
    /\ request # None
    /\ progress = "short"
    /\ pauseOpen = (state = "paused")
    /\ outcome = NoOutcome

\* timeout_handler checks no state, so it is the cancelling that has to make
\* sure it never ends anything but a live transfer.
TimeoutEndsLive ==
    [][state' = "timeout" /\ state # "timeout" => state \in Live]_vars

\* Outside a transition, a transfer that waits for the operator has a timeout
\* running for that wait ("Enforce timeouts at every wait point").
WaitTimed ==
    holder = None /\ state \in {"waiting_operator", "paused"} =>
        /\ timeoutTask \in Timer
        /\ Ticking(timeoutTask)
        /\ reason[timeoutTask] = IF state = "paused" THEN "operator_pause"
                                                    ELSE "operator_wait"

\* A timeout that fires is the one of the state it ends: no pause ends by the
\* limit on the duration, no resumed transfer by the limit on the pause.
Due == [operator_wait |-> "waiting_operator", operator_pause |-> "paused",
        max_duration |-> "active"]
TimeoutIsDue == [][\A k \in Timer : Timeout(k) => state = Due[reason[k]]]_vars

\* Every call of a public coroutine returns.
EveryCallReturns == \A c \in Caller : pc[c] = "queued" ~> pc[c] = "idle"

\* No wait for the operator lasts for ever.
WaitEnds == \A s \in {"waiting_operator", "paused"} : state = s ~> state # s

\* The transfer's deadline: the one the operation in progress is about to
\* set, or else the running timeout's.
Deadline ==
    IF arming # None THEN arming
    ELSE IF timeoutTask # None /\ Ticking(timeoutTask) THEN reason[timeoutTask]
    ELSE None

Lifecycle == INSTANCE TransferLifecycle
    WITH phase <- state, current <- request, deadline <- Deadline

\* Through lock, callbacks and tasks, callers see the atomic lifecycle.
ImplementsLifecycle == Lifecycle!FairSpec
=============================================================================
