--------------------------- MODULE SensorDispatch ---------------------------
(****************************************************************************)
(* EventDispatcher (sensors/dispatcher.py): polling threads put events into *)
(* a bounded queue, a background thread takes them out and calls the        *)
(* listeners, and the thread that owns the dispatcher starts and stops it.  *)
(*                                                                          *)
(* Threads interleave between any two accesses to shared state.  A get      *)
(* waits 0.1 s for an event and a join 2 s for the thread: either may give  *)
(* up, the join at any time, because a listener may take that long.  What a *)
(* listener raises is swallowed; get_listener_id() is taken not to raise.   *)
(****************************************************************************)
EXTENDS Naturals, Sequences, FiniteSets, SequencesExt

CONSTANTS
    Sensor,      \* the sensors that are polled
    Everywhere,  \* where global listeners are registered
    Listener,    \* the listeners
    Producer,    \* the polling threads
    Worker,      \* identities for processing threads
    None,        \* Python's None
    Capacity,    \* the queue's maxsize
    MaxEvents    \* a bound on the events put, for model checking

ASSUME DispatchAssumption ==
    /\ Everywhere \notin Sensor
    /\ None \notin Worker \cup Sensor
    /\ IsFiniteSet(Producer)
    /\ Capacity \in Nat \ {0}
    /\ MaxEvents \in Nat

VARIABLES
    eventQueue,  \* self.event_queue
    listeners,   \* self.listeners and self.global_listeners
    thread,      \* self.processing_thread
    stopEvent,   \* self._stop_event is set
    owner,       \* the owner's last call, or "joining" inside stop_processing
    pending,     \* the sensor of the event each producer puts, or None
    at,          \* where each worker is: "ended" threads are not alive
    inHand,      \* the events a worker has taken: one at most
    next,        \* the worker's position in the list it goes through
    accepted,    \* history: the events put
    handled,     \* history: the events done with
    heard,       \* history: the events each listener was called with
    since        \* history: how many events were put when it was registered

threadVars == <<thread, stopEvent, owner, at, inHand, next>>
history == <<accepted, handled, heard, since>>
vars == <<eventQueue, listeners, threadVars, pending, history>>

Event == [sensor : Sensor, nr : 1..MaxEvents]
Scope == Sensor \cup {Everywhere}
Alive(w) == at[w] # "ended"
Putting == {p \in Producer : pending[p] # None}

TypeOK ==
    /\ eventQueue \in Seq(Event) /\ Len(eventQueue) <= Capacity
    /\ listeners \in [Scope -> Seq(Listener)]
    /\ thread \in Worker \cup {None}
    /\ stopEvent \in BOOLEAN
    /\ owner \in {"none", "start", "stop", "joining"}
    /\ pending \in [Producer -> Sensor \cup {None}]
    /\ at \in [Worker -> {"ended", "check", "get", "lookup", "sensor", "global"}]
    /\ inHand \in [Worker -> Seq(Event)]
    /\ next \in [Worker -> Nat \ {0}]
    /\ accepted \in Seq(Event) /\ handled \in Seq(Event)
    /\ heard \in [Listener -> Seq(Event)]
    /\ since \in [Listener -> Nat]

Init ==
    /\ eventQueue = <<>>
    /\ listeners = [s \in Scope |-> <<>>]
    /\ thread = None
    /\ stopEvent = FALSE
    /\ owner = "none"
    /\ pending = [p \in Producer |-> None]
    /\ at = [w \in Worker |-> "ended"]
    /\ inHand = [w \in Worker |-> <<>>]
    /\ next = [w \in Worker |-> 1]
    /\ accepted = <<>> /\ handled = <<>>
    /\ heard = [l \in Listener |-> <<>>]
    /\ since = [l \in Listener |-> 0]

-----------------------------------------------------------------------------
(* The owner.                                                               *)

\* Mutant: a start does not look for a thread that is alive.
StartUnchecked ==
    /\ owner # "joining" /\ owner' = "start" /\ stopEvent' = FALSE
    /\ \E w \in Worker : ~ Alive(w) /\ thread' = w /\ at' = [at EXCEPT ![w] = "check"]
    /\ UNCHANGED <<eventQueue, listeners, pending, inHand, next, history>>

\* A thread that is alive is left as it is, even if it has been told to stop.
StartProcessing ==
    /\ owner # "joining"
    /\ owner' = "start"
    /\ IF thread # None /\ Alive(thread)
       THEN UNCHANGED <<thread, stopEvent, at>>
       ELSE /\ stopEvent' = FALSE
            /\ \E w \in Worker :
                 /\ ~ Alive(w)
                 /\ thread' = w
                 /\ at' = [at EXCEPT ![w] = "check"]
    /\ UNCHANGED <<eventQueue, listeners, pending, inHand, next, history>>

StopProcessing ==
    /\ owner # "joining"
    /\ stopEvent' = TRUE
    /\ owner' = IF thread = None THEN "stop" ELSE "joining"
    /\ UNCHANGED <<eventQueue, listeners, thread, pending, at, inHand, next, history>>

\* The join returns: the thread has ended, or 2 seconds have passed.
JoinReturns ==
    /\ owner = "joining"
    /\ owner' = "stop"
    /\ UNCHANGED <<eventQueue, listeners, thread, stopEvent, pending, at, inHand, next, history>>

\* A listener is registered once, for one sensor or for all.
Register(l, s) ==
    /\ \A x \in Scope : ~ Contains(listeners[x], l)
    /\ listeners' = [listeners EXCEPT ![s] = Append(@, l)]
    /\ since' = [since EXCEPT ![l] = Len(accepted)]
    /\ UNCHANGED <<eventQueue, threadVars, pending, accepted, handled, heard>>

-----------------------------------------------------------------------------
(* The polling threads.                                                     *)

Enqueue(p, s) ==
    /\ pending[p] = None
    /\ Len(accepted) + Cardinality(Putting) < MaxEvents
    /\ pending' = [pending EXCEPT ![p] = s]
    /\ UNCHANGED <<eventQueue, listeners, threadVars, history>>

\* Mutant: the queue has no bound.
PutUnbounded(p) ==
    /\ pending[p] # None
    /\ LET e == [sensor |-> pending[p], nr |-> Len(accepted) + 1]
       IN  eventQueue' = Append(eventQueue, e) /\ accepted' = Append(accepted, e)
    /\ pending' = [pending EXCEPT ![p] = None]
    /\ UNCHANGED <<listeners, threadVars, handled, heard, since>>

\* put() blocks while the queue is full.
Put(p) ==
    /\ pending[p] # None
    /\ Len(eventQueue) < Capacity
    /\ LET e == [sensor |-> pending[p], nr |-> Len(accepted) + 1]
       IN  /\ eventQueue' = Append(eventQueue, e)
           /\ accepted' = Append(accepted, e)
    /\ pending' = [pending EXCEPT ![p] = None]
    /\ UNCHANGED <<listeners, threadVars, handled, heard, since>>

-----------------------------------------------------------------------------
(* The processing thread.                                                   *)

Goes(w, place) == at' = [at EXCEPT ![w] = place]

Check(w) ==
    /\ at[w] = "check"
    /\ Goes(w, IF stopEvent THEN "ended" ELSE "get")
    /\ UNCHANGED <<eventQueue, listeners, thread, stopEvent, owner, pending, inHand, next, history>>

\* Mutant: the event is looked at but stays in the queue.
GetKeeping(w) ==
    /\ at[w] = "get" /\ eventQueue # <<>>
    /\ inHand' = [inHand EXCEPT ![w] = <<Head(eventQueue)>>]
    /\ Goes(w, "lookup")
    /\ UNCHANGED <<eventQueue, listeners, thread, stopEvent, owner, pending, next, history>>

Get(w) ==
    /\ at[w] = "get"
    /\ eventQueue # <<>>
    /\ inHand' = [inHand EXCEPT ![w] = <<Head(eventQueue)>>]
    /\ eventQueue' = Tail(eventQueue)
    /\ Goes(w, "lookup")
    /\ UNCHANGED <<listeners, thread, stopEvent, owner, pending, next, history>>

\* Mutant: the loop ends when there is no event.
GetGivesUp(w) ==
    /\ at[w] = "get" /\ eventQueue = <<>>
    /\ Goes(w, "ended")
    /\ UNCHANGED <<eventQueue, listeners, thread, stopEvent, owner, pending, inHand, next, history>>

GetTimesOut(w) ==
    /\ at[w] = "get"
    /\ eventQueue = <<>>
    /\ Goes(w, "check")
    /\ UNCHANGED <<eventQueue, listeners, thread, stopEvent, owner, pending, inHand, next, history>>

\* The list of the event's sensor is asked for once.  A sensor that nobody has
\* registered for has none yet, and the thread goes through an empty list of its
\* own, which a registration in the meantime does not reach.
LookUp(w) ==
    /\ at[w] = "lookup"
    /\ Goes(w, IF listeners[Head(inHand[w]).sensor] = <<>> THEN "global" ELSE "sensor")
    /\ UNCHANGED <<eventQueue, listeners, thread, stopEvent, owner, pending, inHand, next, history>>

\* The list in progress.  A listener appended to it meanwhile is reached too.
ListOf(w) ==
    listeners[IF at[w] = "sensor" THEN Head(inHand[w]).sensor ELSE Everywhere]

CallListener(w) ==
    /\ at[w] \in {"sensor", "global"}
    /\ next[w] <= Len(ListOf(w))
    /\ LET l == ListOf(w)[next[w]]
       IN  heard' = [heard EXCEPT ![l] = Append(@, Head(inHand[w]))]
    /\ next' = [next EXCEPT ![w] = @ + 1]
    /\ UNCHANGED <<eventQueue, listeners, thread, stopEvent, owner, pending,
                   at, inHand, accepted, handled, since>>

\* Mutant: the global listeners are gone through from where the others ended.
ToGlobalInPlace(w) ==
    /\ at[w] = "sensor" /\ next[w] > Len(ListOf(w))
    /\ Goes(w, "global")
    /\ UNCHANGED <<eventQueue, listeners, thread, stopEvent, owner, pending, inHand, next, history>>

ToGlobal(w) ==
    /\ at[w] = "sensor"
    /\ next[w] > Len(ListOf(w))
    /\ next' = [next EXCEPT ![w] = 1]
    /\ Goes(w, "global")
    /\ UNCHANGED <<eventQueue, listeners, thread, stopEvent, owner, pending, inHand, history>>

Done(w) ==
    /\ at[w] = "global"
    /\ next[w] > Len(ListOf(w))
    /\ handled' = Append(handled, Head(inHand[w]))
    /\ inHand' = [inHand EXCEPT ![w] = <<>>]
    /\ next' = [next EXCEPT ![w] = 1]
    /\ Goes(w, "check")
    /\ UNCHANGED <<eventQueue, listeners, thread, stopEvent, owner, pending,
                   accepted, heard, since>>

WorkerStep(w) ==
    \/ Check(w) \/ Get(w) \/ GetTimesOut(w) \/ LookUp(w)
    \/ CallListener(w) \/ ToGlobal(w) \/ Done(w)

Next ==
    \/ StartProcessing \/ StopProcessing \/ JoinReturns
    \/ \E l \in Listener, s \in Scope : Register(l, s)
    \/ \E p \in Producer : \/ \E s \in Sensor : Enqueue(p, s)
                           \/ Put(p)
    \/ \E w \in Worker : WorkerStep(w)

Spec == Init /\ [][Next]_vars

\* The scheduler runs every thread that can run, and listeners return.
FairSpec ==
    /\ Spec
    /\ \A p \in Producer : WF_vars(Put(p))
    /\ \A w \in Worker : WF_vars(WorkerStep(w))
    /\ WF_vars(JoinReturns)

-----------------------------------------------------------------------------
(* Correctness.                                                             *)

\* There is never more than one processing thread, and it is the one the
\* dispatcher knows: a restart does not start a second one beside a thread
\* that a slow listener holds up.
OneThread == \A w \in Worker : Alive(w) => w = thread

Taken == IF thread = None THEN <<>> ELSE inHand[thread]

\* No event is lost, doubled or overtaken by stops and restarts: what was put
\* is what is done, then what is in hand, then what is queued.
Conserved == accepted = handled \o Taken \o eventQueue

\* A listener hears of the events in the order they were put, none twice,
\* and misses none that was put after it was registered and is done.
HeardInFull == \A l \in Listener, s \in Scope : Contains(listeners[s], l) =>
    /\ \A i, j \in 1..Len(heard[l]) : i < j => heard[l][i].nr < heard[l][j].nr
    /\ \A i \in 1..Len(handled) :
         s \in {handled[i].sensor, Everywhere} /\ handled[i].nr > since[l]
            => Contains(heard[l], handled[i])

\* The dispatcher is the channel it promises to be.
Channel == INSTANCE EventChannel WITH Room <- Capacity + 1, delivered <- handled
ImplementsChannel == Channel!Spec

\* The dispatcher runs: it has a thread that is alive and not told to stop.
Running == thread # None /\ ~ stopEvent

\* While the dispatcher runs, no polling thread stays blocked on a full queue
\* and every event that was put is handled.
RunningDelivers ==
    <>[]Running => /\ \A p \in Producer : pending[p] # None ~> pending[p] = None
                   /\ \A n \in 1..MaxEvents : Len(accepted) >= n ~> Len(handled) >= n

\* docs/architecture.md line 99: consumers "should not block the polling
\* loop".  Once start_processing() was the owner's last call, every enqueue()
\* returns.
PollingGoesOn ==
    <>[](owner = "start") => \A p \in Producer : pending[p] # None ~> pending[p] = None
=============================================================================
