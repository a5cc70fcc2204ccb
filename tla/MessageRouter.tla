---------------------------- MODULE MessageRouter ----------------------------
(****************************************************************************)
(* MessageRouter (websocket/router.py), with the built-in handlers and the  *)
(* part of MessageProcessor (websocket/processor.py) that fills it.         *)
(*                                                                          *)
(* A handler is an object with a priority; one object may be registered     *)
(* more than once.  route() goes through the list up to the first handler   *)
(* whose can_handle() is true or raises, without a suspension, so a change  *)
(* of the list comes before or after that.                                  *)
(****************************************************************************)
EXTENDS Integers, Sequences, FiniteSets, SequencesExt

CONSTANTS
    Ping, Health, Echo,  \* the default handlers
    Custom,              \* handlers added by the application
    Priority,            \* the priority of each handler
    Serves,              \* the messages can_handle() of a custom one accepts
    None,                \* Python's None
    MaxHandlers          \* a bound on the list, for model checking

Handler == {Ping, Health, Echo} \cup Custom

\* "scalar" stands for valid JSON other than an object or null; "text" for
\* anything else that is neither a ping nor a health request.
Message == {"ping", "health", "text", "scalar"}

ASSUME RouterAssumption ==
    /\ Ping # Health /\ Health # Echo /\ Echo # Ping
    /\ {Ping, Health, Echo} \cap Custom = {}
    /\ None \notin Handler
    /\ Priority \in [Handler -> Int]
    /\ Priority[Ping] = 5 /\ Priority[Health] = 10 /\ Priority[Echo] = 1000
    /\ Serves \in [Custom -> SUBSET Message]
    /\ MaxHandlers \in Nat

VARIABLES
    handlers,  \* self._handlers
    order      \* history: the registrations in force, in their order

routerVars == <<handlers, order>>

RouterTypeOK == handlers \in Seq(Handler) /\ order \in Seq(Handler)

\* The processor registers its default handlers.
RouterInit == handlers = <<Ping, Health, Echo>> /\ order = handlers

-----------------------------------------------------------------------------
(* Registration.                                                            *)

\* Mutants: a handler goes before those of its priority; the list is not
\* sorted again.
PlacedFirst(s, h) ==
    LET before == {i \in 1..Len(s) : Priority[s[i]] < Priority[h]}
    IN  InsertAt(s, Cardinality(before) + 1, h)
PlacedLast(s, h) == Append(s, h)

\* list.sort is stable, and the list was sorted before h was appended: h ends
\* up behind those of its priority and before those of a higher one.
Placed(s, h) ==
    LET before == {i \in 1..Len(s) : Priority[s[i]] <= Priority[h]}
    IN  InsertAt(s, Cardinality(before) + 1, h)

\* list.remove, where the list has an x: the first of them goes.
Without(s, x) ==
    IF Contains(s, x)
    THEN RemoveAt(s, CHOOSE i \in 1..Len(s) :
                         s[i] = x /\ \A j \in 1..i-1 : s[j] # x)
    ELSE s

Register(h) ==
    /\ Len(handlers) < MaxHandlers
    /\ handlers' = Placed(handlers, h)
    /\ order' = Append(order, h)

Unregister(h) ==
    /\ handlers' = Without(handlers, h)
    /\ order' = Without(order, h)

-----------------------------------------------------------------------------
(* Routing.                                                                 *)

\* can_handle is true.
Accepts(h, m) ==
    \/ h = Ping /\ m = "ping"
    \/ h = Health /\ m = "health"
    \/ h = Echo
    \/ h \in Custom /\ m \in Serves[h]

\* can_handle raises: parsed_data.get() of something that is no object.
Raises(h, m) == h = Health /\ m = "scalar"

Stops(h, m) == Accepts(h, m) \/ Raises(h, m)

\* The handler the loop of route() stops at, or None.
Chosen(m) ==
    LET stop == {i \in 1..Len(handlers) : Stops(handlers[i], m)}
    IN  IF stop = {} THEN None
        ELSE handlers[CHOOSE i \in stop : \A j \in stop : i <= j]

\* Who is told besides the sender: "no" broadcast, "others" or "all".  An error,
\* of validate() or of handle(), is told to the sender only.
Audiences(h) ==
    IF h \in Custom THEN {"no", "others", "all"}
    ELSE IF h = Echo THEN {"others"} ELSE {"no"}

-----------------------------------------------------------------------------
(* Correctness.                                                             *)

\* docs/architecture.md lines 33-35: handlers are sorted by priority, and the
\* first that matches processes the message.  Whatever was registered and
\* unregistered before, and whatever message comes next, it goes to one of
\* least priority, and among those to the one registered first.
AnsweredByPriority ==
    \A m \in Message :
        LET able == {i \in 1..Len(order) : Stops(order[i], m)}
            Ahead(i, j) == \/ Priority[order[i]] < Priority[order[j]]
                           \/ Priority[order[i]] = Priority[order[j]] /\ i <= j
        IN  IF able = {} THEN Chosen(m) = None
            ELSE \E i \in able : Chosen(m) = order[i] /\ \A j \in able : Ahead(i, j)
=============================================================================
