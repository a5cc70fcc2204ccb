------------------------------ MODULE DemoServer ------------------------------
(****************************************************************************)
(* The WebSocket server of examples/demo_server.py: one endpoint coroutine  *)
(* per connection, the connection manager with its broadcast, and           *)
(* MessageProcessor.process() (websocket/processor.py) over the router.     *)
(*                                                                          *)
(* An endpoint runs from one suspension to the next: it waits for accept(), *)
(* for a message, for a handler, or for a send.  The broadcast goes through *)
(* active_connections by index while others append to it and remove from it.*)
(*                                                                          *)
(* The server library, as the endpoint meets it: once the client has gone,  *)
(* receive_text() raises WebSocketDisconnect, after what was sent before; a *)
(* send may go nowhere or raise WebSocketDisconnect, and leaves the socket  *)
(* unusable then; any use of an unusable or closed socket raises            *)
(* RuntimeError.  When an endpoint ends its socket is closed.               *)
(*                                                                          *)
(* An identity stands for one connection after another: it is free again as *)
(* soon as the endpoint has left, in the midst of a broadcast too, whose    *)
(* history forgets it then.  So Conn bounds how many connections there are  *)
(* at a time, not how many come in the course of a broadcast.               *)
(****************************************************************************)
EXTENDS MessageRouter

CONSTANTS
    Conn,     \* identities for connections, a bound on those at a time
    Sender,   \* those that send messages, a bound on broadcasts at a time
    Changing  \* the handlers added and removed while the server runs

ASSUME ServerAssumption == Changing \subseteq Handler /\ None \notin Conn

VARIABLES
    sock,     \* the client is there ("open") or has gone ("lost"), a send has
              \* failed ("failed"), or the server has closed it ("closed")
    active,   \* self.active_connections
    at,       \* where each endpoint is suspended; "crashed" by an exception
    casting,  \* who the response is for besides the sender
    cursor,   \* the broadcast's position in active_connections
    roster,   \* history: active_connections when the broadcast began, with None
              \* in the place of those that have left it since
    told      \* history: the connections the broadcast was sent to, in order,
              \* without those that have left since

endpointVars == <<at, casting, cursor, roster, told>>
serverVars == <<sock, active, endpointVars>>
vars == <<routerVars, serverVars>>

\* Suspended inside the try of websocket_endpoint.
Serving == {"receiving", "handling", "replying", "broadcasting"}

TypeOK ==
    /\ RouterTypeOK
    /\ sock \in [Conn -> {"open", "lost", "failed", "closed"}]
    /\ active \in Seq(Conn)
    /\ at \in [Conn -> Serving \cup {"none", "accepting", "crashed"}]
    /\ casting \in [Conn -> {"no", "others", "all"}]
    /\ cursor \in [Conn -> Nat \ {0}]
    /\ roster \in [Conn -> Seq(Conn \cup {None})]
    /\ told \in [Conn -> Seq(Conn)]

Init ==
    /\ RouterInit
    /\ sock = [c \in Conn |-> "closed"]
    /\ active = <<>>
    /\ at = [c \in Conn |-> "none"]
    /\ casting = [c \in Conn |-> "no"]
    /\ cursor = [c \in Conn |-> 1]
    /\ roster = [c \in Conn |-> <<>>]
    /\ told = [c \in Conn |-> <<>>]

Goes(c, place) == at' = [at EXCEPT ![c] = place]

\* Mutant: the next broadcast begins at index 0.
ClearsFromZero(c) ==
    /\ casting' = [casting EXCEPT ![c] = "no"] /\ cursor' = [cursor EXCEPT ![c] = 0]
    /\ roster' = [roster EXCEPT ![c] = <<>>] /\ told' = [told EXCEPT ![c] = <<>>]

\* The endpoint is done with a message, in whichever way.
Clears(c) ==
    /\ casting' = [casting EXCEPT ![c] = "no"]
    /\ cursor' = [cursor EXCEPT ![c] = 1]
    /\ roster' = [roster EXCEPT ![c] = <<>>]
    /\ told' = [told EXCEPT ![c] = <<>>]

-----------------------------------------------------------------------------
(* How an endpoint ends.                                                    *)

Forgotten(s, c) == [i \in DOMAIN s |-> IF s[i] = c THEN None ELSE s[i]]

\* Mutant: a connection that is gone stays in the list.
DepartsListed(c) ==
    /\ Goes(c, "none") /\ sock' = [sock EXCEPT ![c] = "closed"]
    /\ Clears(c)
    /\ UNCHANGED active

\* WebSocketDisconnect is caught, from whatever socket it comes: the endpoint's
\* own connection leaves the list, and the histories of the others.
Delists(c) ==
    /\ active' = Without(active, c)
    /\ Goes(c, "none")
    /\ casting' = [casting EXCEPT ![c] = "no"]
    /\ cursor' = [cursor EXCEPT ![c] = 1]
    /\ roster' = [d \in Conn |-> IF d = c THEN <<>> ELSE Forgotten(roster[d], c)]
    /\ told' = [d \in Conn |-> IF d = c THEN <<>> ELSE Without(told[d], c)]

Departs(c) == Delists(c) /\ sock' = [sock EXCEPT ![c] = "closed"]

\* Any other exception is not: the connection stays in the list.
Crashes(c) ==
    /\ Goes(c, "crashed")
    /\ sock' = [sock EXCEPT ![c] = "closed"]
    /\ Clears(c)
    /\ UNCHANGED active

-----------------------------------------------------------------------------
(* Connecting, and the client.                                              *)

\* A new connection, no matter who had its identity before.
Connect(c) ==
    /\ at[c] = "none"
    /\ sock' = [sock EXCEPT ![c] = "open"]
    /\ Goes(c, "accepting")
    /\ UNCHANGED <<routerVars, active, casting, cursor, roster, told>>

\* Mutant: a new connection is put first.
AcceptedFirst(c) ==
    /\ at[c] = "accepting"
    /\ active' = <<c>> \o active
    /\ Goes(c, "receiving")
    /\ UNCHANGED <<routerVars, sock, casting, cursor, roster, told>>

\* accept() returns.
Accepted(c) ==
    /\ at[c] = "accepting"
    /\ active' = Append(active, c)
    /\ Goes(c, "receiving")
    /\ UNCHANGED <<routerVars, sock, casting, cursor, roster, told>>

\* accept() raises outside the try, before the connection is listed.
AcceptFails(c) ==
    /\ at[c] = "accepting" /\ sock[c] = "lost"
    /\ Goes(c, "none")
    /\ sock' = [sock EXCEPT ![c] = "closed"]
    /\ UNCHANGED <<routerVars, active, casting, cursor, roster, told>>

Leave(c) ==
    /\ sock[c] = "open"
    /\ sock' = [sock EXCEPT ![c] = "lost"]
    /\ UNCHANGED <<routerVars, active, endpointVars>>

-----------------------------------------------------------------------------
(* The endpoint's loop.                                                     *)

\* A message is routed as far as the await of handle(), whose response it gets.
Receive(c, m) ==
    /\ at[c] = "receiving"
    /\ ~ Raises(Chosen(m), m)
    /\ \E who \in Audiences(Chosen(m)) : casting' = [casting EXCEPT ![c] = who]
    /\ Goes(c, "handling")
    /\ UNCHANGED <<routerVars, sock, active, cursor, roster, told>>

\* can_handle() raises outside the try of route(), and so out of the loop.
RouteRaises(c, m) ==
    /\ at[c] = "receiving"
    /\ Raises(Chosen(m), m)
    /\ Crashes(c)
    /\ UNCHANGED routerVars

\* receive_text() raises WebSocketDisconnect.
Disconnected(c) ==
    /\ at[c] = "receiving" /\ sock[c] \in {"lost", "failed"}
    /\ Departs(c)
    /\ UNCHANGED routerVars

\* handle() has returned or raised; the response is sent.
Reply(c) ==
    /\ at[c] = "handling" /\ sock[c] \in {"open", "lost"}
    /\ Goes(c, "replying")
    /\ UNCHANGED <<routerVars, sock, active, casting, cursor, roster, told>>

ReplyFails(c) ==
    /\ at[c] = "handling"
    /\ \/ sock[c] = "lost" /\ Departs(c)
       \/ sock[c] = "failed" /\ Crashes(c)
    /\ UNCHANGED routerVars

BeginBroadcast(c) ==
    /\ at[c] = "replying" /\ casting[c] # "no"
    /\ Goes(c, "broadcasting")
    /\ roster' = [roster EXCEPT ![c] = active]
    /\ UNCHANGED <<routerVars, sock, active, casting, cursor, told>>

Excluded(c) == IF casting[c] = "others" THEN {c} ELSE {}

\* Mutant: the loop goes on to whoever is listed and has not been sent it.
UpcomingUntold(c) ==
    LET untold == {i \in 1..Len(active) : active[i] \notin Excluded(c) \cup ToSet(told[c])}
    IN  IF untold = {} THEN Len(active) + 1 ELSE Min(untold)

\* The loop's next index: a connection that is excluded is passed over.
Upcoming(c) ==
    IF cursor[c] <= Len(active) /\ active[cursor[c]] \in Excluded(c)
    THEN cursor[c] + 1 ELSE cursor[c]

Receiver(c) == active[Upcoming(c)]

Telling(c) == at[c] = "broadcasting" /\ Upcoming(c) <= Len(active)

\* Mutant: the loop leaves out every other connection.
TellEveryOther(c) ==
    /\ Telling(c) /\ sock[Receiver(c)] \in {"open", "lost"}
    /\ told' = [told EXCEPT ![c] = Append(@, Receiver(c))]
    /\ cursor' = [cursor EXCEPT ![c] = Upcoming(c) + 2]
    /\ UNCHANGED <<routerVars, sock, active, at, casting, roster>>

Tell(c) ==
    /\ Telling(c) /\ sock[Receiver(c)] \in {"open", "lost"}
    /\ told' = [told EXCEPT ![c] = Append(@, Receiver(c))]
    /\ cursor' = [cursor EXCEPT ![c] = Upcoming(c) + 1]
    /\ UNCHANGED <<routerVars, sock, active, at, casting, roster>>

\* The send to a client that has gone ends the endpoint of the sender.
TellRaisesDisconnect(c) ==
    /\ Telling(c) /\ sock[Receiver(c)] = "lost"
    /\ Delists(c)
    /\ sock' = [sock EXCEPT ![Receiver(c)] = "failed", ![c] = "closed"]
    /\ UNCHANGED routerVars

TellRaises(c) ==
    /\ Telling(c) /\ sock[Receiver(c)] \in {"failed", "closed"}
    /\ Crashes(c)
    /\ UNCHANGED routerVars

\* process() has returned, after the reply or the broadcast.
Processed(c) ==
    \/ at[c] = "replying" /\ casting[c] = "no"
    \/ at[c] = "broadcasting" /\ ~ Telling(c)

\* receive_text() is called again: it raises if a send has failed meanwhile.
Resume(c) ==
    /\ Processed(c)
    /\ IF sock[c] = "failed"
       THEN Crashes(c)
       ELSE Goes(c, "receiving") /\ Clears(c) /\ UNCHANGED <<sock, active>>
    /\ UNCHANGED routerVars

\* The rest of process(), once a message has been received.
Process(c) ==
    \/ Reply(c) \/ ReplyFails(c) \/ BeginBroadcast(c)
    \/ Tell(c) \/ TellRaisesDisconnect(c) \/ TellRaises(c) \/ Resume(c)

ConnStep(c) ==
    \/ Connect(c) \/ Accepted(c) \/ AcceptFails(c) \/ Leave(c)
    \/ c \in Sender /\ \E m \in Message : Receive(c, m) \/ RouteRaises(c, m)
    \/ Disconnected(c) \/ Process(c)

ChangeHandlers ==
    /\ \E h \in Changing : Register(h) \/ Unregister(h)
    /\ UNCHANGED serverVars

Next == ChangeHandlers \/ \E c \in Conn : ConnStep(c)

Spec == Init /\ [][Next]_vars

\* The event loop runs what can run, handlers return and sends end.  Clients
\* need not connect, send or leave.
FairSpec == Spec /\ \A c \in Conn : WF_vars(Process(c))

-----------------------------------------------------------------------------
(* Correctness.                                                             *)

Distinct(s) == \A i, j \in 1..Len(s) : s[i] = s[j] => i = j

\* The list holds every connection whose endpoint serves it, once, so that no
\* broadcast misses it; besides them only those whose endpoint has crashed.
ListedOnce ==
    /\ Distinct(active)
    /\ \A c \in Conn : Contains(active, c) <=> at[c] \in Serving \cup {"crashed"}

\* Connections come and go while a broadcast is under way, and shift those
\* behind them in the list: still nobody is sent it twice, nor the sender of
\* a message that is for the others.
ToldOnce == \A c \in Conn :
    /\ Distinct(told[c])
    /\ casting[c] = "others" => ~ Contains(told[c], c)

\* The places in the roster of those that have left the list since.
Gone(c) == {i \in DOMAIN roster[c] : roster[c][i] = None}
Missed(c) == ToSet(roster[c]) \ (ToSet(told[c]) \cup Excluded(c) \cup {None})
Before(q, i, e) == \E j \in 1..Len(q) : i < j /\ q[j] = e

\* A broadcast that comes to its end has reached every connection that was
\* listed from its beginning on, except that each one that left the list
\* meanwhile may have cost one of those listed behind it the message.
MissedForGone ==
    [][\A c \in Conn : at[c] = "broadcasting" /\ Processed(c) /\ Resume(c) =>
        /\ Cardinality(Missed(c)) <= Cardinality(Gone(c))
        /\ \A e \in Missed(c) : \E i \in Gone(c) : Before(roster[c], i, e)]_vars

\* Every message that is handled is done with, although clients may connect,
\* leave and connect again at every send of a broadcast, for ever: the loop
\* never goes back in the list, and the list is no longer than there are
\* connections at a time, crashed ones included.  Where that number grows
\* without a bound, one more connection at every send, the loop need not end.
ProcessingEnds ==
    \A c \in Conn : at[c] \in {"handling", "broadcasting"}
                        ~> at[c] \in {"receiving", "none", "crashed"}
=============================================================================
