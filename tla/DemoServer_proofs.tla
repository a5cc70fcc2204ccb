--------------------------- MODULE DemoServer_proofs ---------------------------
(****************************************************************************)
(* Machine-checked proofs about DemoServer, for any connections, handlers   *)
(* and messages.                                                            *)
(****************************************************************************)
EXTENDS DemoServer, MessageRouter_proofs

-----------------------------------------------------------------------------
(* The list of connections.                                                 *)

\* One that is removed from a list without repetition is gone; the others stay
\* in their order, none further behind than before.
LEMMA WithoutDistinct ==
    ASSUME NEW S, NEW q \in Seq(S), NEW x, Distinct(q)
    PROVE  /\ Without(q, x) \in Seq(S) /\ Distinct(Without(q, x))
           /\ \A u : Contains(Without(q, x), u) <=> u # x /\ Contains(q, u)
<1>1. CASE ~ Contains(q, x)
  BY <1>1, Zenon DEF Without, Contains
<1>2. CASE Contains(q, x)
  <2> DEFINE r == Without(q, x)
  <2>1. PICK n \in 1..Len(q) :
            /\ FirstAt(q, x, n)
            /\ r \in Seq(S) /\ Len(r) = Len(q) - 1
            /\ \A i \in 1..Len(q)-1 : r[i] = IF i < n THEN q[i] ELSE q[i+1]
    BY <1>2, WithoutElements, Zenon
  <2> HIDE DEF r
  <2>2. Len(q) \in Nat /\ q[n] = x /\ n \in Nat
    BY <2>1, LenProperties DEF FirstAt
  <2>3. Distinct(r)
    BY <2>1, <2>2, SMTT(30) DEF Distinct
  <2>4. ASSUME NEW u PROVE Contains(r, u) <=> u # x /\ Contains(q, u)
    <3>1. ASSUME Contains(r, u) PROVE u # x /\ Contains(q, u)
      BY <2>1, <2>2, <3>1, SMTT(30) DEF Distinct, Contains
    <3>2. ASSUME u # x, Contains(q, u) PROVE Contains(r, u)
      <4>1. PICK i \in 1..Len(q) : q[i] = u
        BY <3>2 DEF Contains
      <4>2. CASE i < n
        BY <2>1, <2>2, <4>1, <4>2, SMTT(30) DEF Contains
      <4>3. CASE i > n
        <5>1. i-1 \in 1..Len(q)-1 /\ r[i-1] = u
          BY <2>1, <2>2, <4>1, <4>3, SMTT(30)
        <5> QED BY <2>1, <5>1 DEF Contains
      <4> QED BY <2>2, <3>2, <4>1, <4>2, <4>3
    <3> QED BY <3>1, <3>2
  <2> QED BY <2>1, <2>3, <2>4 DEF r
<1> QED BY <1>1, <1>2

\* A new connection goes to the end.
LEMMA AppendDistinct ==
    ASSUME NEW S, NEW q \in Seq(S), NEW x \in S
    PROVE  /\ Append(q, x) \in Seq(S)
           /\ \A u : Contains(Append(q, x), u) <=> u = x \/ Contains(q, u)
           /\ Distinct(q) /\ ~ Contains(q, x) => Distinct(Append(q, x))
<1> DEFINE r == Append(q, x)
<1>1. /\ r \in Seq(S) /\ Len(q) \in Nat /\ Len(r) = Len(q) + 1
      /\ \A i \in 1..Len(q) : r[i] = q[i]
      /\ r[Len(q) + 1] = x
  BY AppendProperties, LenProperties
<1> HIDE DEF r
<1>2. ASSUME NEW u PROVE Contains(r, u) <=> u = x \/ Contains(q, u)
  <2>1. ASSUME Contains(r, u) PROVE u = x \/ Contains(q, u)
    BY <1>1, <2>1, SMTT(30) DEF Contains
  <2>2. ASSUME u = x \/ Contains(q, u) PROVE Contains(r, u)
    BY <1>1, <2>2, SMTT(30) DEF Contains
  <2> QED BY <2>1, <2>2
<1>3. ASSUME Distinct(q), ~ Contains(q, x) PROVE Distinct(r)
  BY <1>1, <1>3, SMTT(30) DEF Distinct, Contains
<1> QED BY <1>1, <1>2, <1>3 DEF r

-----------------------------------------------------------------------------
(* The list holds the connections that are served.                          *)

ListInv == TypeOK /\ ListedOnce

\* Nobody is listed before the first connection.
LEMMA ListInit == Init => ListInv
<1> SUFFICES ASSUME Init PROVE ListInv
  OBVIOUS
<1>1. RouterTypeOK
  BY RouterInvInit DEF Init, RouterInv
<1>2. /\ active = <<>> /\ active \in Seq(Conn) /\ Len(active) = 0
      /\ <<>> \in Seq(Conn) /\ <<>> \in Seq(Conn \cup {None})
  BY DEF Init
<1>3. TypeOK
  BY <1>1, <1>2 DEF Init, TypeOK
<1>4. ListedOnce
  BY <1>2 DEF Init, ListedOnce, Distinct, Contains, Serving
<1> QED BY <1>3, <1>4 DEF ListInv

\* Whom a roster names after one has been put out of it, and where.
LEMMA ForgottenNames ==
    ASSUME NEW q \in Seq(Conn \cup {None}), NEW x \in Conn
    PROVE  /\ Forgotten(q, x) \in Seq(Conn \cup {None})
           /\ Len(Forgotten(q, x)) = Len(q) /\ Len(q) \in Nat
           /\ DOMAIN q = 1..Len(q) /\ DOMAIN Forgotten(q, x) = 1..Len(q)
           /\ \A i \in 1..Len(q) :
                 Forgotten(q, x)[i] = IF q[i] = x THEN None ELSE q[i]
           /\ \A u \in Conn : Contains(Forgotten(q, x), u) <=> u # x /\ Contains(q, u)
<1> DEFINE f == Forgotten(q, x)
<1>1. /\ Len(q) \in Nat /\ DOMAIN q = 1..Len(q)
      /\ \A i \in 1..Len(q) : q[i] \in Conn \cup {None}
  BY LenProperties, ElementOfSeq
<1>2. /\ DOMAIN f = 1..Len(q) /\ f \in [1..Len(q) -> Conn \cup {None}]
      /\ \A i \in 1..Len(q) : f[i] = IF q[i] = x THEN None ELSE q[i]
  BY <1>1 DEF Forgotten
<1> HIDE DEF f
<1>3. f \in Seq(Conn \cup {None}) /\ Len(f) = Len(q)
  <2>1. f \in Seq(Conn \cup {None})
    BY <1>1, <1>2, SeqDef, Zenon
  <2> QED BY <1>1, <1>2, <2>1, LenProperties
<1>4. \A u \in Conn : Contains(f, u) <=> u # x /\ Contains(q, u)
  BY <1>1, <1>2, <1>3, ServerAssumption DEF Contains
<1> QED BY <1>1, <1>2, <1>3, <1>4 DEF f

\* An endpoint that leaves the list.
LEMMA LeaveKeeps ==
    ASSUME ListInv, NEW c \in Conn, UNCHANGED routerVars,
           sock' \in [Conn -> {"open", "lost", "failed", "closed"}], Delists(c)
    PROVE  ListInv'
<1>1. /\ Without(active, c) \in Seq(Conn) /\ Distinct(Without(active, c))
      /\ \A u : Contains(Without(active, c), u) <=> u # c /\ Contains(active, u)
  BY WithoutDistinct DEF ListInv, TypeOK, ListedOnce
<1>2. roster' \in [Conn -> Seq(Conn \cup {None})]
  <2>1. \A d \in Conn : Forgotten(roster[d], c) \in Seq(Conn \cup {None})
    BY ForgottenNames DEF ListInv, TypeOK
  <2>2. <<>> \in Seq(Conn \cup {None})
    OBVIOUS
  <2> QED BY <2>1, <2>2 DEF Delists
<1>3. told' \in [Conn -> Seq(Conn)]
  <2>1. \A d \in Conn : Without(told[d], c) \in Seq(Conn)
    BY WithoutType DEF ListInv, TypeOK
  <2>2. <<>> \in Seq(Conn)
    OBVIOUS
  <2> QED BY <2>1, <2>2 DEF Delists
<1>4. TypeOK'
  BY <1>1, <1>2, <1>3 DEF ListInv, TypeOK, RouterTypeOK, routerVars, Goes, Delists
<1>5. ListedOnce'
  BY <1>1 DEF ListInv, TypeOK, ListedOnce, Goes, Serving, Distinct, Delists
<1> QED BY <1>4, <1>5 DEF ListInv

\* An endpoint that goes from one place among the listed to another.
LEMMA StayKeeps ==
    ASSUME ListInv, NEW c \in Conn, UNCHANGED <<routerVars, active>>,
           sock' \in [Conn -> {"open", "lost", "failed", "closed"}],
           NEW place \in Serving \cup {"crashed"}, at[c] \in Serving,
           Goes(c, place),
           casting' \in [Conn -> {"no", "others", "all"}],
           cursor' \in [Conn -> Nat \ {0}],
           roster' \in [Conn -> Seq(Conn \cup {None})], told' \in [Conn -> Seq(Conn)]
    PROVE  ListInv'
<1>1. TypeOK'
  BY DEF ListInv, TypeOK, RouterTypeOK, routerVars, Goes, Serving
<1>2. active' = active
  OBVIOUS
<1>3. \A d \in Conn : at'[d] \in Serving \cup {"crashed"} <=> at[d] \in Serving \cup {"crashed"}
  BY DEF ListInv, TypeOK, Goes
<1>4. ListedOnce'
  BY <1>2, <1>3 DEF ListInv, ListedOnce, Distinct, Serving
<1> QED BY <1>1, <1>4 DEF ListInv

\* What an endpoint is left with when it has returned to its loop.
LEMMA ClearsType ==
    ASSUME TypeOK, NEW c \in Conn, Clears(c)
    PROVE  /\ casting' \in [Conn -> {"no", "others", "all"}]
           /\ cursor' \in [Conn -> Nat \ {0}]
           /\ roster' \in [Conn -> Seq(Conn \cup {None})] /\ told' \in [Conn -> Seq(Conn)]
<1>1. <<>> \in Seq(Conn) /\ <<>> \in Seq(Conn \cup {None})
  OBVIOUS
<1> QED BY <1>1 DEF TypeOK, Clears

\* An endpoint that crashes stays listed.
LEMMA CrashKeeps ==
    ASSUME ListInv, NEW c \in Conn, at[c] \in Serving, Crashes(c), UNCHANGED routerVars
    PROVE  ListInv'
<1>1. TypeOK
  BY DEF ListInv
<1>2. sock' \in [Conn -> {"open", "lost", "failed", "closed"}]
  BY <1>1 DEF TypeOK, Crashes
<1>3. Goes(c, "crashed") /\ Clears(c) /\ UNCHANGED <<routerVars, active>>
  BY DEF Crashes
<1> QED BY <1>1, <1>2, <1>3, ClearsType, StayKeeps

\* Each step of one endpoint disturbs that endpoint alone.
LEMMA ListStep == ListInv /\ [Next]_vars => ListInv'
<1> SUFFICES ASSUME ListInv, [Next]_vars PROVE ListInv'
  OBVIOUS
<1>0. TypeOK
  BY DEF ListInv
<1>1. CASE UNCHANGED vars
  BY <1>1 DEF ListInv, TypeOK, RouterTypeOK, ListedOnce, Distinct, Serving, vars,
              routerVars, serverVars, endpointVars
<1>2. CASE ChangeHandlers
  <2>1. RouterTypeOK'
    <3>1. PICK h \in Changing : Register(h) \/ Unregister(h)
      BY <1>2 DEF ChangeHandlers
    <3>2. CASE Register(h)
      BY <1>0, <3>1, <3>2, ServerAssumption, PlacedType, AppendProperties
      DEF Register, TypeOK, RouterTypeOK
    <3>3. CASE Unregister(h)
      BY <1>0, <3>3, WithoutType DEF Unregister, TypeOK, RouterTypeOK
    <3> QED BY <3>1, <3>2, <3>3
  <2> QED BY <1>2, <2>1 DEF ChangeHandlers, ListInv, TypeOK, ListedOnce, Distinct, Serving,
                            serverVars, endpointVars
<1>3. ASSUME NEW c \in Conn, ConnStep(c) PROVE ListInv'
  <2>1. CASE Connect(c)
    <3>1. TypeOK'
      BY <1>0, <2>1 DEF Connect, Goes, TypeOK, RouterTypeOK, routerVars
    <3>2. ListedOnce'
      BY <1>0, <2>1 DEF Connect, Goes, TypeOK, ListInv, ListedOnce, Distinct, Serving
    <3> QED BY <3>1, <3>2 DEF ListInv
  <2>2. CASE Accepted(c)
    <3>1. ~ Contains(active, c)
      BY <2>2 DEF Accepted, ListInv, ListedOnce, Serving
    <3>2. /\ active' \in Seq(Conn) /\ Distinct(active')
          /\ \A u : Contains(active', u) <=> u = c \/ Contains(active, u)
      BY <1>0, <2>2, <3>1, AppendDistinct DEF Accepted, TypeOK, ListInv, ListedOnce
    <3>3. TypeOK'
      BY <1>0, <2>2, <3>2 DEF Accepted, Goes, TypeOK, RouterTypeOK, routerVars, Serving
    <3>4. ListedOnce'
      BY <1>0, <2>2, <3>2 DEF Accepted, Goes, TypeOK, ListInv, ListedOnce, Distinct, Serving
    <3> QED BY <3>3, <3>4 DEF ListInv
  <2>3. CASE AcceptFails(c)
    <3>1. TypeOK'
      BY <1>0, <2>3 DEF AcceptFails, Goes, TypeOK, RouterTypeOK, routerVars
    <3>2. ListedOnce'
      BY <1>0, <2>3 DEF AcceptFails, Goes, TypeOK, ListInv, ListedOnce, Distinct, Serving
    <3> QED BY <3>1, <3>2 DEF ListInv
  <2>4. CASE Leave(c)
    <3>1. TypeOK'
      BY <1>0, <2>4 DEF Leave, TypeOK, RouterTypeOK, routerVars, endpointVars
    <3>2. ListedOnce'
      BY <2>4 DEF Leave, ListInv, ListedOnce, Distinct, Serving, endpointVars
    <3> QED BY <3>1, <3>2 DEF ListInv
  <2>5. ASSUME NEW m \in Message, Receive(c, m) PROVE ListInv'
    <3>1. PICK who \in {"no", "others", "all"} : casting' = [casting EXCEPT ![c] = who]
      BY <2>5 DEF Receive, Audiences
    <3>2. casting' \in [Conn -> {"no", "others", "all"}]
      BY <1>0, <3>1 DEF TypeOK
    <3> QED BY <1>0, <2>5, <3>2, StayKeeps DEF Receive, TypeOK, Serving
  <2>6. ASSUME NEW m \in Message, RouteRaises(c, m) PROVE ListInv'
    BY <1>0, <2>6, CrashKeeps DEF RouteRaises, Serving
  <2>7. CASE Disconnected(c)
    BY <1>0, <2>7, LeaveKeeps DEF Disconnected, Departs, TypeOK
  <2>8. CASE Process(c)
    <3>1. CASE Reply(c)
      BY <1>0, <3>1, StayKeeps DEF Reply, TypeOK, Serving
    <3>2. CASE ReplyFails(c)
      BY <1>0, <3>2, CrashKeeps, LeaveKeeps DEF ReplyFails, Departs, TypeOK, Serving
    <3>3. CASE BeginBroadcast(c)
      <4>1. active \in Seq(Conn \cup {None})
        BY <1>0, SeqMonotonic DEF TypeOK
      <4>2. roster' \in [Conn -> Seq(Conn \cup {None})]
        BY <1>0, <3>3, <4>1 DEF BeginBroadcast, TypeOK
      <4> QED BY <1>0, <3>3, <4>2, StayKeeps DEF BeginBroadcast, TypeOK, Serving
    <3>4. CASE Tell(c)
      <4>1. cursor[c] \in Nat \ {0} /\ Upcoming(c) \in {cursor[c], cursor[c] + 1}
        BY <1>0 DEF TypeOK, Upcoming
      <4>2. Upcoming(c) \in 1..Len(active) /\ active[Upcoming(c)] \in Conn
        <5>1. active \in Seq(Conn) /\ Len(active) \in Nat /\ Upcoming(c) <= Len(active)
          BY <1>0, <3>4, LenProperties DEF Tell, Telling, TypeOK
        <5>2. Upcoming(c) \in 1..Len(active)
          BY <4>1, <5>1
        <5> QED BY <5>1, <5>2, ElementOfSeq
      <4>3. told' \in [Conn -> Seq(Conn)] /\ cursor' \in [Conn -> Nat \ {0}]
        <5>1. told[c] \in Seq(Conn) /\ Receiver(c) \in Conn
          BY <1>0, <4>2 DEF Receiver, TypeOK
        <5>2. Append(told[c], Receiver(c)) \in Seq(Conn)
          BY <5>1, AppendProperties
        <5>3. Upcoming(c) + 1 \in Nat \ {0}
          BY <4>1
        <5> QED BY <1>0, <3>4, <5>2, <5>3 DEF Tell, TypeOK
      <4>4. TypeOK'
        BY <1>0, <3>4, <4>3 DEF Tell, TypeOK, RouterTypeOK, routerVars
      <4>5. ListedOnce'
        BY <3>4 DEF Tell, ListInv, ListedOnce, Distinct, Serving
      <4> QED BY <4>4, <4>5 DEF ListInv
    <3>5. CASE TellRaisesDisconnect(c)
      <4>1. sock' \in [Conn -> {"open", "lost", "failed", "closed"}]
        BY <1>0, <3>5 DEF TellRaisesDisconnect, TypeOK
      <4> QED BY <3>5, <4>1, LeaveKeeps DEF TellRaisesDisconnect
    <3>6. CASE TellRaises(c)
      BY <1>0, <3>6, CrashKeeps DEF TellRaises, Telling, Serving
    <3>7. CASE Resume(c)
      <4>1. at[c] \in Serving
        BY <3>7 DEF Resume, Processed, Serving
      <4>2. CASE sock[c] = "failed"
        BY <3>7, <4>1, <4>2, CrashKeeps DEF Resume
      <4>3. CASE sock[c] # "failed"
        <5>1. Goes(c, "receiving") /\ Clears(c) /\ UNCHANGED <<routerVars, sock, active>>
          BY <3>7, <4>3 DEF Resume
        <5>2. /\ casting' \in [Conn -> {"no", "others", "all"}]
              /\ cursor' \in [Conn -> Nat \ {0}]
              /\ roster' \in [Conn -> Seq(Conn \cup {None})] /\ told' \in [Conn -> Seq(Conn)]
          BY <1>0, <5>1, ClearsType
        <5> QED BY <1>0, <4>1, <5>1, <5>2, StayKeeps DEF TypeOK, Serving
      <4> QED BY <4>2, <4>3
    <3> QED BY <2>8, <3>1, <3>2, <3>3, <3>4, <3>5, <3>6, <3>7 DEF Process
  <2> QED BY <1>3, <2>1, <2>2, <2>3, <2>4, <2>5, <2>6, <2>7, <2>8 DEF ConnStep
<1> QED BY <1>1, <1>2, <1>3 DEF Next

\* So types and listing always agree.
LEMMA ListInvHolds == Spec => []ListInv
<1> QED BY ListInit, ListStep, PTL DEF Spec

\* Every variable keeps its type.
THEOREM TypeCorrect == Spec => []TypeOK
<1>1. ListInv => TypeOK
  BY DEF ListInv
<1> QED BY <1>1, ListInvHolds, PTL

\* The connections served are listed, once, whoever comes and goes and in
\* whichever way an endpoint ends.
THEOREM ListedCorrect == Spec => []ListedOnce
<1>1. ListInv => ListedOnce
  BY DEF ListInv
<1> QED BY <1>1, ListInvHolds, PTL

-----------------------------------------------------------------------------
(* The handlers.                                                            *)

\* The endpoints change the handlers by adding and removing them only.
LEMMA RouterStep == RouterInv /\ [Next]_vars => RouterInv'
<1> SUFFICES ASSUME RouterInv, [Next]_vars PROVE RouterInv'
  OBVIOUS
<1>1. CASE UNCHANGED routerVars
  BY <1>1 DEF RouterInv, RouterTypeOK, routerVars
<1>2. CASE ChangeHandlers
  <2>1. PICK h \in Changing : Register(h) \/ Unregister(h)
    BY <1>2 DEF ChangeHandlers
  <2> QED BY <2>1, RouterInvKept, ServerAssumption
<1>3. ASSUME NEW c \in Conn, ConnStep(c) PROVE UNCHANGED routerVars
  BY <1>3 DEF ConnStep, Connect, Accepted, AcceptFails, Leave, Receive, RouteRaises,
              Disconnected, Process, Reply, ReplyFails, BeginBroadcast, Tell,
              TellRaisesDisconnect, TellRaises, Resume
<1> QED BY <1>1, <1>2, <1>3 DEF Next, vars

\* Whatever was added and removed before, each message goes to a handler of
\* least priority, and among those to the one registered first.
THEOREM PriorityAnswers == Spec => []AnsweredByPriority
<1>1. Init => RouterInv
  BY RouterInvInit DEF Init
<1>2. RouterInv => AnsweredByPriority
  BY ArrangedAnswers DEF RouterInv
<1> QED BY <1>1, <1>2, RouterStep, PTL DEF Spec

-----------------------------------------------------------------------------
(* Broadcasts.                                                              *)

\* Between broadcasts nothing is left of the last one.
Rest(c) == at[c] # "broadcasting" =>
    cursor[c] = 1 /\ roster[c] = <<>> /\ told[c] = <<>>

\* Whom a broadcast began with or was sent to is still listed, or forgotten.
Known(c) == \A d \in Conn :
    Contains(roster[c], d) \/ Contains(told[c], d) => Contains(active, d)

\* Whoever was told and is still listed is behind the cursor.
ToldBehind(c) == \A i \in 1..Len(active) : Contains(told[c], active[i]) => i < cursor[c]

ToldInv == \A c \in Conn : Rest(c) /\ Known(c) /\ ToldBehind(c)

\* What a step, of whichever endpoint, does to the broadcast of c.
Same(c) == /\ casting'[c] = casting[c] /\ cursor'[c] = cursor[c]
           /\ roster'[c] = roster[c] /\ told'[c] = told[c]
Restarts(c) ==
    /\ at'[c] # "broadcasting" /\ cursor'[c] = 1
    /\ roster'[c] = <<>> /\ told'[c] = <<>>
Keeps(c) ==
    /\ Same(c)
    /\ at'[c] = at[c] \/ (at[c] # "broadcasting" /\ at'[c] # "broadcasting")
Forgets(c, d) ==
    /\ at'[c] = at[c] /\ casting'[c] = casting[c] /\ cursor'[c] = cursor[c]
    /\ roster'[c] = Forgotten(roster[c], d) /\ told'[c] = Without(told[c], d)
    /\ active' = Without(active, d)

\* Every step either ends the broadcast of c or what precedes it, or begins or
\* continues it with the list as it is, or is another's: that leaves the list,
\* adds a connection, or takes one out and has it forgotten.
LEMMA StepShapes ==
    ASSUME ListInv, ToldInv, [Next]_vars, NEW c \in Conn
    PROVE  \/ Restarts(c)
           \/ Keeps(c) /\ active' = active
           \/ \E d \in Conn : /\ Keeps(c) /\ at[d] = "accepting" /\ at'[d] # "accepting"
                              /\ active' = Append(active, d)
           \/ \E d \in Conn : Forgets(c, d)
           \/ BeginBroadcast(c)
           \/ Tell(c)
<1>0. TypeOK /\ Rest(c)
  BY DEF ListInv, ToldInv
<1>1. CASE UNCHANGED serverVars
  BY <1>1 DEF serverVars, endpointVars, Keeps, Same
<1>2. ASSUME NEW d \in Conn, Clears(d), d # c
      PROVE  Same(c)
  BY <1>0, <1>2 DEF TypeOK, Clears, Same
<1>3. ASSUME Clears(c), at'[c] # "broadcasting" PROVE Restarts(c)
  BY <1>0, <1>3 DEF TypeOK, Clears, Restarts
<1>4. ASSUME NEW d \in Conn, NEW place, Goes(d, place)
      PROVE  at'[d] = place /\ (d # c => at'[c] = at[c])
  BY <1>0, <1>4 DEF TypeOK, Goes
<1>5. ASSUME NEW d \in Conn, Delists(d)
      PROVE  Restarts(c) \/ Forgets(c, d)
  BY <1>0, <1>4, <1>5 DEF Delists, Restarts, Forgets, TypeOK
<1>6. ASSUME NEW d \in Conn, Crashes(d)
      PROVE  Restarts(c) \/ (Keeps(c) /\ active' = active)
  BY <1>2, <1>3, <1>4, <1>6 DEF Crashes, Keeps
<1>7. ASSUME NEW d \in Conn, ConnStep(d)
      PROVE  \/ Restarts(c)
             \/ Keeps(c) /\ active' = active
             \/ Keeps(c) /\ at[d] = "accepting" /\ at'[d] # "accepting"
                /\ active' = Append(active, d)
             \/ Forgets(c, d)
             \/ BeginBroadcast(c)
             \/ Tell(c)
  <2>1. CASE Connect(d)
    BY <1>4, <2>1 DEF Connect, Keeps, Same
  <2>2. CASE Accepted(d)
    BY <1>4, <2>2 DEF Accepted, Keeps, Same
  <2>3. CASE AcceptFails(d)
    BY <1>4, <2>3 DEF AcceptFails, Keeps, Same
  <2>4. CASE Leave(d)
    BY <2>4 DEF Leave, Keeps, Same, endpointVars
  <2>5. ASSUME NEW m \in Message, Receive(d, m)
        PROVE  Restarts(c) \/ (Keeps(c) /\ active' = active)
    <3>1. CASE d = c
      BY <1>0, <1>4, <2>5, <3>1 DEF Receive, Rest, Restarts
    <3>2. CASE d # c
      BY <1>0, <1>4, <2>5, <3>2 DEF Receive, Keeps, Same, TypeOK
    <3> QED BY <3>1, <3>2
  <2>6. ASSUME NEW m \in Message, RouteRaises(d, m)
        PROVE  Restarts(c) \/ (Keeps(c) /\ active' = active)
    BY <1>6, <2>6 DEF RouteRaises
  <2>7. CASE Disconnected(d)
    BY <1>5, <2>7 DEF Disconnected, Departs
  <2>8. CASE Reply(d)
    BY <1>4, <2>8 DEF Reply, Keeps, Same
  <2>9. CASE ReplyFails(d)
    BY <1>5, <1>6, <2>9 DEF ReplyFails, Departs
  <2>10. CASE BeginBroadcast(d)
    BY <1>0, <1>4, <2>10 DEF BeginBroadcast, Keeps, Same, TypeOK
  <2>11. CASE Tell(d)
    BY <1>0, <2>11 DEF Tell, Keeps, Same, TypeOK
  <2>12. CASE TellRaisesDisconnect(d)
    BY <1>5, <2>12 DEF TellRaisesDisconnect
  <2>13. CASE TellRaises(d)
    BY <1>6, <2>13 DEF TellRaises
  <2>14. CASE Resume(d)
    BY <1>2, <1>3, <1>4, <1>6, <2>14 DEF Resume, Keeps
  <2> QED BY <1>7, <2>1, <2>2, <2>3, <2>4, <2>5, <2>6, <2>7, <2>8, <2>9, <2>10, <2>11,
             <2>12, <2>13, <2>14 DEF ConnStep, Process
<1>8. CASE ChangeHandlers
  BY <1>1, <1>8 DEF ChangeHandlers
<1> QED BY <1>1, <1>7, <1>8 DEF Next, vars

\* Taking one out of a list leaves nobody further behind.
LEMMA WithoutBehind ==
    ASSUME NEW S, NEW q \in Seq(S), NEW x, NEW i \in 1..Len(Without(q, x))
    PROVE  \E j \in 1..Len(q) : i <= j /\ q[j] = Without(q, x)[i]
<1>1. CASE ~ Contains(q, x)
  BY <1>1, LenProperties DEF Without, Contains
<1>2. CASE Contains(q, x)
  <2>1. PICK n \in 1..Len(q) :
            /\ FirstAt(q, x, n)
            /\ Len(Without(q, x)) = Len(q) - 1
            /\ \A k \in 1..Len(q)-1 : Without(q, x)[k] = IF k < n THEN q[k] ELSE q[k+1]
    BY <1>2, WithoutElements, Zenon
  <2>2. i \in 1..Len(q)-1 /\ Len(q) \in Nat
    BY <2>1, LenProperties
  <2>3. CASE i < n
    BY <2>1, <2>2, <2>3
  <2>4. CASE ~ i < n
    BY <2>1, <2>2, <2>4
  <2> QED BY <2>3, <2>4
<1> QED BY <1>1, <1>2

\* Whom a broadcast is sent to next: a listed connection that is not excluded,
\* at the cursor or behind it.
LEMMA NextReceiver ==
    ASSUME ListInv, NEW c \in Conn, Tell(c)
    PROVE  /\ Upcoming(c) \in 1..Len(active) /\ cursor[c] <= Upcoming(c)
           /\ cursor[c] \in Nat /\ Receiver(c) \in Conn /\ Contains(active, Receiver(c))
           /\ Receiver(c) \notin Excluded(c)
           /\ cursor'[c] = Upcoming(c) + 1
           /\ \A u : Contains(told'[c], u) <=> u = Receiver(c) \/ Contains(told[c], u)
           /\ Distinct(told[c]) /\ ~ Contains(told[c], Receiver(c)) => Distinct(told'[c])
<1>1. TypeOK /\ Distinct(active)
  BY DEF ListInv, ListedOnce
<1>2. cursor[c] \in Nat \ {0} /\ Len(active) \in Nat
  BY <1>1, LenProperties DEF TypeOK
<1>3. Upcoming(c) \in 1..Len(active) /\ cursor[c] <= Upcoming(c)
  BY <1>2 DEF Tell, Telling, Upcoming
<1>4. Receiver(c) \in Conn /\ Contains(active, Receiver(c))
  BY <1>1, <1>3, ElementOfSeq DEF TypeOK, Receiver, Contains
<1>5. Receiver(c) \notin Excluded(c)
  BY <1>1, <1>2, <1>3 DEF Receiver, Upcoming, Excluded, Distinct
<1>6. told'[c] = Append(told[c], Receiver(c)) /\ cursor'[c] = Upcoming(c) + 1
  BY <1>1 DEF Tell, TypeOK
<1> DEFINE t == told[c]
<1>7. t \in Seq(Conn)
  BY <1>1 DEF TypeOK
<1> HIDE DEF t
<1>8. /\ \A u : Contains(Append(t, Receiver(c)), u) <=> u = Receiver(c) \/ Contains(t, u)
      /\ Distinct(t) /\ ~ Contains(t, Receiver(c)) => Distinct(Append(t, Receiver(c)))
  BY <1>4, <1>7, AppendDistinct
<1>9. /\ \A u : Contains(told'[c], u) <=> u = Receiver(c) \/ Contains(told[c], u)
      /\ Distinct(told[c]) /\ ~ Contains(told[c], Receiver(c)) => Distinct(told'[c])
  BY <1>6, <1>8, Zenon DEF t
<1> QED BY <1>2, <1>3, <1>4, <1>5, <1>6, <1>9

\* A broadcast goes on through the list from the position it has reached.
LEMMA ToldStep ==
    ASSUME ListInv, ListInv', ToldInv, ToldOnce, [Next]_vars, NEW c \in Conn
    PROVE  Rest(c)' /\ Known(c)' /\ ToldBehind(c)'
<1>0. /\ TypeOK /\ Rest(c) /\ Known(c) /\ ToldBehind(c) /\ Distinct(told[c])
      /\ active \in Seq(Conn) /\ told[c] \in Seq(Conn)
      /\ roster[c] \in Seq(Conn \cup {None})
  BY DEF ListInv, ToldInv, ToldOnce, TypeOK
<1>1. CASE Restarts(c)
  BY <1>1 DEF Restarts, Rest, Known, ToldBehind, Contains
<1>2. ASSUME Keeps(c) PROVE Rest(c)'
  BY <1>0, <1>2 DEF Keeps, Same, Rest
<1>3. CASE Keeps(c) /\ active' = active
  BY <1>0, <1>2, <1>3 DEF Keeps, Same, Known, ToldBehind
<1>4. ASSUME NEW d \in Conn, Keeps(c), at[d] = "accepting", active' = Append(active, d)
      PROVE  Known(c)' /\ ToldBehind(c)'
  <2>1. /\ Len(active) \in Nat /\ Len(active') = Len(active) + 1
        /\ \A i \in 1..Len(active) : active'[i] = active[i]
        /\ active'[Len(active) + 1] = d
        /\ \A u : Contains(active', u) <=> u = d \/ Contains(active, u)
    BY <1>0, <1>4, AppendProperties, AppendDistinct, LenProperties
  <2>2. ~ Contains(told[c], d)
    BY <1>0, <1>4 DEF Known, ListInv, ListedOnce, Serving
  <2>3. Known(c)'
    BY <1>0, <1>4, <2>1 DEF Keeps, Same, Known
  <2> QED BY <1>0, <1>4, <2>1, <2>2, <2>3 DEF Keeps, Same, ToldBehind
<1>5. ASSUME NEW d \in Conn, Forgets(c, d)
      PROVE  Rest(c)' /\ Known(c)' /\ ToldBehind(c)'
  <2>1. /\ \A u : Contains(active', u) <=> u # d /\ Contains(active, u)
        /\ \A u : Contains(told'[c], u) <=> u # d /\ Contains(told[c], u)
        /\ \A u \in Conn : Contains(roster'[c], u) <=> u # d /\ Contains(roster[c], u)
    <3>1. /\ active' = Without(active, d) /\ told'[c] = Without(told[c], d)
          /\ roster'[c] = Forgotten(roster[c], d) /\ Distinct(active)
      BY <1>5 DEF Forgets, ListInv, ListedOnce
    <3>2. /\ \A u : Contains(active', u) <=> u # d /\ Contains(active, u)
          /\ \A u : Contains(told'[c], u) <=> u # d /\ Contains(told[c], u)
      BY <1>0, <3>1, WithoutDistinct
    <3>3. \A u \in Conn : Contains(roster'[c], u) <=> u # d /\ Contains(roster[c], u)
      <4> DEFINE q == roster[c]
      <4>1. q \in Seq(Conn \cup {None}) /\ roster'[c] = Forgotten(q, d)
        BY <1>0, <3>1
      <4> HIDE DEF q
      <4>2. \A u \in Conn : Contains(Forgotten(q, d), u) <=> u # d /\ Contains(q, u)
        BY <4>1, ForgottenNames
      <4> QED BY <4>1, <4>2, Zenon DEF q
    <3> QED BY <3>2, <3>3
  <2>2. Rest(c)'
    BY <1>0, <1>5 DEF Forgets, Rest, Forgotten, Without, Contains
  <2>3. Known(c)'
    BY <1>0, <2>1 DEF Known
  <2>4. ASSUME NEW i \in 1..Len(active'), Contains(told'[c], active'[i])
        PROVE  i < cursor[c]
    <3>1. PICK j \in 1..Len(active) : i <= j /\ active[j] = active'[i]
      BY <1>0, <1>5, WithoutBehind DEF Forgets
    <3>2. j < cursor[c] /\ cursor[c] \in Nat
      BY <1>0, <2>1, <2>4, <3>1 DEF ToldBehind, TypeOK
    <3>3. Len(active) \in Nat /\ Len(active') \in Nat
      BY <1>0, LenProperties DEF ListInv, TypeOK
    <3> QED BY <3>1, <3>2, <3>3
  <2>5. ToldBehind(c)'
    BY <1>5, <2>4 DEF ToldBehind, Forgets
  <2> QED BY <2>2, <2>3, <2>5
<1>6. CASE BeginBroadcast(c)
  <2>1. /\ at'[c] = "broadcasting" /\ roster'[c] = active
        /\ UNCHANGED <<active, cursor, told>> /\ told[c] = <<>>
    BY <1>0, <1>6 DEF BeginBroadcast, Goes, TypeOK, Rest
  <2>2. Known(c)'
    BY <2>1 DEF Known, Contains
  <2> QED BY <1>0, <2>1, <2>2 DEF Rest, ToldBehind
<1>7. CASE Tell(c)
  <2>1. UNCHANGED <<active, at, roster>> /\ at[c] = "broadcasting"
    BY <1>7 DEF Tell, Telling
  <2>2. /\ Contains(active, Receiver(c)) /\ Receiver(c) \in Conn
        /\ \A u : Contains(told'[c], u) <=> u = Receiver(c) \/ Contains(told[c], u)
    BY <1>7, NextReceiver
  <2>3. Known(c)'
    BY <1>0, <2>1, <2>2 DEF Known
  <2>4. ToldBehind(c)'
    <3> SUFFICES ASSUME NEW i \in 1..Len(active), Contains(told'[c], active[i])
                 PROVE  i < cursor'[c]
      BY <2>1 DEF ToldBehind
    <3>1. /\ Upcoming(c) \in 1..Len(active) /\ cursor[c] <= Upcoming(c)
          /\ cursor[c] \in Nat /\ cursor'[c] = Upcoming(c) + 1
      BY <1>7, NextReceiver
    <3>2. CASE active[i] = Receiver(c)
      BY <3>1, <3>2 DEF Receiver, ListInv, ListedOnce, Distinct
    <3>3. CASE Contains(told[c], active[i])
      BY <1>0, <3>1, <3>3 DEF ToldBehind
    <3> QED BY <2>2, <3>2, <3>3
  <2> QED BY <2>1, <2>3, <2>4 DEF Rest
<1> QED BY <1>1, <1>2, <1>3, <1>4, <1>5, <1>6, <1>7, StepShapes

\* Whoever has been told stands before that position.
LEMMA ToldOnceStep ==
    ASSUME ListInv, ToldInv, ToldOnce, [Next]_vars
    PROVE  ToldOnce'
<1> SUFFICES ASSUME NEW c \in Conn
             PROVE  /\ Distinct(told'[c])
                    /\ casting'[c] = "others" => ~ Contains(told'[c], c)
  BY DEF ToldOnce
<1>0. /\ TypeOK /\ ToldBehind(c) /\ told[c] \in Seq(Conn)
      /\ Distinct(told[c])
      /\ casting[c] = "others" => ~ Contains(told[c], c)
  BY DEF ListInv, ToldInv, ToldOnce, TypeOK
<1>1. CASE Restarts(c)
  BY <1>1 DEF Restarts, Distinct, Contains
<1>2. CASE Keeps(c)
  BY <1>0, <1>2 DEF Keeps, Same
<1>3. CASE BeginBroadcast(c)
  BY <1>0, <1>3 DEF BeginBroadcast
<1>5. ASSUME NEW d \in Conn, Forgets(c, d)
      PROVE  /\ Distinct(told'[c])
             /\ casting'[c] = "others" => ~ Contains(told'[c], c)
  BY <1>0, <1>5, WithoutDistinct DEF Forgets
<1>4. CASE Tell(c)
  <2>1. /\ Upcoming(c) \in 1..Len(active) /\ cursor[c] <= Upcoming(c)
        /\ cursor[c] \in Nat /\ Receiver(c) \in Conn
        /\ Receiver(c) \notin Excluded(c)
    BY <1>4, NextReceiver
  <2>2. ~ Contains(told[c], Receiver(c))
    BY <1>0, <2>1 DEF ToldBehind, Receiver
  <2>3. /\ Distinct(told'[c])
        /\ \A u : Contains(told'[c], u) <=> u = Receiver(c) \/ Contains(told[c], u)
    BY <1>0, <1>4, <2>2, NextReceiver
  <2>4. casting'[c] = casting[c]
    BY <1>4 DEF Tell
  <2> QED BY <1>0, <2>1, <2>3, <2>4 DEF Excluded
<1> QED BY <1>1, <1>2, <1>3, <1>4, <1>5, StepShapes

CastInv == ListInv /\ ToldInv /\ ToldOnce

\* So it is in every broadcast.
LEMMA CastInvHolds == Spec => []CastInv
<1>1. Init => CastInv
  <2> SUFFICES ASSUME Init PROVE ToldInv /\ ToldOnce
    BY ListInit DEF CastInv
  <2> QED BY DEF Init, ToldInv, ToldOnce, Rest, Known, ToldBehind, Distinct, Contains
<1>2. CastInv /\ [Next]_vars => CastInv'
  <2> SUFFICES ASSUME CastInv, [Next]_vars PROVE CastInv'
    OBVIOUS
  <2>1. ListInv'
    BY ListStep DEF CastInv
  <2>2. ToldInv'
    BY <2>1, ToldStep DEF CastInv, ToldInv
  <2>3. ToldOnce'
    BY ToldOnceStep DEF CastInv
  <2> QED BY <2>1, <2>2, <2>3 DEF CastInv
<1> QED BY <1>1, <1>2, PTL DEF Spec

\* However the list shifts under a broadcast, nobody is sent it twice, nor the
\* sender of a message that is for the others.
THEOREM ToldCorrect == Spec => []ToldOnce
<1>1. CastInv => ToldOnce
  BY DEF CastInv
<1> QED BY <1>1, CastInvHolds, PTL

-----------------------------------------------------------------------------
(* Who misses a broadcast.                                                  *)

\* The listed connections the broadcast has passed over.
Behind(c, d) == \E j \in 1..Len(active) : j < cursor[c] /\ active[j] = d
Lost(c) == {d \in ToSet(roster[c]) \ Excluded(c) :
               Behind(c, d) /\ ~ Contains(told[c], d)}

\* The list keeps the order it had when the broadcast began, and whoever came
\* later comes behind.
Ordered(c) == \A i, j \in 1..Len(active) :
    i < j /\ active[j] \in ToSet(roster[c]) =>
        \E k \in 1..Len(roster[c]) : roster[c][k] = active[i] /\ Before(roster[c], k, active[j])

\* What MissedForGone says of the end of a broadcast, at any time in its course.
Excused(c) == \A e \in Lost(c) : \E i \in Gone(c) : Before(roster[c], i, e)
Counted(c) == Cardinality(Lost(c)) <= Cardinality(Gone(c))

LostInv == \A c \in Conn : Ordered(c) /\ Excused(c) /\ Counted(c)

\* The two ways of saying that a sequence holds an element.
LEMMA ToSetContains ==
    ASSUME NEW S, NEW q \in Seq(S)
    PROVE  /\ \A u : u \in ToSet(q) <=> Contains(q, u)
           /\ IsFiniteSet(ToSet(q))
<1>1. DOMAIN q = 1..Len(q) /\ Len(q) \in Nat
  BY LenProperties
<1>2. \A u : u \in ToSet(q) <=> Contains(q, u)
  BY <1>1 DEF ToSet, Contains
<1>3. IsFiniteSet(1..Len(q))
  BY <1>1, FS_Interval
<1>4. q \in Surjection(1..Len(q), ToSet(q))
  BY <1>1 DEF ToSet, Surjection
<1> QED BY <1>2, <1>3, <1>4, FS_Surjection

\* One more on the left is paid for by one more on the right.
LEMMA CountKept ==
    ASSUME NEW L, NEW L2, NEW G, NEW G2, IsFiniteSet(L), IsFiniteSet(G2),
           Cardinality(L) <= Cardinality(G), G \subseteq G2,
           L2 \subseteq L \/ \E e : \E d \in G2 \ G : L2 \subseteq L \cup {e}
    PROVE  Cardinality(L2) <= Cardinality(G2)
<1>1. /\ IsFiniteSet(G) /\ Cardinality(G) \in Nat /\ Cardinality(G2) \in Nat
      /\ Cardinality(G) <= Cardinality(G2) /\ Cardinality(L) \in Nat
  BY FS_Subset, FS_CardinalityType
<1>2. CASE L2 \subseteq L
  <2>1. Cardinality(L2) \in Nat /\ Cardinality(L2) <= Cardinality(L)
    BY <1>2, FS_Subset, FS_CardinalityType
  <2> QED BY <1>1, <2>1
<1>3. ASSUME NEW e, NEW d \in G2 \ G, L2 \subseteq L \cup {e}
      PROVE  Cardinality(L2) <= Cardinality(G2)
  <2>1. /\ IsFiniteSet(L \cup {e}) /\ Cardinality(L \cup {e}) \in Nat
        /\ Cardinality(L \cup {e}) <= Cardinality(L) + 1
    BY <1>1, FS_AddElement, FS_CardinalityType
  <2>2. Cardinality(L2) \in Nat /\ Cardinality(L2) <= Cardinality(L \cup {e})
    BY <1>3, <2>1, FS_Subset, FS_CardinalityType
  <2>3. Cardinality(G \cup {d}) = Cardinality(G) + 1
    BY <1>1, FS_AddElement
  <2>4. Cardinality(G \cup {d}) <= Cardinality(G2)
    BY FS_Subset
  <2> QED BY <1>1, <2>1, <2>2, <2>3, <2>4
<1> QED BY <1>2, <1>3

\* The places of those that have left are some of the roster's.
LEMMA GoneFinite ==
    ASSUME NEW S, NEW q \in Seq(S)
    PROVE  IsFiniteSet({i \in DOMAIN q : q[i] = None})
<1>1. DOMAIN q = 1..Len(q) /\ Len(q) \in Nat
  BY LenProperties
<1>2. {i \in DOMAIN q : q[i] = None} \subseteq 1..Len(q)
  BY <1>1
<1>3. IsFiniteSet(1..Len(q))
  BY <1>1, FS_Interval
<1> QED BY <1>2, <1>3, FS_Subset

\* Nothing is lost where nobody is behind the cursor.
LEMMA NoneLost ==
    ASSUME TypeOK', NEW c \in Conn, Lost(c)' = {}
    PROVE  Excused(c)' /\ Counted(c)'
<1>1. IsFiniteSet(Gone(c)')
  BY GoneFinite DEF TypeOK, Gone
<1>2. Cardinality(Gone(c)') \in Nat /\ Cardinality({}) = 0
  BY <1>1, FS_CardinalityType, FS_EmptySet
<1> QED BY <1>2 DEF Excused, Counted

\* Another's step leaves the broadcast as it is, but for what it has lost and
\* what is gone.
LEMMA LossKept ==
    ASSUME TypeOK, TypeOK', NEW c \in Conn, Excused(c), Counted(c),
           Gone(c) \subseteq Gone(c)',
           \A e \in Lost(c)' : \A i \in Gone(c)' : Before(roster[c], i, e) => Before(roster'[c], i, e),
           \/ Lost(c)' \subseteq Lost(c)
           \/ \E e : \E i \in Gone(c)' \ Gone(c) :
                 Before(roster[c], i, e) /\ Lost(c)' \subseteq Lost(c) \cup {e}
    PROVE  Excused(c)' /\ Counted(c)'
<1>1. IsFiniteSet(Lost(c)) /\ IsFiniteSet(Gone(c)')
  <2>1. IsFiniteSet(ToSet(roster[c]))
    BY ToSetContains DEF TypeOK
  <2>2. IsFiniteSet(Gone(c)')
    BY GoneFinite DEF TypeOK, Gone
  <2> QED BY <2>1, <2>2, FS_Subset DEF Lost
<1>3. Excused(c)'
  BY DEF Excused
<1>4. Counted(c)'
  BY <1>1, CountKept DEF Counted
<1> QED BY <1>3, <1>4

\* A connection leaves the list in the course of a broadcast.
LEMMA LeavingLoss ==
    ASSUME ListInv, ListInv', NEW c \in Conn, NEW d \in Conn, Distinct(told[c]),
           Ordered(c), Excused(c), Counted(c), Forgets(c, d)
    PROVE  Ordered(c)' /\ Excused(c)' /\ Counted(c)'
<1> DEFINE R == ToSet(roster[c])
           Q == roster[c]
<1>0. /\ TypeOK /\ TypeOK' /\ active \in Seq(Conn) /\ Distinct(active)
      /\ Len(active) \in Nat /\ cursor[c] \in Nat /\ cursor'[c] = cursor[c]
      /\ \A i \in 1..Len(active) : active[i] \in Conn
      /\ \A i \in 1..Len(active') : active'[i] \in Conn \ {d}
      /\ \A u : Contains(active', u) <=> u # d /\ Contains(active, u)
      /\ \A u : Contains(told'[c], u) <=> u # d /\ Contains(told[c], u)
      /\ Excluded(c)' = Excluded(c)
  <2>1. /\ TypeOK /\ TypeOK' /\ active \in Seq(Conn) /\ active' \in Seq(Conn)
        /\ Distinct(active) /\ told[c] \in Seq(Conn) /\ active' = Without(active, d)
        /\ told'[c] = Without(told[c], d) /\ cursor'[c] = cursor[c]
        /\ casting'[c] = casting[c]
    BY DEF ListInv, ListedOnce, TypeOK, Forgets
  <2>2. /\ \A u : Contains(active', u) <=> u # d /\ Contains(active, u)
        /\ \A u : Contains(told'[c], u) <=> u # d /\ Contains(told[c], u)
    BY <2>1, WithoutDistinct
  <2>3. \A i \in 1..Len(active') : active'[i] \in Conn /\ active'[i] # d
    BY <2>1, <2>2, ElementOfSeq DEF Contains
  <2> QED BY <2>1, <2>2, <2>3, ElementOfSeq, LenProperties DEF TypeOK, Excluded
<1>1. /\ Len(Q) \in Nat /\ Len(roster'[c]) = Len(Q)
      /\ DOMAIN Q = 1..Len(Q) /\ DOMAIN roster'[c] = 1..Len(Q)
      /\ \A i \in 1..Len(Q) : roster'[c][i] = IF Q[i] = d THEN None ELSE Q[i]
      /\ \A u \in Conn : u \in ToSet(roster'[c]) <=> u # d /\ u \in R
      /\ d # None
  <2>1. Q \in Seq(Conn \cup {None}) /\ roster'[c] \in Seq(Conn \cup {None})
        /\ roster'[c] = Forgotten(Q, d)
    BY DEF ListInv, TypeOK, Forgets
  <2>2. /\ Len(roster'[c]) = Len(Q) /\ Len(Q) \in Nat
        /\ DOMAIN Q = 1..Len(Q) /\ DOMAIN roster'[c] = 1..Len(Q)
        /\ \A i \in 1..Len(Q) : roster'[c][i] = IF Q[i] = d THEN None ELSE Q[i]
        /\ \A u \in Conn : Contains(roster'[c], u) <=> u # d /\ Contains(Q, u)
    <3> DEFINE q == roster[c]
    <3>1. q \in Seq(Conn \cup {None}) /\ roster'[c] = Forgotten(q, d)
      BY <2>1
    <3> HIDE DEF q
    <3>2. /\ Len(Forgotten(q, d)) = Len(q) /\ Len(q) \in Nat
          /\ DOMAIN q = 1..Len(q) /\ DOMAIN Forgotten(q, d) = 1..Len(q)
          /\ \A i \in 1..Len(q) :
                Forgotten(q, d)[i] = IF q[i] = d THEN None ELSE q[i]
          /\ \A u \in Conn : Contains(Forgotten(q, d), u) <=> u # d /\ Contains(q, u)
      BY <3>1, ForgottenNames
    <3> QED BY <3>1, <3>2, Zenon DEF q
  <2>3. /\ \A u : u \in ToSet(roster'[c]) <=> Contains(roster'[c], u)
        /\ \A u : u \in R <=> Contains(Q, u)
    BY <2>1, ToSetContains, Zenon
  <2>4. d # None
    BY ServerAssumption
  <2> QED BY <2>2, <2>3, <2>4
<1>2. Gone(c)' = Gone(c) \cup {i \in 1..Len(Q) : Q[i] = d}
  <2>1. Gone(c)' = {i \in 1..Len(Q) : roster'[c][i] = None}
    BY <1>1 DEF Gone
  <2>2. Gone(c) = {i \in 1..Len(Q) : Q[i] = None}
    BY <1>1 DEF Gone
  <2> QED BY <1>1, <2>1, <2>2
<1>3. \A i : \A e \in Conn \ {d} : Before(roster[c], i, e) => Before(roster'[c], i, e)
  BY <1>1 DEF Before
<1> HIDE DEF R, Q
<1>4. \A u \in Lost(c)' : /\ u \in R \ Excluded(c) /\ ~ Contains(told[c], u)
                         /\ u \in Conn \ {d}
                         /\ \E j \in 1..Len(active') : j < cursor[c] /\ active'[j] = u
  BY <1>0, <1>1 DEF Lost, Behind
<1>5. \A u \in R \ Excluded(c) : ~ Contains(told[c], u) =>
          \A j \in 1..Len(active) : j < cursor[c] /\ active[j] = u => u \in Lost(c)
  BY DEF Lost, Behind, R
<1>6. Gone(c) \subseteq Gone(c)'
      /\ \A e \in Lost(c)' : \A i \in Gone(c)' : Before(roster[c], i, e) => Before(roster'[c], i, e)
  BY <1>2, <1>3, <1>4
\* What two listed after it has left were to each other, they are still.
<1>7. ASSUME NEW i \in 1..Len(active), NEW j \in 1..Len(active), i < j,
             active[i] # d, active[j] # d, active[j] \in ToSet(roster'[c])
      PROVE  \E k \in 1..Len(roster'[c]) :
                roster'[c][k] = active[i] /\ Before(roster'[c], k, active[j])
  <2>1. active[j] \in ToSet(roster[c]) /\ active[j] \in Conn \ {d}
    BY <1>0, <1>1, <1>7 DEF R
  <2>2. PICK k \in 1..Len(Q) : Q[k] = active[i] /\ Before(roster[c], k, active[j])
    BY <1>7, <2>1 DEF Ordered, Q
  <2> QED BY <1>1, <1>3, <1>7, <2>1, <2>2
<1>8. CASE ~ Contains(active, d)
  <2>1. active' = active
    BY <1>8 DEF Forgets, Without, Contains
  <2>2. Lost(c)' \subseteq Lost(c)
    BY <1>4, <1>5, <2>1
  <2>3. Ordered(c)'
    BY <1>0, <1>7, <2>1 DEF Ordered
  <2> QED BY <1>0, <1>6, <2>2, <2>3, LossKept
<1>9. CASE Contains(active, d)
  <2>1. PICK n \in 1..Len(active) :
            /\ active[n] = d /\ Len(active') = Len(active) - 1
            /\ \A i \in 1..Len(active)-1 :
                  active'[i] = IF i < n THEN active[i] ELSE active[i+1]
    <3> DEFINE r == Without(active, d)
    <3>0. active \in Seq(Conn) /\ active' = r
      BY <1>0 DEF Forgets
    <3>1. PICK n \in 1..Len(active) :
              /\ FirstAt(active, d, n)
              /\ r \in Seq(Conn) /\ Len(r) = Len(active) - 1
              /\ \A i \in 1..Len(active)-1 : r[i] = IF i < n THEN active[i] ELSE active[i+1]
      BY <3>0, <1>9, WithoutElements, Zenon
    <3> HIDE DEF r
    <3> QED BY <3>0, <3>1 DEF FirstAt
  <2>2. Ordered(c)'
    <3> SUFFICES ASSUME NEW i \in 1..Len(active'), NEW j \in 1..Len(active'),
                        i < j, active'[j] \in ToSet(roster'[c])
                 PROVE  \E k \in 1..Len(roster'[c]) :
                            roster'[c][k] = active'[i] /\ Before(roster'[c], k, active'[j])
      BY Zenon DEF Ordered, Before
    <3> DEFINE up(k) == IF k < n THEN k ELSE k + 1
    <3>1. /\ up(i) \in 1..Len(active) /\ up(j) \in 1..Len(active) /\ up(i) < up(j)
          /\ active'[i] = active[up(i)] /\ active'[j] = active[up(j)]
      <4>0. i \in 1..Len(active)-1 /\ j \in 1..Len(active)-1
        BY <2>1
      <4>1. up(i) \in 1..Len(active) /\ up(j) \in 1..Len(active) /\ up(i) < up(j)
        BY <1>0, <4>0
      <4>2. active'[i] = active[up(i)] /\ active'[j] = active[up(j)]
        BY <2>1, <4>0
      <4> QED BY <4>1, <4>2
    <3> HIDE DEF up
    <3>2. active[up(i)] # d /\ active[up(j)] # d /\ active[up(j)] \in ToSet(roster'[c])
      BY <1>0, <3>1
    <3> QED BY <1>7, <3>1, <3>2
  <2>3. ASSUME NEW u \in Lost(c)', u \notin Lost(c)
        PROVE  n < cursor[c] /\ cursor[c] \in 1..Len(active) /\ u = active[cursor[c]]
    <3>1. PICK j \in 1..Len(active') : j < cursor[c] /\ active'[j] = u
      BY <1>4
    <3>2. CASE j < n
      BY <1>0, <1>4, <1>5, <2>1, <2>3, <3>1, <3>2
    <3>3. CASE ~ j < n
      <4>1. j + 1 \in 1..Len(active) /\ active[j + 1] = u
        BY <1>0, <2>1, <3>1, <3>3
      <4>2. ~ j + 1 < cursor[c]
        BY <1>4, <1>5, <2>3, <4>1
      <4> QED BY <1>0, <3>1, <3>3, <4>1, <4>2
    <3> QED BY <3>2, <3>3
  <2>4. CASE Lost(c)' \subseteq Lost(c)
    BY <1>0, <1>6, <2>2, <2>4, LossKept
  <2>5. ASSUME NEW e \in Lost(c)', e \notin Lost(c)
        PROVE  Excused(c)' /\ Counted(c)'
    <3>1. n < cursor[c] /\ cursor[c] \in 1..Len(active) /\ e = active[cursor[c]] /\ e \in R
      BY <1>4, <2>3, <2>5
    <3>2. Lost(c)' \subseteq Lost(c) \cup {e}
      BY <2>3, <3>1
    <3>3. PICK k \in 1..Len(Q) : Q[k] = d /\ Before(roster[c], k, e)
      BY <2>1, <3>1 DEF Ordered, R, Q
    <3>4. k \in Gone(c)' \ Gone(c)
      <4>1. k \in Gone(c)'
        BY <1>2, <3>3
      <4>2. k \notin Gone(c)
        BY <1>1, <3>3 DEF Gone, Q
      <4> QED BY <4>1, <4>2
    <3> QED BY <1>0, <1>6, <3>2, <3>3, <3>4, LossKept
  <2> QED BY <2>2, <2>4, <2>5
<1> QED BY <1>8, <1>9

\* A listed connection drops out of reach only when another one leaves.
LEMMA LossStep ==
    ASSUME ListInv, ListInv', ToldInv, ToldOnce, LostInv, [Next]_vars, NEW c \in Conn
    PROVE  Ordered(c)' /\ Excused(c)' /\ Counted(c)'
<1>0. /\ TypeOK /\ TypeOK' /\ ToldBehind(c) /\ Known(c) /\ Rest(c) /\ Distinct(told[c])
      /\ Ordered(c) /\ Excused(c) /\ Counted(c)
      /\ active \in Seq(Conn) /\ Len(active) \in Nat /\ cursor[c] \in Nat
      /\ Distinct(active)
      /\ \A u : u \in ToSet(roster[c]) <=> Contains(roster[c], u)
  BY ToSetContains, LenProperties DEF ListInv, ListedOnce, ToldInv, ToldOnce, LostInv, TypeOK
<1>1. CASE Restarts(c)
  <2>1. ToSet(roster'[c]) = {}
    BY <1>1 DEF Restarts, ToSet
  <2>2. Lost(c)' = {} /\ Ordered(c)'
    BY <2>1 DEF Lost, Ordered
  <2> QED BY <1>0, <2>2, NoneLost
<1>2. CASE Keeps(c) /\ active' = active
  <2>1. active' = active /\ roster'[c] = roster[c]
    BY <1>2 DEF Keeps, Same
  <2>2. Ordered(c)'
    <3>1. ToSet(roster'[c]) = ToSet(roster[c])
      BY <2>1
    <3>2. \A k, e : Before(roster'[c], k, e) <=> Before(roster[c], k, e)
      BY <2>1
    <3> QED BY <1>0, <2>1, <3>1, <3>2 DEF Ordered
  <2>3. Lost(c)' = Lost(c) /\ Gone(c)' = Gone(c)
    BY <1>2 DEF Keeps, Same, Lost, Behind, Excluded, Gone
  <2> QED BY <1>0, <2>1, <2>2, <2>3 DEF Excused, Counted
<1>3. ASSUME NEW d \in Conn, Keeps(c), at[d] = "accepting", active' = Append(active, d)
      PROVE  Ordered(c)' /\ Excused(c)' /\ Counted(c)'
  <2>1. /\ Len(active') = Len(active) + 1
        /\ \A i \in 1..Len(active) : active'[i] = active[i]
        /\ active'[Len(active) + 1] = d
        /\ \A u : Contains(active', u) <=> u = d \/ Contains(active, u)
    BY <1>0, <1>3, AppendProperties, AppendDistinct
  <2>2. d \notin ToSet(roster[c])
    BY <1>0, <1>3 DEF Known, ListInv, ListedOnce, Serving
  <2>3. Gone(c)' = Gone(c)
    BY <1>3 DEF Gone, Keeps, Same
  <2>4. Lost(c)' \subseteq Lost(c)
    BY <1>0, <1>3, <2>1, <2>2 DEF Lost, Behind, Excluded, Keeps, Same
  <2>5. Ordered(c)'
    <3>0. roster'[c] = roster[c]
      BY <1>3 DEF Keeps, Same
    <3> SUFFICES ASSUME NEW i \in 1..Len(active'), NEW j \in 1..Len(active'),
                        i < j, active'[j] \in ToSet(roster'[c])
                 PROVE  \E k \in 1..Len(roster'[c]) :
                            roster'[c][k] = active'[i] /\ Before(roster'[c], k, active'[j])
      BY Zenon DEF Ordered, Before
    <3>1. j \in 1..Len(active) /\ i \in 1..Len(active)
      <4>1. j # Len(active) + 1
        BY <2>1, <2>2, <3>0
      <4> QED BY <1>0, <2>1, <4>1
    <3>2. \E k \in 1..Len(roster[c]) : roster[c][k] = active'[i] /\ Before(roster[c], k, active'[j])
      BY <1>0, <2>1, <3>0, <3>1 DEF Ordered
    <3> QED BY <3>0, <3>2 DEF Before
  <2>6. \A i, e : Before(roster[c], i, e) => Before(roster'[c], i, e)
    BY <1>3 DEF Before, Keeps, Same
  <2> QED BY <1>0, <2>3, <2>4, <2>5, <2>6, LossKept
<1>4. ASSUME NEW d \in Conn, Forgets(c, d)
      PROVE  Ordered(c)' /\ Excused(c)' /\ Counted(c)'
  BY <1>0, <1>4, LeavingLoss
<1>5. CASE BeginBroadcast(c)
  <2>1. roster'[c] = active /\ active' = active /\ cursor'[c] = 1
    BY <1>0, <1>5 DEF BeginBroadcast, Rest, TypeOK
  <2>2. Ordered(c)'
    BY <2>1 DEF Ordered, Before
  <2>3. Lost(c)' = {}
    BY <2>1 DEF Lost, Behind
  <2> QED BY <1>0, <2>2, <2>3, NoneLost
<1>6. CASE Tell(c)
  <2>1. /\ UNCHANGED <<active, casting, roster>>
        /\ cursor'[c] = Upcoming(c) + 1
        /\ \A u : Contains(told'[c], u) <=> u = Receiver(c) \/ Contains(told[c], u)
    BY <1>6, NextReceiver DEF Tell
  <2>2. Ordered(c)' /\ Gone(c)' = Gone(c)
    <3>1. active' = active /\ roster'[c] = roster[c]
      BY <2>1
    <3> QED BY <1>0, <3>1 DEF Ordered, Gone
  <2>3. ASSUME NEW u \in Lost(c)' PROVE u \in Lost(c)
    <3>1. /\ u \in ToSet(roster[c]) \ Excluded(c)
          /\ u # Receiver(c) /\ ~ Contains(told[c], u)
      BY <2>1, <2>3 DEF Lost, Excluded
    <3>2. PICK j \in 1..Len(active) : j < Upcoming(c) + 1 /\ active[j] = u
      BY <2>1, <2>3 DEF Lost, Behind
    <3>3. j < cursor[c]
      BY <1>0, <3>1, <3>2 DEF Upcoming, Receiver
    <3> QED BY <3>1, <3>2, <3>3 DEF Lost, Behind
  <2>4. \A i, e : Before(roster[c], i, e) => Before(roster'[c], i, e)
    BY <2>1 DEF Before
  <2> QED BY <1>0, <2>2, <2>3, <2>4, LossKept
<1> QED BY <1>1, <1>2, <1>3, <1>4, <1>5, <1>6, StepShapes

LossInv == CastInv /\ LostInv

\* So a loss always has a departure behind it.
LEMMA LossInvHolds == Spec => []LossInv
<1>1. Init => LostInv
  <2> SUFFICES ASSUME Init, NEW c \in Conn
               PROVE  Ordered(c) /\ Excused(c) /\ Counted(c)
    BY DEF LostInv
  <2>1. ToSet(roster[c]) = {} /\ roster[c] = <<>>
    BY DEF Init, ToSet
  <2>2. Lost(c) = {} /\ Gone(c) = {} /\ Ordered(c)
    BY <2>1 DEF Lost, Gone, Ordered
  <2>3. Cardinality({}) = 0
    BY FS_EmptySet
  <2> QED BY <2>2, <2>3 DEF Excused, Counted
<1>2. CastInv /\ CastInv' /\ LostInv /\ [Next]_vars => LostInv'
  BY LossStep DEF CastInv, LostInv
<1> QED BY <1>1, <1>2, CastInvHolds, PTL DEF Spec, LossInv

\* At the end of a broadcast every connection missed is one it has passed over.
LEMMA MissedAreLost ==
    ASSUME ListInv, ToldInv, NEW c \in Conn, at[c] = "broadcasting", Processed(c)
    PROVE  Missed(c) \subseteq Lost(c)
<1>0. /\ TypeOK /\ Known(c) /\ Len(active) \in Nat /\ cursor[c] \in Nat
      /\ \A u : u \in ToSet(roster[c]) <=> Contains(roster[c], u)
      /\ \A u : u \in ToSet(told[c]) <=> Contains(told[c], u)
      /\ \A u \in ToSet(roster[c]) : u \in Conn \cup {None}
  <2>1. /\ TypeOK /\ Known(c) /\ active \in Seq(Conn) /\ told[c] \in Seq(Conn)
        /\ roster[c] \in Seq(Conn \cup {None}) /\ cursor[c] \in Nat
    BY DEF ListInv, ToldInv, TypeOK
  <2>2. /\ \A u : u \in ToSet(roster[c]) <=> Contains(roster[c], u)
        /\ \A u : u \in ToSet(told[c]) <=> Contains(told[c], u)
    BY <2>1, ToSetContains
  <2> QED BY <2>1, <2>2, ElementOfSeq, LenProperties DEF Contains
<1> SUFFICES ASSUME NEW u \in Missed(c) PROVE Behind(c, u) /\ ~ Contains(told[c], u)
  BY DEF Missed, Lost
<1>1. ~ Upcoming(c) <= Len(active)
  BY DEF Processed, Telling
<1>2. /\ u \in Conn /\ Contains(roster[c], u) /\ ~ Contains(told[c], u)
      /\ u \notin Excluded(c)
  BY <1>0 DEF Missed
<1>3. PICK j \in 1..Len(active) : active[j] = u
  BY <1>0, <1>2 DEF Known, Contains
<1>4. j < cursor[c]
  BY <1>0, <1>1, <1>2, <1>3 DEF Upcoming
<1> QED BY <1>2, <1>3, <1>4 DEF Behind

\* Whom a broadcast misses is bounded by those that left the list in its course,
\* and each one missed was listed behind one of them.
THEOREM MissedCorrect == Spec => MissedForGone
<1>1. ASSUME LossInv, NEW c \in Conn, at[c] = "broadcasting", Processed(c)
      PROVE  /\ Cardinality(Missed(c)) <= Cardinality(Gone(c))
             /\ \A e \in Missed(c) : \E i \in Gone(c) : Before(roster[c], i, e)
  <2>1. TypeOK /\ ListInv /\ ToldInv /\ Excused(c) /\ Counted(c)
    BY <1>1 DEF LossInv, CastInv, ListInv, LostInv
  <2>2. Missed(c) \subseteq Lost(c)
    BY <1>1, <2>1, MissedAreLost
  <2>3. IsFiniteSet(Lost(c)) /\ IsFiniteSet(Gone(c))
    <3>1. IsFiniteSet(ToSet(roster[c])) /\ IsFiniteSet(Gone(c))
      BY <2>1, ToSetContains, GoneFinite DEF TypeOK, Gone
    <3> QED BY <3>1, FS_Subset DEF Lost
  <2>4. Cardinality(Missed(c)) <= Cardinality(Gone(c))
    BY <2>1, <2>2, <2>3, CountKept DEF Counted
  <2> QED BY <2>1, <2>2, <2>4 DEF Excused
<1>2. LossInv => [\A c \in Conn : at[c] = "broadcasting" /\ Processed(c) /\ Resume(c) =>
        /\ Cardinality(Missed(c)) <= Cardinality(Gone(c))
        /\ \A e \in Missed(c) : \E i \in Gone(c) : Before(roster[c], i, e)]_vars
  BY <1>1
<1> QED BY <1>2, LossInvHolds, PTL DEF MissedForGone
=============================================================================
