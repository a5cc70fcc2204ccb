------------------------ MODULE SensorDispatch_proofs ------------------------
(****************************************************************************)
(* Machine-checked proofs about SensorDispatch, for any sensors, listeners, *)
(* polling threads, processing threads and capacity.                        *)
(****************************************************************************)
EXTENDS SensorDispatch, FiniteSetTheorems, SequenceTheorems, TLAPS

-----------------------------------------------------------------------------
(* The inductive invariant.                                                 *)

\* No more events are put or being put than the bound allows.
Bounded == Len(accepted) + Cardinality(Putting) <= MaxEvents

\* A thread has an event in hand exactly while it is at the listeners.
AtListeners == {"lookup", "sensor", "global"}
HandOK == \A w \in Worker :
    /\ at[w] \in AtListeners => Len(inHand[w]) = 1
    /\ at[w] \notin AtListeners => inHand[w] = <<>>

ThreadInv == TypeOK /\ Bounded /\ HandOK /\ OneThread

-----------------------------------------------------------------------------
(* Sequences.                                                               *)

\* A sequence that is not empty is its head and its tail.
LEMMA HeadAndTail ==
    ASSUME NEW S, NEW s \in Seq(S), s # <<>>
    PROVE  /\ Head(s) \in S
           /\ Tail(s) \in Seq(S)
           /\ Len(Tail(s)) = Len(s) - 1
           /\ s = <<Head(s)>> \o Tail(s)
<1>1. /\ Head(s) \in S /\ Tail(s) \in Seq(S)
      /\ Len(Tail(s)) = Len(s) - 1 /\ Len(s) \in Nat \ {0}
      /\ \A i \in 1..Len(s)-1 : Tail(s)[i] = s[i+1]
  BY HeadTailProperties, EmptySeq, SMT
<1>2. /\ <<Head(s)>> \in Seq(S) /\ Len(<<Head(s)>>) = 1 /\ <<Head(s)>>[1] = s[1]
  BY <1>1, SMT
<1>3. /\ <<Head(s)>> \o Tail(s) \in Seq(S)
      /\ Len(<<Head(s)>> \o Tail(s)) = 1 + Len(Tail(s))
      /\ \A i \in 1..1 + Len(Tail(s)) : (<<Head(s)>> \o Tail(s))[i] =
             IF i <= 1 THEN <<Head(s)>>[i] ELSE Tail(s)[i - 1]
  BY <1>1, <1>2, ConcatProperties, SMT
<1>4. \A i \in 1..Len(s) : (<<Head(s)>> \o Tail(s))[i] = s[i]
  BY <1>1, <1>2, <1>3, SMT
<1> QED BY <1>1, <1>3, <1>4, SeqEqual, SMT

\* A sequence of one element is its head.
LEMMA OneElement ==
    ASSUME NEW S, NEW s \in Seq(S), Len(s) = 1
    PROVE  Head(s) \in S /\ s = <<Head(s)>>
<1>1. s # <<>>
  BY EmptySeq, SMT
<1>2. Head(s) \in S /\ Head(s) = s[1]
  BY <1>1, HeadTailProperties, SMT
<1>3. <<Head(s)>> \in Seq(S) /\ Len(<<Head(s)>>) = 1 /\ <<Head(s)>>[1] = s[1]
  BY <1>2, SMT
<1> QED BY <1>2, <1>3, SeqEqual, SMT

\* What is appended to a typed sequence leaves it typed.
LEMMA Appended ==
    ASSUME NEW S, NEW s \in Seq(S), NEW x \in S
    PROVE  Append(s, x) \in Seq(S) /\ Len(Append(s, x)) = Len(s) + 1
BY AppendProperties, Zenon
-----------------------------------------------------------------------------
(* The invariant is inductive.                                              *)

\* The polling threads inside enqueue() can be counted.
LEMMA PuttingFinite == IsFiniteSet(Putting) /\ Cardinality(Putting) \in Nat
<1>1. Putting \in SUBSET Producer
  BY DEF Putting
<1>2. IsFiniteSet(Putting)
  BY <1>1, FS_Subset, DispatchAssumption DEF DispatchAssumption
<1> QED BY <1>2, FS_CardinalityType

\* The invariant holds at the start.
LEMMA ThreadInit == Init => ThreadInv
<1> SUFFICES ASSUME Init PROVE ThreadInv
  OBVIOUS
<1> USE DispatchAssumption DEF Init, DispatchAssumption
<1>1. TypeOK
  <2>1. /\ <<>> \in Seq(Event) /\ <<>> \in Seq(Listener)
        /\ Len(eventQueue) = 0
    BY EmptySeq
  <2>2. /\ eventQueue \in Seq(Event) /\ Len(eventQueue) <= Capacity
        /\ accepted \in Seq(Event) /\ handled \in Seq(Event)
        /\ listeners \in [Scope -> Seq(Listener)]
        /\ inHand \in [Worker -> Seq(Event)]
        /\ heard \in [Listener -> Seq(Event)]
    BY <2>1
  <2>3. /\ thread \in Worker \cup {None} /\ stopEvent \in BOOLEAN
        /\ owner \in {"none", "start", "stop", "joining"}
        /\ pending \in [Producer -> Sensor \cup {None}]
        /\ at \in [Worker -> {"ended", "check", "get", "lookup", "sensor", "global"}]
    OBVIOUS
  <2>4. 1 \in Nat \ {0} /\ 0 \in Nat
    OBVIOUS
  <2>5. next \in [Worker -> Nat \ {0}] /\ since \in [Listener -> Nat]
    BY <2>4, Zenon
  <2> QED BY <2>2, <2>3, <2>5 DEF TypeOK
<1>2. Bounded
  <2>1. Putting = {}
    BY DEF Putting
  <2>2. Cardinality(Putting) = 0
    BY <2>1, FS_EmptySet
  <2> QED BY <2>2, EmptySeq, SMT DEF Bounded
<1>3. HandOK /\ OneThread
  BY DEF HandOK, AtListeners, OneThread, Alive
<1> QED BY <1>1, <1>2, <1>3 DEF ThreadInv

\* An event about to be put is one more than there are, and within the bound.
LEMMA PutEvent ==
    ASSUME TypeOK, Bounded, NEW p \in Producer, pending[p] # None
    PROVE  [sensor |-> pending[p], nr |-> Len(accepted) + 1] \in Event
<1>1. p \in Putting
  BY DEF Putting
<1>2. Cardinality(Putting) # 0
  BY <1>1, PuttingFinite, FS_EmptySet
<1>3. Len(accepted) \in Nat
  BY LenProperties DEF TypeOK
<1>4. Len(accepted) + 1 \in 1..MaxEvents
  BY <1>2, <1>3, PuttingFinite, DispatchAssumption, SMT DEF Bounded, DispatchAssumption
<1>5. pending[p] \in Sensor
  BY DEF TypeOK
<1> QED BY <1>4, <1>5 DEF Event

\* The polling threads keep the invariant.
LEMMA ProducerKeeps ==
    ASSUME ThreadInv, NEW p \in Producer,
           Put(p) \/ \E s \in Sensor : Enqueue(p, s)
    PROVE  ThreadInv'
<1> USE DEF ThreadInv
<1>0. Len(accepted) \in Nat
  BY LenProperties DEF TypeOK
<1>1. CASE Put(p)
  <2> DEFINE e == [sensor |-> pending[p], nr |-> Len(accepted) + 1]
  <2> USE <1>1 DEF Put
  <2>1. e \in Event
    BY PutEvent
  <2>2. /\ Append(eventQueue, e) \in Seq(Event)
        /\ Len(Append(eventQueue, e)) = Len(eventQueue) + 1
        /\ Append(accepted, e) \in Seq(Event)
        /\ Len(Append(accepted, e)) = Len(accepted) + 1
    BY <2>1, Appended DEF TypeOK
  <2>3. Len(eventQueue) \in Nat
    BY LenProperties DEF TypeOK
  <2> HIDE DEF e
  <2>4. eventQueue' = Append(eventQueue, e) /\ accepted' = Append(accepted, e)
    BY DEF e
  <2>5. TypeOK'
    BY <2>2, <2>3, <2>4, DispatchAssumption, SMT
       DEF TypeOK, DispatchAssumption, threadVars, Scope
  <2>6. Bounded'
    <3>1. Putting' = Putting \ {p} /\ p \in Putting
      BY DEF Putting, TypeOK
    <3>2. Cardinality(Putting') = Cardinality(Putting) - 1
      BY <3>1, PuttingFinite, FS_RemoveElement
    <3> QED BY <1>0, <2>2, <2>4, <3>2, PuttingFinite, SMT DEF Bounded
  <2>7. HandOK' /\ OneThread'
    BY DEF HandOK, AtListeners, OneThread, Alive, threadVars
  <2> QED BY <2>5, <2>6, <2>7
<1>2. ASSUME NEW s \in Sensor, Enqueue(p, s) PROVE ThreadInv'
  <2> USE <1>2 DEF Enqueue
  <2>1. TypeOK'
    BY DEF TypeOK, history, threadVars, Scope
  <2>2. Bounded'
    <3>1. Putting' = Putting \cup {p} /\ p \notin Putting
      BY DispatchAssumption DEF Putting, TypeOK, DispatchAssumption
    <3>2. Cardinality(Putting') = Cardinality(Putting) + 1
      BY <3>1, PuttingFinite, FS_AddElement
    <3>3. accepted' = accepted
      BY DEF history
    <3> QED BY <1>0, <3>2, <3>3, PuttingFinite, DispatchAssumption, SMT
            DEF Bounded, DispatchAssumption
  <2>3. HandOK' /\ OneThread'
    BY DEF HandOK, AtListeners, OneThread, Alive, threadVars
  <2> QED BY <2>1, <2>2, <2>3
<1> QED BY <1>1, <1>2

\* The owner and the registration of listeners keep the invariant.
LEMMA OwnerKeeps ==
    ASSUME ThreadInv,
           \/ StartProcessing \/ StopProcessing \/ JoinReturns
           \/ \E l \in Listener, s \in Scope : Register(l, s)
    PROVE  ThreadInv'
<1> USE DEF ThreadInv
<1>1. CASE StartProcessing
  <2> USE <1>1 DEF StartProcessing
  <2>1. TypeOK'
    BY DEF TypeOK, history, Scope
  <2>2. Bounded'
    BY DEF Bounded, Putting, history
  <2>3. HandOK'
    BY DEF HandOK, AtListeners, TypeOK, Alive
  <2>4. OneThread'
    <3>1. CASE thread # None /\ Alive(thread)
      BY <3>1 DEF OneThread, Alive
    <3>2. CASE ~ (thread # None /\ Alive(thread))
      <4>1. \A w \in Worker : ~ Alive(w)
        BY <3>2, DispatchAssumption DEF OneThread, DispatchAssumption
      <4>2. PICK w \in Worker : thread' = w /\ at' = [at EXCEPT ![w] = "check"]
        BY <3>2
      <4> QED BY <4>1, <4>2 DEF OneThread, Alive, TypeOK
    <3> QED BY <3>1, <3>2
  <2> QED BY <2>1, <2>2, <2>3, <2>4
<1>2. CASE StopProcessing \/ JoinReturns
  <2> USE <1>2 DEF StopProcessing, JoinReturns
  <2>1. TypeOK'
    BY DEF TypeOK, history, Scope
  <2>2. Bounded' /\ HandOK' /\ OneThread'
    BY DEF Bounded, Putting, HandOK, AtListeners, OneThread, Alive, history
  <2> QED BY <2>1, <2>2
<1>3. ASSUME NEW l \in Listener, NEW s \in Scope, Register(l, s) PROVE ThreadInv'
  <2> USE <1>3 DEF Register
  <2>1. Append(listeners[s], l) \in Seq(Listener) /\ Len(accepted) \in Nat
    BY Appended, LenProperties DEF TypeOK
  <2>2. TypeOK'
    BY <2>1 DEF TypeOK, threadVars, Scope
  <2>3. Bounded' /\ HandOK' /\ OneThread'
    BY DEF Bounded, Putting, HandOK, AtListeners, OneThread, Alive, threadVars
  <2> QED BY <2>2, <2>3
<1> QED BY <1>1, <1>2, <1>3

\* What a thread that calls listeners has in hand.
LEMMA InHand ==
    ASSUME TypeOK, HandOK, NEW w \in Worker, at[w] \in AtListeners
    PROVE  Head(inHand[w]) \in Event /\ inHand[w] = <<Head(inHand[w])>>
BY OneElement, Zenon DEF TypeOK, HandOK, AtListeners

\* The processing threads keep the invariant.
LEMMA WorkerKeeps ==
    ASSUME ThreadInv, NEW w \in Worker, WorkerStep(w)
    PROVE  ThreadInv'
<1> USE DEF ThreadInv, Goes
<1>1. CASE Check(w) \/ GetTimesOut(w) \/ LookUp(w)
  <2> USE <1>1 DEF Check, GetTimesOut, LookUp
  <2>1. TypeOK'
    BY DEF TypeOK, history, Scope
  <2>2. Bounded'
    BY DEF Bounded, Putting, history
  <2>3. HandOK' /\ OneThread'
    BY DEF HandOK, AtListeners, OneThread, Alive, TypeOK
  <2> QED BY <2>1, <2>2, <2>3
<1>2. CASE Get(w)
  <2> USE <1>2 DEF Get
  <2>1. /\ Head(eventQueue) \in Event
        /\ Tail(eventQueue) \in Seq(Event)
        /\ Len(Tail(eventQueue)) = Len(eventQueue) - 1
    BY HeadAndTail DEF TypeOK
  <2>2. Len(eventQueue) \in Nat
    BY LenProperties DEF TypeOK
  <2>3. TypeOK'
    BY <2>1, <2>2, DispatchAssumption, SMT DEF TypeOK, history, Scope, DispatchAssumption
  <2>4. Bounded'
    BY DEF Bounded, Putting, history
  <2>5. HandOK'
    BY DEF HandOK, AtListeners, TypeOK
  <2>6. OneThread'
    BY DEF OneThread, Alive, TypeOK
  <2> QED BY <2>3, <2>4, <2>5, <2>6
<1>3. CASE CallListener(w)
  <2> USE <1>3 DEF CallListener
  <2>1. Head(inHand[w]) \in Event
    BY InHand DEF AtListeners
  <2>2. ListOf(w) \in Seq(Listener)
    BY <2>1 DEF ListOf, TypeOK, Event, Scope
  <2>3. ListOf(w)[next[w]] \in Listener
    BY <2>2, ElementOfSeq, LenProperties, SMT DEF TypeOK
  <2>4. TypeOK'
    <3> DEFINE l == ListOf(w)[next[w]]
    <3>1. Append(heard[l], Head(inHand[w])) \in Seq(Event)
      BY <2>1, <2>3, Appended DEF TypeOK
    <3>2. heard' = [heard EXCEPT ![l] = Append(heard[l], Head(inHand[w]))]
      BY DEF TypeOK
    <3> HIDE DEF l
    <3>3. heard' \in [Listener -> Seq(Event)]
      BY <3>1, <3>2 DEF TypeOK
    <3>4. next' \in [Worker -> Nat \ {0}]
      BY DEF TypeOK
    <3> QED BY <3>3, <3>4 DEF TypeOK, Scope
  <2>5. Bounded' /\ HandOK' /\ OneThread'
    BY DEF Bounded, Putting, HandOK, AtListeners, OneThread, Alive
  <2> QED BY <2>4, <2>5
<1>4. CASE ToGlobal(w)
  <2> USE <1>4 DEF ToGlobal
  <2>1. TypeOK'
    BY DEF TypeOK, history, Scope
  <2>2. Bounded'
    BY DEF Bounded, Putting, history
  <2>3. HandOK' /\ OneThread'
    BY DEF HandOK, AtListeners, OneThread, Alive, TypeOK
  <2> QED BY <2>1, <2>2, <2>3
<1>5. CASE Done(w)
  <2> USE <1>5 DEF Done
  <2>1. Append(handled, Head(inHand[w])) \in Seq(Event)
    BY InHand, Appended DEF TypeOK, AtListeners
  <2>2. TypeOK'
    BY <2>1 DEF TypeOK, Scope
  <2>3. Bounded' /\ HandOK' /\ OneThread'
    BY DEF Bounded, Putting, HandOK, AtListeners, OneThread, Alive, TypeOK
  <2> QED BY <2>2, <2>3
<1> QED BY <1>1, <1>2, <1>3, <1>4, <1>5 DEF WorkerStep

\* Every step keeps the invariant.
LEMMA ThreadStep == ThreadInv /\ [Next]_vars => ThreadInv'
<1> SUFFICES ASSUME ThreadInv, [Next]_vars PROVE ThreadInv'
  OBVIOUS
<1>1. CASE UNCHANGED vars
  BY <1>1 DEF vars, threadVars, history, ThreadInv, TypeOK, Bounded, Putting,
              HandOK, OneThread, Alive
<1>2. CASE Next
  BY <1>2, OwnerKeeps, ProducerKeeps, WorkerKeeps DEF Next
<1> QED BY <1>1, <1>2

\* The invariant holds for ever.
LEMMA ThreadInvHolds == Spec => []ThreadInv
<1> QED BY ThreadInit, ThreadStep, PTL DEF Spec

\* TypeOK: every variable keeps its type; in particular the queue of
\* dispatcher.py:34 never holds more than its maxsize.
THEOREM TypeCorrect == Spec => []TypeOK
<1>1. ThreadInv => TypeOK
  BY DEF ThreadInv
<1> QED BY <1>1, ThreadInvHolds, PTL

\* OneThread: stops and restarts never leave two processing threads running,
\* and the one that runs is processing_thread.
THEOREM ThreadIsOne == Spec => []OneThread
<1>1. ThreadInv => OneThread
  BY DEF ThreadInv
<1> QED BY <1>1, ThreadInvHolds, PTL

-----------------------------------------------------------------------------
(* No event is lost, doubled or overtaken.                                  *)

\* With one thread, the events in hand are those of the thread that is alive.
LEMMA TakenOf ==
    ASSUME ThreadInv, NEW w \in Worker, Alive(w)
    PROVE  thread = w /\ Taken = inHand[w]
BY DispatchAssumption DEF ThreadInv, OneThread, Taken, DispatchAssumption

\* Nothing is in hand when the thread that would hold it has ended.
LEMMA TakenNone ==
    ASSUME ThreadInv, thread = None \/ ~ Alive(thread)
    PROVE  Taken = <<>>
BY DEF ThreadInv, HandOK, AtListeners, Alive, Taken, TypeOK

\* At most one event is in hand.
LEMMA TakenType == ThreadInv => Taken \in Seq(Event) /\ Len(Taken) <= 1
<1> SUFFICES ASSUME ThreadInv PROVE Taken \in Seq(Event) /\ Len(Taken) <= 1
  OBVIOUS
<1>1. CASE thread = None
  BY <1>1, EmptySeq, SMT DEF Taken
<1>2. CASE thread # None /\ at[thread] \in AtListeners
  <2>1. /\ thread \in Worker /\ Taken = inHand[thread]
        /\ inHand[thread] \in Seq(Event) /\ Len(inHand[thread]) = 1
    BY <1>2 DEF ThreadInv, TypeOK, HandOK, AtListeners, Taken
  <2> QED BY <2>1, SMT
<1>3. CASE thread # None /\ at[thread] \notin AtListeners
  <2>1. Taken = <<>>
    BY <1>3 DEF ThreadInv, TypeOK, HandOK, AtListeners, Taken
  <2> QED BY <2>1, EmptySeq, SMT
<1> QED BY <1>1, <1>2, <1>3

\* Every step keeps the order of the events.
LEMMA ConservedStep == ThreadInv /\ ThreadInv' /\ Conserved /\ [Next]_vars => Conserved'
<1> SUFFICES ASSUME ThreadInv, ThreadInv', Conserved, [Next]_vars PROVE Conserved'
  OBVIOUS
<1>t. /\ accepted \in Seq(Event) /\ handled \in Seq(Event) /\ eventQueue \in Seq(Event)
      /\ Taken \in Seq(Event)
  BY TakenType DEF ThreadInv, TypeOK
<1>1. CASE UNCHANGED vars
  BY <1>1 DEF vars, threadVars, history, Conserved, Taken
<1>2. CASE StartProcessing
  <2>1. CASE thread # None /\ Alive(thread)
    BY <1>2, <2>1 DEF StartProcessing, history, Conserved, Taken
  <2>2. CASE ~ (thread # None /\ Alive(thread))
    <3>1. PICK w \in Worker : ~ Alive(w) /\ thread' = w
      BY <1>2, <2>2 DEF StartProcessing
    <3>2. Taken' = <<>>
      BY <1>2, <3>1, DispatchAssumption
         DEF StartProcessing, Taken, ThreadInv, HandOK, AtListeners, Alive, DispatchAssumption
    <3>3. Taken = <<>>
      BY <2>2, TakenNone
    <3> QED BY <1>2, <3>2, <3>3 DEF StartProcessing, history, Conserved
  <2> QED BY <2>1, <2>2
<1>3. CASE \/ StopProcessing \/ JoinReturns
           \/ \E l \in Listener, s \in Scope : Register(l, s)
           \/ \E p \in Producer, s \in Sensor : Enqueue(p, s)
  BY <1>3 DEF StopProcessing, JoinReturns, Register, Enqueue, threadVars, history,
              Conserved, Taken
<1>4. ASSUME NEW p \in Producer, Put(p) PROVE Conserved'
  <2> DEFINE e == [sensor |-> pending[p], nr |-> Len(accepted) + 1]
  <2>1. e \in Event
    BY <1>4, PutEvent DEF ThreadInv, Put
  <2>2. eventQueue' = Append(eventQueue, e) /\ accepted' = Append(accepted, e)
        /\ handled' = handled /\ Taken' = Taken
    BY <1>4 DEF Put, threadVars, Taken
  <2> HIDE DEF e
  <2>3. /\ <<e>> \in Seq(Event)
        /\ Append(eventQueue, e) = eventQueue \o <<e>>
        /\ Append(accepted, e) = accepted \o <<e>>
    BY <1>t, <2>1, AppendIsConcat
  <2>4. handled \o Taken \in Seq(Event)
    BY <1>t, ConcatProperties
  <2>5. ((handled \o Taken) \o eventQueue) \o <<e>> = (handled \o Taken) \o (eventQueue \o <<e>>)
    BY <1>t, <2>3, <2>4, ConcatAssociative
  <2> QED BY <2>2, <2>3, <2>5 DEF Conserved
<1>5. ASSUME NEW w \in Worker, \/ Check(w) \/ GetTimesOut(w) \/ LookUp(w)
                               \/ CallListener(w) \/ ToGlobal(w)
      PROVE  Conserved'
  BY <1>5 DEF Check, GetTimesOut, LookUp, CallListener, ToGlobal, history, Conserved, Taken
<1>6. ASSUME NEW w \in Worker, Get(w) PROVE Conserved'
  <2> DEFINE e == Head(eventQueue)
             r == Tail(eventQueue)
  <2>1. e \in Event /\ r \in Seq(Event) /\ eventQueue = <<e>> \o r
    BY <1>6, <1>t, HeadAndTail DEF Get
  <2>2. Taken = <<>> /\ Taken' = <<e>>
    <3>1. thread = w /\ thread # None
      BY <1>6, TakenOf, DispatchAssumption DEF Get, Alive, DispatchAssumption
    <3> QED BY <1>6, <3>1 DEF Get, Taken, ThreadInv, HandOK, AtListeners, TypeOK
  <2>3. eventQueue' = r /\ accepted' = accepted /\ handled' = handled
    BY <1>6 DEF Get, history
  <2> HIDE DEF e, r
  <2>4. <<e>> \in Seq(Event)
    BY <2>1
  <2>5. handled \o <<>> = handled
    BY <1>t, ConcatEmptySeq
  <2>6. (handled \o <<e>>) \o r = handled \o (<<e>> \o r)
    BY <1>t, <2>1, <2>4, ConcatAssociative
  <2> QED BY <2>1, <2>2, <2>3, <2>5, <2>6 DEF Conserved
<1>7. ASSUME NEW w \in Worker, Done(w) PROVE Conserved'
  <2> DEFINE e == Head(inHand[w])
  <2>1. e \in Event /\ inHand[w] = <<e>>
    BY <1>7, InHand DEF Done, ThreadInv, AtListeners
  <2>2. Taken = <<e>> /\ Taken' = <<>>
    <3>1. thread = w /\ thread # None /\ Taken = inHand[w]
      BY <1>7, TakenOf, DispatchAssumption DEF Done, Alive, DispatchAssumption
    <3> QED BY <1>7, <2>1, <3>1 DEF Done, Taken, ThreadInv, TypeOK
  <2>3. handled' = Append(handled, e) /\ accepted' = accepted /\ eventQueue' = eventQueue
    BY <1>7 DEF Done
  <2> HIDE DEF e
  <2>4. <<e>> \in Seq(Event) /\ Append(handled, e) = handled \o <<e>>
    BY <1>t, <2>1, AppendIsConcat
  <2>5. handled \o <<e>> \in Seq(Event)
    BY <1>t, <2>4, ConcatProperties
  <2>6. (handled \o <<e>>) \o <<>> = handled \o <<e>>
    BY <2>5, ConcatEmptySeq
  <2> QED BY <2>2, <2>3, <2>4, <2>6 DEF Conserved
<1> QED BY <1>1, <1>2, <1>3, <1>4, <1>5, <1>6, <1>7 DEF Next, WorkerStep

\* At the start there is nothing anywhere.
LEMMA ConservedInit == Init => Conserved
<1>1. <<>> \in Seq(Event) /\ <<>> \o <<>> = <<>>
  BY EmptySeq, ConcatEmptySeq
<1> QED BY <1>1, Zenon DEF Init, Conserved, Taken

\* Conserved: what enqueue() has put is what the listeners are done with, then
\* what the thread has in hand, then what is queued, across stops, joins that
\* give up and restarts (dispatcher.py:38-75).
THEOREM ConservedCorrect == Spec => []Conserved
<1>1. ThreadInv /\ ThreadInv' /\ Conserved /\ [Next]_vars => Conserved'
  BY ConservedStep
<1> QED BY ConservedInit, <1>1, ThreadInvHolds, PTL DEF Spec

-----------------------------------------------------------------------------
(* The dispatcher implements the channel.                                   *)

\* Put is an Accept, Done a Deliver, and every other step leaves the channel alone.
LEMMA ChannelStep ==
    ThreadInv /\ Conserved /\ [Next]_vars => [Channel!Accept \/ Channel!Deliver]_(Channel!vars)
<1> SUFFICES ASSUME ThreadInv, Conserved, [Next]_vars
             PROVE  [Channel!Accept \/ Channel!Deliver]_(Channel!vars)
  OBVIOUS
<1>t. /\ accepted \in Seq(Event) /\ handled \in Seq(Event) /\ eventQueue \in Seq(Event)
      /\ Taken \in Seq(Event) /\ Len(Taken) <= 1
      /\ Len(accepted) \in Nat /\ Len(handled) \in Nat /\ Len(eventQueue) \in Nat
      /\ Len(Taken) \in Nat
  BY TakenType, LenProperties DEF ThreadInv, TypeOK
<1>o. /\ handled \o Taken \in Seq(Event)
      /\ Len(handled \o Taken) = Len(handled) + Len(Taken)
      /\ \A i \in 1..Len(handled) + Len(Taken) :
           (handled \o Taken)[i] = IF i <= Len(handled) THEN handled[i] ELSE Taken[i - Len(handled)]
  BY <1>t, ConcatProperties
<1>a. /\ Len(accepted) = Len(handled) + Len(Taken) + Len(eventQueue)
      /\ \A i \in 1..Len(handled) + Len(Taken) : accepted[i] = (handled \o Taken)[i]
  <2>1. accepted = (handled \o Taken) \o eventQueue
    BY DEF Conserved
  <2>2. /\ Len((handled \o Taken) \o eventQueue) = Len(handled \o Taken) + Len(eventQueue)
        /\ \A i \in 1..Len(handled \o Taken) + Len(eventQueue) :
             ((handled \o Taken) \o eventQueue)[i] =
               IF i <= Len(handled \o Taken) THEN (handled \o Taken)[i]
               ELSE eventQueue[i - Len(handled \o Taken)]
    BY <1>t, <1>o, ConcatProperties
  <2> QED BY <1>t, <1>o, <2>1, <2>2, SMT
<1>1. ASSUME NEW p \in Producer, Put(p) PROVE Channel!Accept
  <2> DEFINE e == [sensor |-> pending[p], nr |-> Len(accepted) + 1]
  <2>1. e \in Event
    BY <1>1, PutEvent DEF ThreadInv, Put
  <2>2. Len(accepted) < Len(handled) + (Capacity + 1)
    <3>1. Len(eventQueue) < Capacity
      BY <1>1 DEF Put
    <3> QED BY <1>t, <1>a, <3>1, DispatchAssumption, SMT DEF DispatchAssumption
  <2>3. accepted' = Append(accepted, e) /\ UNCHANGED handled
    BY <1>1 DEF Put
  <2> HIDE DEF e
  <2> QED BY <2>1, <2>2, <2>3 DEF Channel!Accept
<1>2. ASSUME NEW w \in Worker, Done(w) PROVE Channel!Deliver
  <2> DEFINE e == Head(inHand[w])
  <2>1. inHand[w] = <<e>>
    BY <1>2, InHand DEF Done, ThreadInv, AtListeners
  <2>2. Taken = <<e>>
    BY <1>2, <2>1, TakenOf DEF Done, Alive
  <2>3. handled' = Append(handled, e) /\ UNCHANGED accepted
    BY <1>2 DEF Done
  <2> HIDE DEF e
  <2>4. Len(Taken) = 1 /\ Taken[1] = e
    BY <2>2
  <2>5. Len(handled) < Len(accepted)
    BY <1>t, <1>a, <2>4, SMT
  <2>6. accepted[Len(handled) + 1] = e
    BY <1>t, <1>o, <1>a, <2>4, SMT
  <2> QED BY <2>3, <2>5, <2>6 DEF Channel!Deliver
<1>3. CASE \/ UNCHANGED vars
           \/ StartProcessing \/ StopProcessing \/ JoinReturns
           \/ \E l \in Listener, s \in Scope : Register(l, s)
           \/ \E p \in Producer, s \in Sensor : Enqueue(p, s)
           \/ \E w \in Worker : \/ Check(w) \/ Get(w) \/ GetTimesOut(w)
                               \/ LookUp(w) \/ CallListener(w) \/ ToGlobal(w)
  BY <1>3 DEF vars, threadVars, history, StartProcessing, StopProcessing, JoinReturns,
              Register, Enqueue, Check, Get, GetTimesOut, LookUp, CallListener, ToGlobal, Channel!vars
<1> QED BY <1>1, <1>2, <1>3 DEF Next, WorkerStep

\* The dispatcher starts as an empty channel.
LEMMA ChannelInit == Init => Channel!Init
BY DEF Init, Channel!Init

\* ImplementsChannel: the dispatcher delivers what it accepts, each event once
\* and in order, and holds at most its queue and the event in hand.
THEOREM ChannelImplemented == Spec => ImplementsChannel
<1> QED BY ChannelInit, ChannelStep, ThreadInvHolds, ConservedCorrect, PTL
        DEF Spec, ImplementsChannel, Channel!Spec

-----------------------------------------------------------------------------
(* What the listeners hear.                                                 *)

\* The thread w goes through the listeners with an event.
Holds(w) == at[w] \in AtListeners

\* The kth listener of s is still to be called with that event.
Due(w, s, k) ==
    \/ at[w] \in {"lookup", "sensor"} /\ s = Head(inHand[w]).sensor /\ next[w] <= k
    \/ at[w] \in {"lookup", "sensor"} /\ s = Everywhere
    \/ at[w] = "global" /\ s = Everywhere /\ next[w] <= k

\* Events are numbered in the order they were put.
Numbered == \A i \in 1..Len(accepted) : accepted[i].nr = i

\* A thread that is not yet at a list begins with its first listener.
AtFirst == \A w \in Worker : at[w] \notin {"sensor", "global"} => next[w] = 1

\* No listener is registered twice, and none that is not hears anything.
RegisteredOnce == \A s, t \in Scope :
    \A i \in 1..Len(listeners[s]), j \in 1..Len(listeners[t]) :
        listeners[s][i] = listeners[t][j] => s = t /\ i = j
SilentBefore == \A l \in Listener :
    heard[l] = <<>> \/ \E s \in Scope : Contains(listeners[s], l)

\* What a listener l, the kth of s, has heard: events in order, none later than
\* the one in a thread's hand, which it has heard only if it is not due.
InOrder(l) == \A i, j \in 1..Len(heard[l]) : i < j => heard[l][i].nr < heard[l][j].nr
UpToDate(l, s, k) == \A i \in 1..Len(heard[l]) :
    \/ heard[l][i].nr <= Len(handled)
    \/ heard[l][i].nr = Len(handled) + 1 /\ \E w \in Worker : Holds(w) /\ ~ Due(w, s, k)

\* It has heard all that is done, and the event in hand if it is not due.
Wants(l, s, e) == s \in {e.sensor, Everywhere} /\ e.nr > since[l]
HeardDone(l, s) == \A i \in 1..Len(handled) :
    Wants(l, s, handled[i]) => Contains(heard[l], handled[i])
HeardInHand(l, s, k) == \A w \in Worker :
    Holds(w) /\ ~ Due(w, s, k) /\ Wants(l, s, Head(inHand[w])) => Contains(heard[l], Head(inHand[w]))

Hears(l, s, k) == InOrder(l) /\ UpToDate(l, s, k) /\ HeardDone(l, s) /\ HeardInHand(l, s, k)
Hearing == \A s \in Scope : \A k \in 1..Len(listeners[s]) : Hears(listeners[s][k], s, k)

HearInv == Numbered /\ AtFirst /\ RegisteredOnce /\ SilentBefore /\ Hearing

\* All that the dispatcher's invariants say so far.
Base == ThreadInv /\ Conserved

\* At most one thread holds an event.
LEMMA OneHolds ==
    ASSUME Base, NEW v \in Worker, NEW w \in Worker, at[v] # "ended", at[w] # "ended"
    PROVE  v = w
BY DEF Base, ThreadInv, OneThread, Alive

\* The elements of the first two of three sequences put together.
LEMMA ConcatElements ==
    ASSUME NEW a \in Seq(Event), NEW b \in Seq(Event), NEW c \in Seq(Event),
           NEW q, q = a \o b \o c
    PROVE  /\ Len(q) = Len(a) + Len(b) + Len(c)
           /\ \A i \in 1..Len(a) : q[i] = a[i]
           /\ \A i \in 1..Len(b) : q[Len(a) + i] = b[i]
<1> DEFINE ab == a \o b
<1>1. Len(a) \in Nat /\ Len(b) \in Nat /\ Len(c) \in Nat
  BY LenProperties
<1>2. /\ ab \in Seq(Event) /\ Len(ab) = Len(a) + Len(b)
      /\ \A i \in 1..Len(a) + Len(b) :
            ab[i] = IF i <= Len(a) THEN a[i] ELSE b[i - Len(a)]
  BY ConcatProperties, Zenon
<1> HIDE DEF ab
<1>3. ab \in Seq(Event)
  BY <1>2
<1>4. /\ Len(ab \o c) = Len(ab) + Len(c)
      /\ \A i \in 1..Len(ab) + Len(c) :
            (ab \o c)[i] = IF i <= Len(ab) THEN ab[i] ELSE c[i - Len(ab)]
  BY <1>3, ConcatProperties, Zenon
<1>5. ASSUME NEW i \in 1..Len(a) PROVE (ab \o c)[i] = a[i]
  BY <1>1, <1>2, <1>4
<1>6. ASSUME NEW i \in 1..Len(b) PROVE (ab \o c)[Len(a) + i] = b[i]
  <2>1. /\ Len(a) + i \in 1..Len(a) + Len(b) /\ ~ (Len(a) + i <= Len(a))
        /\ (Len(a) + i) - Len(a) = i
    BY <1>1
  <2>2. ab[Len(a) + i] = b[i]
    BY <1>2, <2>1
  <2>3. (ab \o c)[Len(a) + i] = ab[Len(a) + i]
    BY <1>1, <1>2, <1>4, <2>1
  <2> QED BY <2>2, <2>3
<1>7. q = ab \o c
  BY DEF ab
<1> QED BY <1>1, <1>2, <1>4, <1>5, <1>6, <1>7

\* The events done with are the first that were put.
LEMMA HandledNumbers ==
    ASSUME Base, Numbered
    PROVE  /\ Len(handled) \in Nat /\ Len(accepted) \in Nat /\ Len(handled) <= Len(accepted)
           /\ \A i \in 1..Len(handled) : handled[i] \in Event /\ handled[i].nr = i
<1>1. /\ accepted \in Seq(Event) /\ handled \in Seq(Event) /\ eventQueue \in Seq(Event)
      /\ Taken \in Seq(Event) /\ accepted = handled \o Taken \o eventQueue
  BY TakenType DEF Base, ThreadInv, TypeOK, Conserved
<1>2. /\ Len(accepted) = Len(handled) + Len(Taken) + Len(eventQueue)
      /\ \A i \in 1..Len(handled) : accepted[i] = handled[i]
  BY <1>1, ConcatElements
<1>3. Len(handled) \in Nat /\ Len(Taken) \in Nat /\ Len(eventQueue) \in Nat /\ Len(accepted) \in Nat
  BY <1>1, LenProperties
<1>4. ASSUME NEW i \in 1..Len(handled) PROVE handled[i] \in Event /\ handled[i].nr = i
  <2>1. i \in 1..Len(accepted) /\ accepted[i] = handled[i]
    BY <1>2, <1>3
  <2>2. handled[i] \in Event
    BY <1>1, ElementOfSeq
  <2> QED BY <2>1, <2>2 DEF Numbered
<1> QED BY <1>2, <1>3, <1>4

\* The event in hand is the next one.
LEMMA InHandNumber ==
    ASSUME Base, Numbered, NEW w \in Worker, Holds(w)
    PROVE  /\ Head(inHand[w]) \in Event
           /\ Head(inHand[w]).nr = Len(handled) + 1
           /\ Len(handled) + 1 <= Len(accepted)
<1>1. /\ accepted \in Seq(Event) /\ handled \in Seq(Event) /\ eventQueue \in Seq(Event)
      /\ Taken \in Seq(Event) /\ accepted = handled \o Taken \o eventQueue
  BY TakenType DEF Base, ThreadInv, TypeOK, Conserved
<1>2. Head(inHand[w]) \in Event /\ inHand[w] = <<Head(inHand[w])>>
  BY InHand DEF Holds, AtListeners, Base, ThreadInv
<1>3. Taken = <<Head(inHand[w])>>
  BY <1>2, TakenOf DEF Base, Holds, AtListeners, Alive
<1>4. Len(Taken) = 1 /\ Taken[1] = Head(inHand[w])
  BY <1>3
<1>5. /\ Len(accepted) = Len(handled) + Len(Taken) + Len(eventQueue)
      /\ \A i \in 1..Len(Taken) : accepted[Len(handled) + i] = Taken[i]
  BY <1>1, ConcatElements
<1>6. Len(handled) \in Nat /\ Len(eventQueue) \in Nat
  BY <1>1, LenProperties
<1>7. accepted[Len(handled) + 1] = Head(inHand[w]) /\ Len(handled) + 1 \in 1..Len(accepted)
  BY <1>4, <1>5, <1>6
<1> QED BY <1>2, <1>7 DEF Numbered

\* The invariant holds at the start.
LEMMA HearInit == Init => HearInv
<1> SUFFICES ASSUME Init PROVE HearInv
  OBVIOUS
<1>1. Len(accepted) = 0 /\ \A s \in Scope : Len(listeners[s]) = 0
  BY EmptySeq DEF Init
<1>2. Numbered /\ RegisteredOnce /\ Hearing
  BY <1>1, SMT DEF Numbered, RegisteredOnce, Hearing
<1>3. AtFirst /\ SilentBefore
  BY DEF Init, AtFirst, SilentBefore
<1> QED BY <1>2, <1>3 DEF HearInv

\* A step that leaves alone what listeners hear, and every event in hand, keeps
\* the invariant.
LEMMA NothingHeard ==
    ASSUME HearInv, UNCHANGED <<listeners, heard, handled, since, accepted>>,
           \A w \in Worker : /\ Holds(w)' <=> Holds(w)
                             /\ Holds(w) => at'[w] = at[w]
                             /\ inHand'[w] = inHand[w] /\ next'[w] = next[w]
    PROVE  HearInv'
<1>1. \A w \in Worker : \A s, k : Holds(w) => (Due(w, s, k)' <=> Due(w, s, k))
  BY DEF Due, Holds, AtListeners
<1>2. Numbered' /\ AtFirst' /\ RegisteredOnce' /\ SilentBefore'
  BY DEF HearInv, Numbered, AtFirst, RegisteredOnce, SilentBefore, Holds, AtListeners
<1>3. ASSUME NEW l, NEW s, NEW k, Hears(l, s, k) PROVE Hears(l, s, k)'
  <2>1. InOrder(l)' /\ HeardDone(l, s)'
    BY <1>3 DEF Hears, InOrder, HeardDone, Wants
  <2>2. UpToDate(l, s, k)'
    BY <1>1, <1>3 DEF Hears, UpToDate
  <2>3. HeardInHand(l, s, k)'
    BY <1>1, <1>3 DEF Hears, HeardInHand, Wants
  <2> QED BY <2>1, <2>2, <2>3 DEF Hears
<1>4. Hearing'
  BY <1>3 DEF HearInv, Hearing
<1> QED BY <1>2, <1>4 DEF HearInv

\* What is appended comes last, and what was contained still is.
LEMMA AppendContains ==
    ASSUME NEW S, NEW q \in Seq(S), NEW x \in S
    PROVE  /\ Append(q, x) \in Seq(S) /\ Len(Append(q, x)) = Len(q) + 1 /\ Len(q) \in Nat
           /\ \A i \in 1..Len(q) : Append(q, x)[i] = q[i]
           /\ Append(q, x)[Len(q) + 1] = x
           /\ Contains(Append(q, x), x)
           /\ \A u : Contains(q, u) => Contains(Append(q, x), u)
<1>1. /\ Append(q, x) \in Seq(S) /\ Len(Append(q, x)) = Len(q) + 1 /\ Len(q) \in Nat
      /\ \A i \in 1..Len(q) : Append(q, x)[i] = q[i]
      /\ Append(q, x)[Len(q) + 1] = x
  BY AppendProperties, LenProperties, SMT
<1>2. Contains(Append(q, x), x)
  BY <1>1, Len(q) + 1 \in 1..Len(Append(q, x)), SMT DEF Contains
<1>3. ASSUME NEW u, Contains(q, u) PROVE Contains(Append(q, x), u)
  BY <1>1, <1>3, SMT DEF Contains
<1> QED BY <1>1, <1>2, <1>3

\* A put numbers the event, and nobody hears of it yet.
LEMMA PutHears ==
    ASSUME Base, HearInv, NEW p \in Producer, Put(p)
    PROVE  HearInv'
<1> DEFINE e == [sensor |-> pending[p], nr |-> Len(accepted) + 1]
<1>1. e \in Event /\ e.nr = Len(accepted) + 1 /\ accepted \in Seq(Event)
  BY PutEvent DEF Put, Base, ThreadInv, TypeOK
<1>2. accepted' = Append(accepted, e)
  BY DEF Put
<1> HIDE DEF e
<1>3. /\ Len(accepted') = Len(accepted) + 1 /\ Len(accepted) \in Nat
      /\ \A i \in 1..Len(accepted) : accepted'[i] = accepted[i]
      /\ accepted'[Len(accepted) + 1] = e
  BY <1>1, <1>2, AppendContains
<1>4. Numbered'
  <2> SUFFICES ASSUME NEW i \in 1..Len(accepted) + 1 PROVE accepted'[i].nr = i
    BY <1>3 DEF Numbered
  <2>1. CASE i = Len(accepted) + 1
    BY <1>1, <1>3, <2>1
  <2>2. CASE i \in 1..Len(accepted)
    BY <1>3, <2>2 DEF HearInv, Numbered
  <2> QED BY <1>3, <2>1, <2>2
<1>5. UNCHANGED <<listeners, heard, handled, since, at, inHand, next>>
  BY DEF Put, threadVars
<1>6. AtFirst' /\ RegisteredOnce' /\ SilentBefore'
  BY <1>5 DEF HearInv, AtFirst, RegisteredOnce, SilentBefore, Holds, AtListeners
<1>7. ASSUME NEW l, NEW s, NEW k, Hears(l, s, k) PROVE Hears(l, s, k)'
  BY <1>5, <1>7, Zenon DEF Hears, InOrder, UpToDate, HeardDone, HeardInHand, Wants, Due, Holds, AtListeners
<1>8. Hearing'
  BY <1>5, <1>7 DEF HearInv, Hearing
<1> QED BY <1>4, <1>6, <1>8 DEF HearInv

\* A new listener has heard nothing, and nothing that was put before it was
\* registered is for it; nothing changes for the others.
LEMMA RegisterHears ==
    ASSUME Base, HearInv, NEW l \in Listener, NEW s \in Scope, Register(l, s)
    PROVE  HearInv'
<1> DEFINE n == Len(listeners[s]) + 1
<1>1. /\ \A x \in Scope : ~ Contains(listeners[x], l)
      /\ listeners' = [listeners EXCEPT ![s] = Append(listeners[s], l)]
      /\ since' = [since EXCEPT ![l] = Len(accepted)]
      /\ UNCHANGED <<accepted, handled, heard, at, inHand, next>>
  BY DEF Register, threadVars
<1>2. /\ listeners \in [Scope -> Seq(Listener)] /\ since \in [Listener -> Nat]
      /\ heard \in [Listener -> Seq(Event)]
  BY DEF Base, ThreadInv, TypeOK
<1>3. /\ Len(listeners'[s]) = n /\ n - 1 \in Nat
      /\ \A k \in 1..n - 1 : listeners'[s][k] = listeners[s][k]
      /\ listeners'[s][n] = l
      /\ Contains(listeners'[s], l)
      /\ \A u : Contains(listeners[s], u) => Contains(listeners'[s], u)
      /\ \A x \in Scope : x # s => listeners'[x] = listeners[x]
  <2>1. listeners[s] \in Seq(Listener) /\ listeners'[s] = Append(listeners[s], l)
    BY <1>1, <1>2
  <2> QED BY <1>1, <1>2, <2>1, AppendContains
<1> HIDE DEF n
<1>4. \A x \in Scope : \A k \in 1..Len(listeners[x]) :
          /\ listeners[x][k] # l /\ listeners[x][k] \in Listener
          /\ since'[listeners[x][k]] = since[listeners[x][k]]
  <2> SUFFICES ASSUME NEW x \in Scope, NEW k \in 1..Len(listeners[x])
               PROVE  /\ listeners[x][k] # l /\ listeners[x][k] \in Listener
                      /\ since'[listeners[x][k]] = since[listeners[x][k]]
    OBVIOUS
  <2>1. listeners[x][k] # l
    BY <1>1 DEF Contains
  <2>2. listeners[x][k] \in Listener
    BY <1>2, ElementOfSeq
  <2> QED BY <1>1, <1>2, <2>1, <2>2
<1>5. \A x \in Scope : \A k \in 1..Len(listeners'[x]) :
          \/ x = s /\ k = n /\ listeners'[x][k] = l
          \/ /\ k \in 1..Len(listeners[x]) /\ listeners'[x][k] = listeners[x][k]
             /\ listeners'[x][k] # l
  <2> SUFFICES ASSUME NEW x \in Scope, NEW k \in 1..Len(listeners'[x])
               PROVE  \/ x = s /\ k = n /\ listeners'[x][k] = l
                      \/ /\ k \in 1..Len(listeners[x]) /\ listeners'[x][k] = listeners[x][k]
                         /\ listeners'[x][k] # l
    OBVIOUS
  <2>1. CASE x = s
    <3>1. k \in 1..n /\ n - 1 = Len(listeners[s])
      BY <1>2, <1>3, <2>1, LenProperties DEF n
    <3>2. CASE k = n
      BY <1>3, <2>1, <3>2
    <3>3. CASE k \in 1..n - 1
      <4>1. k \in 1..Len(listeners[x])
        BY <2>1, <3>1, <3>3
      <4>2. listeners'[x][k] = listeners[x][k]
        BY <1>3, <2>1, <3>3
      <4>3. listeners[x][k] # l
        BY <1>4, <4>1
      <4> QED BY <4>1, <4>2, <4>3
    <3> QED BY <1>3, <3>1, <3>2, <3>3
  <2>2. CASE x # s
    <3>1. listeners'[x] = listeners[x]
      BY <1>3, <2>2
    <3>2. k \in 1..Len(listeners[x])
      BY <3>1
    <3>3. listeners[x][k] # l
      BY <1>4, <3>2
    <3> QED BY <3>1, <3>2, <3>3
  <2> QED BY <2>1, <2>2
<1>6. Numbered' /\ AtFirst'
  BY <1>1 DEF HearInv, Numbered, AtFirst, Holds, AtListeners
<1>7. RegisteredOnce'
  <2> SUFFICES ASSUME NEW x \in Scope, NEW y \in Scope,
                      NEW i \in 1..Len(listeners'[x]), NEW j \in 1..Len(listeners'[y]),
                      listeners'[x][i] = listeners'[y][j]
               PROVE  x = y /\ i = j
    BY DEF RegisteredOnce
  <2>1. CASE listeners'[x][i] = l
    <3>1. x = s /\ i = n
      BY <1>5, <2>1
    <3>2. listeners'[y][j] = l
      BY <2>1
    <3>3. y = s /\ j = n
      BY <1>5, <3>2
    <3> QED BY <3>1, <3>3
  <2>2. CASE listeners'[x][i] # l
    <3>1. /\ i \in 1..Len(listeners[x]) /\ listeners'[x][i] = listeners[x][i]
          /\ j \in 1..Len(listeners[y]) /\ listeners'[y][j] = listeners[y][j]
      BY <1>5, <2>2
    <3>2. listeners[x][i] = listeners[y][j]
      BY <3>1
    <3>3. \A p \in 1..Len(listeners[x]), q \in 1..Len(listeners[y]) :
              listeners[x][p] = listeners[y][q] => x = y /\ p = q
      BY DEF HearInv, RegisteredOnce
    <3> QED BY <3>1, <3>2, <3>3
  <2> QED BY <2>1, <2>2
<1>8. SilentBefore'
  <2> SUFFICES ASSUME NEW m \in Listener, heard[m] # <<>>
               PROVE  \E x \in Scope : Contains(listeners'[x], m)
    BY <1>1 DEF SilentBefore
  <2>1. PICK x \in Scope : Contains(listeners[x], m)
    BY DEF HearInv, SilentBefore
  <2> QED BY <1>3, <2>1
<1>9. ASSUME NEW x, NEW k, NEW m, Hears(m, x, k), since'[m] = since[m]
      PROVE  Hears(m, x, k)'
  BY <1>1, <1>9, Zenon DEF Hears, InOrder, UpToDate, HeardDone, HeardInHand, Wants, Due, Holds, AtListeners
<1>10. ASSUME NEW k PROVE Hears(l, s, k)'
  <2>1. heard[l] = <<>> /\ since'[l] = Len(accepted)
    BY <1>1, <1>2 DEF HearInv, SilentBefore
  <2>2. Len(heard'[l]) = 0
    BY <1>1, <2>1
  <2>3. InOrder(l)' /\ UpToDate(l, s, k)'
    BY <2>2, SMT DEF InOrder, UpToDate
  <2>4. HeardDone(l, s)'
    <3> SUFFICES ASSUME NEW i \in 1..Len(handled), handled[i].nr > Len(accepted) PROVE FALSE
      BY <1>1, <2>1 DEF HeardDone, Wants
    <3> QED BY HandledNumbers DEF HearInv
  <2>5. HeardInHand(l, s, k)'
    <3> SUFFICES ASSUME NEW w \in Worker, Holds(w), Head(inHand[w]).nr > Len(accepted) PROVE FALSE
      BY <1>1, <2>1 DEF HeardInHand, Wants, Holds, AtListeners
    <3>1. Len(handled) \in Nat /\ Len(accepted) \in Nat
      BY HandledNumbers DEF HearInv
    <3> QED BY <3>1, InHandNumber DEF HearInv
  <2> QED BY <2>3, <2>4, <2>5 DEF Hears
<1>11. Hearing'
  <2> SUFFICES ASSUME NEW x \in Scope, NEW k \in 1..Len(listeners'[x]),
                      NEW m, m = listeners'[x][k]
               PROVE  Hears(m, x, k)'
    BY DEF Hearing
  <2>1. CASE x = s /\ m = l
    BY <1>10, <2>1
  <2>2. CASE k \in 1..Len(listeners[x]) /\ m = listeners[x][k]
    <3>1. Hears(m, x, k)
      BY <2>2 DEF HearInv, Hearing
    <3> QED BY <1>4, <1>9, <2>2, <3>1
  <2> QED BY <1>5, <2>1, <2>2
<1> QED BY <1>6, <1>7, <1>8, <1>11 DEF HearInv

\* Starting, stopping and putting in line tell nobody anything.
LEMMA OwnerHears ==
    ASSUME Base, HearInv,
           \/ StartProcessing \/ StopProcessing \/ JoinReturns
           \/ \E p \in Producer, s \in Sensor : Enqueue(p, s)
    PROVE  HearInv'
<1>1. UNCHANGED <<listeners, heard, handled, since, accepted, inHand, next>>
  BY DEF StartProcessing, StopProcessing, JoinReturns, Enqueue, history, threadVars
<1>2. ASSUME NEW w \in Worker
      PROVE  (Holds(w)' <=> Holds(w)) /\ (Holds(w) => at'[w] = at[w])
  <2>1. CASE StartProcessing
    BY <2>1 DEF StartProcessing, Holds, AtListeners, Alive, Base, ThreadInv, TypeOK
  <2>2. CASE at' = at
    BY <2>2 DEF Holds, AtListeners
  <2> QED BY <2>1, <2>2 DEF StopProcessing, JoinReturns, Enqueue, threadVars
<1> QED BY <1>1, <1>2, NothingHeard

\* A thread that has no event in hand leaves what listeners have heard alone;
\* it takes an event to which all listeners are due.
LEMMA GetHears ==
    ASSUME Base, HearInv, NEW w \in Worker, Get(w)
    PROVE  HearInv'
<1>1. /\ at[w] = "get" /\ at' = [at EXCEPT ![w] = "lookup"]
      /\ UNCHANGED <<listeners, heard, handled, since, accepted, next>>
  BY DEF Get, Goes, history
<1>2. /\ at'[w] = "lookup" /\ next'[w] = 1 /\ next' = next
      /\ \A v \in Worker : ~ Holds(v) /\ (v # w => at'[v] = at[v])
  <2>1. next[w] = 1
    BY <1>1 DEF HearInv, AtFirst
  <2>2. \A v \in Worker : v # w => at[v] = "ended"
    BY <1>1, OneHolds
  <2> QED BY <1>1, <2>1, <2>2 DEF Holds, AtListeners, Base, ThreadInv, TypeOK
<1>3. ASSUME NEW v \in Worker, Holds(v)' PROVE v = w
  BY <1>2, <1>3 DEF Holds, AtListeners
<1>4. Numbered' /\ RegisteredOnce' /\ SilentBefore'
  BY <1>1 DEF HearInv, Numbered, RegisteredOnce, SilentBefore
<1>5. AtFirst'
  BY <1>1, <1>2 DEF HearInv, AtFirst
<1>6. ASSUME NEW l, NEW s, NEW k, Hears(l, s, k), k >= 1 PROVE Hears(l, s, k)'
  <2>1. InOrder(l)' /\ HeardDone(l, s)'
    BY <1>1, <1>6 DEF Hears, InOrder, HeardDone, Wants
  <2>2. UpToDate(l, s, k)'
    BY <1>1, <1>2, <1>6 DEF Hears, UpToDate
  <2>3. HeardInHand(l, s, k)'
    <3> SUFFICES ASSUME Wants(l, s, Head(inHand[w]))' PROVE Due(w, s, k)'
      BY <1>3 DEF HeardInHand
    <3> QED BY <1>2, <1>6 DEF Wants, Due
  <2> QED BY <2>1, <2>2, <2>3 DEF Hears
<1>7. Hearing'
  BY <1>1, <1>6 DEF HearInv, Hearing
<1> QED BY <1>4, <1>5, <1>7 DEF HearInv

\* Asking for the list of the sensor makes no listener more or less due: a
\* sensor that has no list has no listeners.
LEMMA LookUpHears ==
    ASSUME Base, HearInv, NEW w \in Worker, LookUp(w)
    PROVE  HearInv'
<1> DEFINE e == Head(inHand[w])
<1>1. /\ at[w] = "lookup"
      /\ at' = [at EXCEPT ![w] = IF listeners[e.sensor] = <<>> THEN "global" ELSE "sensor"]
      /\ UNCHANGED <<listeners, heard, handled, since, accepted, inHand, next>>
  BY DEF LookUp, Goes, history
<1>2. \A v \in Worker : (Holds(v)' <=> v = w) /\ (Holds(v) <=> v = w)
  <2>1. \A v \in Worker : v # w => at[v] = "ended"
    BY <1>1, OneHolds
  <2> QED BY <1>1, <2>1 DEF Holds, AtListeners, Base, ThreadInv, TypeOK
<1>3. e.sensor \in Sensor /\ Everywhere \notin Sensor
  BY <1>2, InHandNumber, DispatchAssumption DEF HearInv, Event, DispatchAssumption
<1>4. ASSUME NEW s \in Scope, NEW k \in 1..Len(listeners[s])
      PROVE  Due(w, s, k)' <=> Due(w, s, k)
  <2>1. k \in Nat /\ k >= 1 /\ next[w] = next'[w] /\ inHand'[w] = inHand[w]
    BY <1>1
  <2>2. CASE listeners[e.sensor] # <<>>
    <3>1. at'[w] = "sensor"
      BY <1>1, <2>2 DEF Base, ThreadInv, TypeOK
    <3> QED BY <1>1, <2>1, <3>1 DEF Due
  <2>3. CASE listeners[e.sensor] = <<>>
    <3>1. at'[w] = "global"
      BY <1>1, <2>3 DEF Base, ThreadInv, TypeOK
    <3>2. s # e.sensor
      <4>1. Len(listeners[e.sensor]) = 0
        BY <2>3, EmptySeq
      <4>2. s = e.sensor => k \in 1..0
        BY <4>1
      <4> QED BY <4>2
    <3>3. next[w] = 1
      BY <1>1 DEF HearInv, AtFirst
    <3> QED BY <1>1, <1>3, <2>1, <3>1, <3>2, <3>3 DEF Due
  <2> QED BY <2>2, <2>3
<1>5. Numbered' /\ RegisteredOnce' /\ SilentBefore'
  BY <1>1 DEF HearInv, Numbered, RegisteredOnce, SilentBefore
<1>6. AtFirst'
  BY <1>1, <1>2 DEF HearInv, AtFirst
<1>7. ASSUME NEW s \in Scope, NEW k \in 1..Len(listeners[s]), NEW l, Hears(l, s, k)
      PROVE  Hears(l, s, k)'
  <2>1. InOrder(l)' /\ HeardDone(l, s)'
    BY <1>1, <1>7 DEF Hears, InOrder, HeardDone, Wants
  <2>2. UpToDate(l, s, k)'
    BY <1>1, <1>2, <1>4, <1>7 DEF Hears, UpToDate
  <2>3. HeardInHand(l, s, k)'
    BY <1>1, <1>2, <1>4, <1>7 DEF Hears, HeardInHand, Wants
  <2> QED BY <2>1, <2>2, <2>3 DEF Hears
<1>8. Hearing'
  BY <1>1, <1>7 DEF HearInv, Hearing
<1> QED BY <1>5, <1>6, <1>8 DEF HearInv

\* Going over to the global listeners makes no listener more or less due.
LEMMA ToGlobalHears ==
    ASSUME Base, HearInv, NEW w \in Worker, ToGlobal(w)
    PROVE  HearInv'
<1>1. /\ at[w] = "sensor" /\ at' = [at EXCEPT ![w] = "global"]
      /\ next' = [next EXCEPT ![w] = 1]
      /\ next[w] > Len(listeners[Head(inHand[w]).sensor])
      /\ UNCHANGED <<listeners, heard, handled, since, accepted, inHand>>
  BY DEF ToGlobal, Goes, history, ListOf
<1>2. /\ at'[w] = "global" /\ next'[w] = 1
      /\ \A v \in Worker : v # w => at[v] = "ended" /\ at'[v] = "ended" /\ next'[v] = next[v]
  <2>1. \A v \in Worker : v # w => at[v] = "ended"
    BY <1>1, OneHolds
  <2> QED BY <1>1, <2>1 DEF Base, ThreadInv, TypeOK
<1>3. \A v \in Worker : (Holds(v)' <=> v = w) /\ (Holds(v) <=> v = w)
  BY <1>1, <1>2 DEF Holds, AtListeners
<1>4. /\ Head(inHand[w]).sensor \in Sensor /\ Everywhere \notin Sensor
      /\ next[w] \in Nat
  BY <1>3, InHandNumber, DispatchAssumption
     DEF HearInv, Event, DispatchAssumption, Base, ThreadInv, TypeOK
<1>5. ASSUME NEW s \in Scope, NEW k \in 1..Len(listeners[s])
      PROVE  Due(w, s, k)' <=> Due(w, s, k)
  <2>1. Len(listeners[s]) \in Nat
    BY LenProperties DEF Base, ThreadInv, TypeOK
  <2>2. s = Head(inHand[w]).sensor => ~ (next[w] <= k)
    BY <1>1, <1>4, <2>1
  <2> QED BY <1>1, <1>2, <1>4, <2>1, <2>2 DEF Due
<1>6. Numbered' /\ RegisteredOnce' /\ SilentBefore'
  BY <1>1 DEF HearInv, Numbered, RegisteredOnce, SilentBefore
<1>7. AtFirst'
  BY <1>2, <1>3 DEF HearInv, AtFirst
<1>8. ASSUME NEW s \in Scope, NEW k \in 1..Len(listeners[s]), NEW l, Hears(l, s, k)
      PROVE  Hears(l, s, k)'
  <2>1. InOrder(l)' /\ HeardDone(l, s)'
    BY <1>1, <1>8 DEF Hears, InOrder, HeardDone, Wants
  <2>2. UpToDate(l, s, k)'
    BY <1>1, <1>3, <1>5, <1>8 DEF Hears, UpToDate
  <2>3. HeardInHand(l, s, k)'
    BY <1>1, <1>3, <1>5, <1>8 DEF Hears, HeardInHand, Wants
  <2> QED BY <2>1, <2>2, <2>3 DEF Hears
<1>9. Hearing'
  BY <1>1, <1>8 DEF HearInv, Hearing
<1> QED BY <1>6, <1>7, <1>9 DEF HearInv

\* An event that is done with has been heard by all who want it.
LEMMA DoneHears ==
    ASSUME Base, HearInv, NEW w \in Worker, Done(w)
    PROVE  HearInv'
<1> DEFINE e == Head(inHand[w])
<1>1. /\ at[w] = "global" /\ at' = [at EXCEPT ![w] = "check"]
      /\ next' = [next EXCEPT ![w] = 1]
      /\ next[w] > Len(listeners[Everywhere])
      /\ handled' = Append(handled, e)
      /\ UNCHANGED <<listeners, heard, since, accepted>>
  BY DEF Done, Goes, ListOf
<1>2. Holds(w) /\ \A v \in Worker : v # w => at[v] = "ended"
  BY <1>1, OneHolds DEF Holds, AtListeners
<1>3. /\ \A v \in Worker : ~ Holds(v)'
      /\ next'[w] = 1 /\ \A v \in Worker : v # w => next'[v] = next[v]
  BY <1>1, <1>2 DEF Holds, AtListeners, Base, ThreadInv, TypeOK
<1>4. /\ e \in Event /\ e.nr = Len(handled) + 1 /\ e.sensor \in Sensor /\ Everywhere \notin Sensor
      /\ Len(handled) \in Nat /\ next[w] \in Nat
  BY <1>2, InHandNumber, HandledNumbers, DispatchAssumption
     DEF HearInv, Event, DispatchAssumption, Base, ThreadInv, TypeOK
<1> HIDE DEF e
<1>5. /\ Len(handled') = Len(handled) + 1
      /\ \A i \in 1..Len(handled) : handled'[i] = handled[i]
      /\ handled'[Len(handled) + 1] = e
  BY <1>1, <1>4, AppendContains DEF Base, ThreadInv, TypeOK
<1>6. ASSUME NEW s \in Scope, NEW k \in 1..Len(listeners[s]) PROVE ~ Due(w, s, k)
  <2>1. Len(listeners[s]) \in Nat
    BY LenProperties DEF Base, ThreadInv, TypeOK
  <2>2. s = Everywhere => ~ (next[w] <= k)
    BY <1>1, <1>4, <2>1
  <2> QED BY <1>1, <2>2 DEF Due
<1>7. Numbered' /\ RegisteredOnce' /\ SilentBefore'
  BY <1>1 DEF HearInv, Numbered, RegisteredOnce, SilentBefore
<1>8. AtFirst'
  BY <1>2, <1>3 DEF HearInv, AtFirst
<1>9. ASSUME NEW s \in Scope, NEW k \in 1..Len(listeners[s]), NEW l \in Listener, Hears(l, s, k)
      PROVE  Hears(l, s, k)'
  <2>1. InOrder(l)'
    BY <1>1, <1>9 DEF Hears, InOrder
  <2>2. UpToDate(l, s, k)'
    <3> SUFFICES ASSUME NEW i \in 1..Len(heard[l]) PROVE heard[l][i].nr <= Len(handled) + 1
      BY <1>1, <1>5 DEF UpToDate
    <3>1. heard[l] \in Seq(Event)
      BY DEF Base, ThreadInv, TypeOK
    <3>2. heard[l][i] \in Event
      BY <3>1, ElementOfSeq
    <3>3. heard[l][i].nr \in Nat
      BY <3>2, DispatchAssumption DEF Event, DispatchAssumption
    <3>4. heard[l][i].nr <= Len(handled) \/ heard[l][i].nr = Len(handled) + 1
      BY <1>9 DEF Hears, UpToDate
    <3> QED BY <1>4, <3>3, <3>4
  <2>3. HeardDone(l, s)'
    <3> SUFFICES ASSUME NEW i \in 1..Len(handled) + 1, Wants(l, s, handled'[i])
                 PROVE  Contains(heard[l], handled'[i])
      BY <1>1, <1>5 DEF HeardDone, Wants
    <3>1. CASE i = Len(handled) + 1
      BY <1>2, <1>5, <1>6, <1>9, <3>1 DEF Hears, HeardInHand, e
    <3>2. CASE i \in 1..Len(handled)
      BY <1>5, <1>9, <3>2 DEF Hears, HeardDone
    <3> QED BY <1>4, <3>1, <3>2
  <2>4. HeardInHand(l, s, k)'
    BY <1>3 DEF HeardInHand
  <2> QED BY <2>1, <2>2, <2>3, <2>4 DEF Hears
<1>10. \A s \in Scope : \A k \in 1..Len(listeners[s]) : listeners[s][k] \in Listener
  BY ElementOfSeq DEF Base, ThreadInv, TypeOK
<1>11. Hearing'
  BY <1>1, <1>9, <1>10 DEF HearInv, Hearing
<1> QED BY <1>7, <1>8, <1>11 DEF HearInv

\* A listener that is called was due, hears the event last, and is not due any
\* more; for the others nothing changes.
LEMMA CallHears ==
    ASSUME Base, HearInv, NEW w \in Worker, CallListener(w)
    PROVE  HearInv'
<1> DEFINE e == Head(inHand[w])
<1>k. PICK k0 \in Nat : k0 = next[w] /\ k0 >= 1
  BY DEF Base, ThreadInv, TypeOK
<1>0. PICK s0 \in Scope : s0 = IF at[w] = "sensor" THEN e.sensor ELSE Everywhere
  BY InHandNumber DEF CallListener, Holds, AtListeners, HearInv, Event, Scope
<1>1. /\ Holds(w) /\ k0 <= Len(listeners[s0])
      /\ next' = [next EXCEPT ![w] = k0 + 1]
      /\ heard' = [heard EXCEPT ![listeners[s0][k0]] = Append(heard[listeners[s0][k0]], e)]
      /\ UNCHANGED <<listeners, at, inHand, handled, since, accepted>>
  BY <1>0, <1>k DEF CallListener, ListOf, Holds, AtListeners, Base, ThreadInv, TypeOK
<1>2. \A v \in Worker : v # w => at[v] = "ended"
  BY <1>1, OneHolds DEF Holds, AtListeners
<1>3. /\ e \in Event /\ e.nr = Len(handled) + 1 /\ e.sensor \in Sensor /\ Everywhere \notin Sensor
      /\ Len(handled) \in Nat
  BY <1>1, InHandNumber, HandledNumbers, DispatchAssumption
     DEF HearInv, Event, DispatchAssumption, Base, ThreadInv, TypeOK
<1>4. \A s \in Scope : /\ listeners[s] \in Seq(Listener) /\ Len(listeners[s]) \in Nat
                       /\ \A k \in 1..Len(listeners[s]) : listeners[s][k] \in Listener
  BY LenProperties, ElementOfSeq DEF Base, ThreadInv, TypeOK
<1>5. k0 \in 1..Len(listeners[s0])
  BY <1>1, <1>k, <1>4
<1>6. PICK l0 \in Listener : l0 = listeners[s0][k0]
  BY <1>4, <1>5
<1>7. /\ next'[w] = k0 + 1 /\ \A v \in Worker : v # w => next'[v] = next[v]
      /\ heard[l0] \in Seq(Event) /\ heard'[l0] = Append(heard[l0], e)
      /\ \A l \in Listener : l # l0 => heard'[l] = heard[l]
  BY <1>1, <1>6 DEF Base, ThreadInv, TypeOK
<1>h. \A v \in Worker : (Holds(v) <=> v = w) /\ (Holds(v)' <=> v = w)
  BY <1>1, <1>2 DEF Holds, AtListeners
<1>d. Due(w, s0, k0) /\ ~ Due(w, s0, k0)'
  <2>1. /\ at'[w] = at[w] /\ inHand'[w] = inHand[w]
        /\ next[w] <= k0 /\ ~ (next'[w] <= k0)
    BY <1>1, <1>7, <1>k
  <2>2. CASE at[w] = "sensor"
    BY <1>0, <1>3, <2>1, <2>2 DEF Due
  <2>3. CASE at[w] = "global"
    BY <1>0, <2>1, <2>3 DEF Due
  <2> QED BY <2>2, <2>3 DEF CallListener
<1>8. ASSUME NEW s \in Scope, NEW k \in 1..Len(listeners[s]), s # s0 \/ k # k0
      PROVE  Due(w, s, k)' <=> Due(w, s, k)
  <2>1. k \in Nat /\ (k # k0 => (k0 + 1 <= k <=> k0 <= k))
    BY <1>k, <1>4
  <2>2. CASE s = s0
    BY <1>1, <1>7, <1>8, <1>k, <2>1, <2>2 DEF Due
  <2>3. CASE s # s0
    <3>1. at[w] \in {"sensor", "global"} /\ at'[w] = at[w] /\ inHand'[w] = inHand[w]
      BY <1>1 DEF CallListener
    <3>2. CASE at[w] = "sensor"
      BY <1>0, <2>3, <3>1, <3>2 DEF Due
    <3>3. CASE at[w] = "global"
      BY <1>0, <2>3, <3>1, <3>3 DEF Due
    <3> QED BY <3>1, <3>2, <3>3
  <2> QED BY <2>2, <2>3
<1> HIDE DEF e
<1>9. /\ Len(heard'[l0]) = Len(heard[l0]) + 1 /\ Len(heard[l0]) \in Nat
      /\ \A i \in 1..Len(heard[l0]) : heard'[l0][i] = heard[l0][i]
      /\ heard'[l0][Len(heard[l0]) + 1] = e
      /\ Contains(heard'[l0], e)
      /\ \A u : Contains(heard[l0], u) => Contains(heard'[l0], u)
  BY <1>3, <1>7, AppendContains
<1>10. Numbered' /\ RegisteredOnce'
  BY <1>1 DEF HearInv, Numbered, RegisteredOnce
<1>11. AtFirst'
  BY <1>1, <1>7 DEF HearInv, AtFirst, CallListener
<1>12. SilentBefore'
  <2> SUFFICES ASSUME NEW l \in Listener, heard'[l] # <<>>
               PROVE  \E s \in Scope : Contains(listeners[s], l)
    BY <1>1 DEF SilentBefore
  <2>1. CASE l = l0
    BY <1>5, <1>6, <2>1 DEF Contains
  <2>2. CASE l # l0
    BY <1>7, <2>2 DEF HearInv, SilentBefore
  <2> QED BY <2>1, <2>2
<1>13. Hears(l0, s0, k0)
  BY <1>5, <1>6 DEF HearInv, Hearing
<1>14. \A i \in 1..Len(heard[l0]) : /\ heard[l0][i].nr \in Nat
                                    /\ heard[l0][i].nr <= Len(handled)
  <2> SUFFICES ASSUME NEW i \in 1..Len(heard[l0])
               PROVE  heard[l0][i].nr \in Nat /\ heard[l0][i].nr <= Len(handled)
    OBVIOUS
  <2>1. heard[l0][i] \in Event
    BY <1>7, ElementOfSeq
  <2>2. heard[l0][i].nr \in Nat
    BY <2>1, DispatchAssumption DEF Event, DispatchAssumption
  <2>3. heard[l0][i].nr <= Len(handled)
    BY <1>13, <1>h, <1>d DEF Hears, UpToDate
  <2> QED BY <2>2, <2>3
<1>15. Hears(l0, s0, k0)'
  <2>1. InOrder(l0)'
    <3> SUFFICES ASSUME NEW i \in 1..Len(heard[l0]) + 1, NEW j \in 1..Len(heard[l0]) + 1, i < j
                 PROVE  heard'[l0][i].nr < heard'[l0][j].nr
      BY <1>9 DEF InOrder
    <3>1. CASE j = Len(heard[l0]) + 1
      <4>1. i \in 1..Len(heard[l0])
        BY <1>9, <3>1
      <4> QED BY <1>3, <1>9, <1>14, <3>1, <4>1
    <3>2. CASE j # Len(heard[l0]) + 1
      <4>1. i \in 1..Len(heard[l0]) /\ j \in 1..Len(heard[l0])
        BY <1>9, <3>2
      <4> QED BY <1>9, <1>13, <4>1 DEF Hears, InOrder
    <3> QED BY <3>1, <3>2
  <2>2. UpToDate(l0, s0, k0)'
    <3> SUFFICES ASSUME NEW i \in 1..Len(heard[l0]) + 1
                 PROVE  \/ heard'[l0][i].nr <= Len(handled)
                        \/ heard'[l0][i].nr = Len(handled) + 1
      BY <1>1, <1>9, <1>h, <1>d DEF UpToDate
    <3>1. CASE i = Len(heard[l0]) + 1
      BY <1>3, <1>9, <3>1
    <3>2. CASE i # Len(heard[l0]) + 1
      <4>1. i \in 1..Len(heard[l0])
        BY <1>9, <3>2
      <4> QED BY <1>9, <1>14, <4>1
    <3> QED BY <3>1, <3>2
  <2>3. HeardDone(l0, s0)'
    BY <1>1, <1>9, <1>13, Zenon DEF Hears, HeardDone, Wants
  <2>4. HeardInHand(l0, s0, k0)'
    BY <1>1, <1>9, <1>h DEF HeardInHand, e
  <2> QED BY <2>1, <2>2, <2>3, <2>4 DEF Hears
<1>16. ASSUME NEW s \in Scope, NEW k \in 1..Len(listeners[s]), s # s0 \/ k # k0,
              NEW l \in Listener, l # l0, Hears(l, s, k)
       PROVE  Hears(l, s, k)'
  <2>1. heard'[l] = heard[l]
    BY <1>7, <1>16
  <2>2. InOrder(l)' /\ HeardDone(l, s)'
    BY <1>1, <1>16, <2>1 DEF Hears, InOrder, HeardDone, Wants
  <2>3. UpToDate(l, s, k)'
    BY <1>1, <1>h, <1>8, <1>16, <2>1 DEF Hears, UpToDate
  <2>4. HeardInHand(l, s, k)'
    BY <1>1, <1>h, <1>8, <1>16, <2>1 DEF Hears, HeardInHand, Wants
  <2> QED BY <2>2, <2>3, <2>4 DEF Hears
<1>17. Hearing'
  <2> SUFFICES ASSUME NEW s \in Scope, NEW k \in 1..Len(listeners'[s]),
                      NEW l, l = listeners'[s][k]
               PROVE  Hears(l, s, k)'
    BY DEF Hearing
  <2>0. k \in 1..Len(listeners[s]) /\ l = listeners[s][k] /\ l \in Listener
    BY <1>1, <1>4
  <2>1. CASE s = s0 /\ k = k0
    BY <1>6, <1>15, <2>0, <2>1
  <2>2. CASE s # s0 \/ k # k0
    <3>1. l # l0
      <4>1. \A i \in 1..Len(listeners[s]), j \in 1..Len(listeners[s0]) :
                listeners[s][i] = listeners[s0][j] => s = s0 /\ i = j
        BY DEF HearInv, RegisteredOnce
      <4> QED BY <1>5, <1>6, <2>0, <2>2, <4>1
    <3>2. Hears(l, s, k)
      BY <2>0 DEF HearInv, Hearing
    <3> QED BY <1>16, <2>0, <2>2, <3>1, <3>2
  <2> QED BY <2>1, <2>2
<1> QED BY <1>10, <1>11, <1>12, <1>17 DEF HearInv

\* Every step keeps the invariant.
LEMMA HearStep == Base /\ HearInv /\ [Next]_vars => HearInv'
<1> SUFFICES ASSUME Base, HearInv, [Next]_vars PROVE HearInv'
  OBVIOUS
<1>1. CASE UNCHANGED vars
  BY <1>1, NothingHeard DEF vars, threadVars, history, Holds, AtListeners
<1>2. ASSUME NEW w \in Worker, Check(w) \/ GetTimesOut(w) PROVE HearInv'
  <2>1. UNCHANGED <<listeners, heard, handled, since, accepted, inHand, next>>
    BY <1>2 DEF Check, GetTimesOut, history
  <2>2. ASSUME NEW v \in Worker
        PROVE  (Holds(v)' <=> Holds(v)) /\ (Holds(v) => at'[v] = at[v])
    BY <1>2 DEF Check, GetTimesOut, Goes, Holds, AtListeners, Base, ThreadInv, TypeOK
  <2> QED BY <2>1, <2>2, NothingHeard
<1> QED BY <1>1, <1>2, OwnerHears, PutHears, RegisterHears, GetHears, LookUpHears,
           ToGlobalHears, DoneHears, CallHears DEF Next, WorkerStep

\* HeardInFull: a listener hears of events in their order, none twice, and of
\* every event put after its registration, also one registered while the thread
\* goes through the list it is appended to (dispatcher.py:54-58, 77-93).
THEOREM HeardCorrect == Spec => []HeardInFull
<1>1. Base /\ HearInv => HeardInFull
  <2> SUFFICES ASSUME HearInv, NEW l \in Listener, NEW s \in Scope, Contains(listeners[s], l)
               PROVE  /\ InOrder(l)
                      /\ HeardDone(l, s)
    BY DEF HeardInFull, InOrder, HeardDone, Wants
  <2> QED BY DEF Contains, HearInv, Hearing, Hears
<1>2. Spec => []Base
  BY ThreadInvHolds, ConservedCorrect, PTL DEF Base
<1> QED BY <1>1, <1>2, HearInit, HearStep, PTL DEF Spec
=============================================================================
