------------------------- MODULE GatedTransfer_proofs -------------------------
(****************************************************************************)
(* Machine-checked proofs about GatedTransfer, for any callers, timers and  *)
(* requests.                                                                *)
(****************************************************************************)
EXTENDS GatedTransfer, SequenceTheorems, TLAPS

-----------------------------------------------------------------------------
(* The lock's queue.                                                        *)

Distinct(q) == \A i, j \in 1..Len(q) : q[i] = q[j] => i = j

\* The library's injective sequences are those without repetition.
LEMMA InjectiveIsDistinct ==
    ASSUME NEW S, NEW q \in Seq(S)
    PROVE  IsInjective(q) <=> Distinct(q)
BY LenProperties, Zenon DEF IsInjective, Distinct

\* What RemoveAt leaves: the elements before and after the position.
LEMMA RemoveAtElements ==
    ASSUME NEW S, NEW q \in Seq(S), NEW n \in 1..Len(q)
    PROVE  /\ RemoveAt(q, n) \in Seq(S)
           /\ Len(RemoveAt(q, n)) = Len(q) - 1
           /\ \A i \in 1..Len(q)-1 :
                 RemoveAt(q, n)[i] = IF i < n THEN q[i] ELSE q[i+1]
<1> DEFINE a == SubSeq(q, 1, n-1)
           b == SubSeq(q, n+1, Len(q))
<1>0. Len(q) \in Nat /\ n \in Nat /\ n >= 1 /\ n <= Len(q)
  BY LenProperties
<1>1. a \in Seq(S) /\ Len(a) = n-1 /\ \A i \in 1..n-1 : a[i] = q[i]
  BY <1>0, SubSeqProperties, n-1 \in Nat, SMTT(30)
<1>2. b \in Seq(S) /\ Len(b) = Len(q)-n /\ \A i \in 1..Len(q)-n : b[i] = q[n+i]
  BY <1>0, SubSeqProperties, SMTT(30)
<1> HIDE DEF a, b
<1>3. /\ a \o b \in Seq(S)
      /\ Len(a \o b) = Len(q) - 1
      /\ \A i \in 1..Len(q)-1 : (a \o b)[i] = IF i < n THEN q[i] ELSE q[i+1]
  <2>1. /\ a \o b \in Seq(S)
        /\ Len(a \o b) = Len(a) + Len(b)
        /\ \A i \in 1..Len(a)+Len(b) :
              (a \o b)[i] = IF i <= Len(a) THEN a[i] ELSE b[i - Len(a)]
    BY <1>1, <1>2, ConcatProperties, Zenon
  <2>2. ASSUME NEW i \in 1..Len(q)-1
        PROVE  (a \o b)[i] = IF i < n THEN q[i] ELSE q[i+1]
    <3>1. CASE i < n
      BY <1>0, <1>1, <1>2, <2>1, <3>1
    <3>2. CASE ~ i < n
      <4>1. /\ i - (n-1) \in 1..Len(q)-n /\ n + (i - (n-1)) = i + 1
            /\ (a \o b)[i] = b[i - (n-1)]
        BY <1>0, <1>1, <1>2, <2>1, <3>2
      <4> QED BY <1>2, <3>2, <4>1
    <3> QED BY <3>1, <3>2
  <2> QED BY <1>0, <1>1, <1>2, <2>1, <2>2
<1> QED BY <1>3 DEF RemoveAt, a, b

\* Leave takes a task out of a queue that holds it at most once.
LEMMA LeaveQueue ==
    ASSUME NEW S, NEW q \in Seq(S), NEW t
    PROVE  /\ Leave(q, t) \in Seq(S)
           /\ Distinct(q) => /\ Distinct(Leave(q, t))
                             /\ \A u : Contains(Leave(q, t), u) <=> u # t /\ Contains(q, u)
<1>1. CASE ~ Contains(q, t)
  BY <1>1, Zenon DEF Leave, Contains
<1>2. CASE Contains(q, t)
  <2> DEFINE n == CHOOSE i \in 1..Len(q) : q[i] = t
             r == RemoveAt(q, n)
  <2>1. n \in 1..Len(q) /\ q[n] = t
    BY <1>2, Zenon DEF Contains
  <2>2. Leave(q, t) = r
    BY <1>2, Zenon DEF Leave, Contains
  <2> HIDE DEF n
  <2>3. /\ r \in Seq(S)
        /\ Len(r) = Len(q) - 1
        /\ \A i \in 1..Len(q)-1 : r[i] = IF i < n THEN q[i] ELSE q[i+1]
    BY <2>1, RemoveAtElements, Zenon
  <2> HIDE DEF r
  <2>4. Len(q) \in Nat
    BY LenProperties
  <2>5. ASSUME Distinct(q) PROVE Distinct(r)
    BY <2>1, <2>3, <2>4, <2>5, SMTT(30) DEF Distinct
  <2>6. ASSUME Distinct(q), NEW u PROVE Contains(r, u) <=> u # t /\ Contains(q, u)
    <3>1. ASSUME Contains(r, u) PROVE u # t /\ Contains(q, u)
      BY <2>1, <2>3, <2>4, <2>6, <3>1, SMTT(30) DEF Distinct, Contains
    <3>2. ASSUME u # t, Contains(q, u) PROVE Contains(r, u)
      <4>1. PICK i \in 1..Len(q) : q[i] = u
        BY <3>2 DEF Contains
      <4>2. CASE i < n
        BY <2>1, <2>3, <2>4, <4>1, <4>2, SMTT(30) DEF Contains
      <4>3. CASE i > n
        <5>1. i-1 \in 1..Len(q)-1 /\ r[i-1] = u
          BY <2>1, <2>3, <2>4, <4>1, <4>3, SMTT(30)
        <5> QED BY <2>3, <5>1 DEF Contains
      <4> QED BY <2>1, <2>4, <3>2, <4>1, <4>2, <4>3
    <3> QED BY <3>1, <3>2
  <2> QED BY <2>2, <2>3, <2>5, <2>6
<1> QED BY <1>1, <1>2

\* The head is served: the tail holds everyone else.
LEMMA ServeQueue ==
    ASSUME NEW S, NEW q \in Seq(S), q # <<>>
    PROVE  /\ Head(q) \in S /\ Contains(q, Head(q))
           /\ Tail(q) \in Seq(S)
           /\ Distinct(q) => /\ Distinct(Tail(q))
                             /\ \A u : Contains(Tail(q), u) <=> u # Head(q) /\ Contains(q, u)
<1>1. /\ Head(q) \in S /\ Tail(q) \in Seq(S)
      /\ Len(q) \in Nat /\ Len(q) >= 1
      /\ Head(q) = q[1]
      /\ Len(Tail(q)) = Len(q) - 1
      /\ \A i \in 1..Len(q)-1 : Tail(q)[i] = q[i+1]
  BY HeadTailProperties, EmptySeq, LenProperties, SMTT(30)
<1>2. Contains(q, Head(q))
  BY <1>1 DEF Contains
<1>3. ASSUME Distinct(q) PROVE Distinct(Tail(q))
  BY <1>1, <1>3, SMTT(30) DEF Distinct
<1>4. ASSUME Distinct(q), NEW u PROVE Contains(Tail(q), u) <=> u # Head(q) /\ Contains(q, u)
  <2>1. ASSUME Contains(Tail(q), u) PROVE u # Head(q) /\ Contains(q, u)
    BY <1>1, <1>4, <2>1, SMTT(30) DEF Distinct, Contains
  <2>2. ASSUME u # Head(q), Contains(q, u) PROVE Contains(Tail(q), u)
    <3>1. PICK i \in 1..Len(q) : q[i] = u
      BY <2>2 DEF Contains
    <3>2. i-1 \in 1..Len(q)-1 /\ Tail(q)[i-1] = u
      BY <1>1, <2>2, <3>1, SMTT(30)
    <3> QED BY <1>1, <3>2 DEF Contains
  <2> QED BY <2>1, <2>2
<1> QED BY <1>1, <1>2, <1>3, <1>4

\* A task joins at the end.
LEMMA JoinQueue ==
    ASSUME NEW S, NEW q \in Seq(S), NEW t \in S
    PROVE  /\ Append(q, t) \in Seq(S)
           /\ \A u : Contains(Append(q, t), u) <=> u = t \/ Contains(q, u)
           /\ Distinct(q) /\ ~ Contains(q, t) => Distinct(Append(q, t))
<1>1. /\ Append(q, t) \in Seq(S)
      /\ Len(q) \in Nat /\ Len(Append(q, t)) = Len(q) + 1
      /\ \A i \in 1..Len(q) : Append(q, t)[i] = q[i]
      /\ Append(q, t)[Len(q) + 1] = t
  BY AppendProperties, LenProperties, SMTT(30)
<1>2. ASSUME NEW u PROVE Contains(Append(q, t), u) <=> u = t \/ Contains(q, u)
  <2>1. ASSUME Contains(Append(q, t), u) PROVE u = t \/ Contains(q, u)
    BY <1>1, <2>1, SMTT(30) DEF Contains
  <2>2. ASSUME u = t \/ Contains(q, u) PROVE Contains(Append(q, t), u)
    BY <1>1, <2>2, SMTT(30) DEF Contains
  <2> QED BY <2>1, <2>2
<1>3. ASSUME Distinct(q), ~ Contains(q, t) PROVE Distinct(Append(q, t))
  BY <1>1, <1>3, SMTT(30) DEF Distinct, Contains
<1> QED BY <1>1, <1>2, <1>3

-----------------------------------------------------------------------------
(* The tasks and the lock: what every step that touches them preserves.     *)

\* The invariant of the lock, with the queue's order spelled out.
LEMMA LockOKIsDistinct ==
    ASSUME TaskTypeOK
    PROVE  LockOK <=> /\ \A t \in Task : holder = t <=> pc[t] \in {"callback", "stuck"}
                      /\ \A t \in Task : pc[t] = "queued" <=> Contains(queue, t)
                      /\ Distinct(queue)
BY InjectiveIsDistinct, Zenon DEF TaskTypeOK, LockOK

\* The same after a step, in the form the lemmas below conclude with.
LEMMA LockOKPrime ==
    ASSUME TaskTypeOK',
           \A t \in Task : holder' = t <=> pc'[t] \in {"callback", "stuck"},
           \A t \in Task : pc'[t] = "queued" <=> Contains(queue', t),
           Distinct(queue')
    PROVE  LockOK'
BY InjectiveIsDistinct, Zenon DEF TaskTypeOK, LockOK

\* The task the lock goes to was waiting for it, and leaves the queue.
LEMMA AdmittedQueue ==
    ASSUME TaskTypeOK, LockOK, NEW t, Admitted(t)
    PROVE  /\ t \in Task /\ pc[t] = "queued" /\ holder = None
           /\ Tail(queue) \in Seq(Task)
           /\ Distinct(Tail(queue))
           /\ \A u : Contains(Tail(queue), u) <=> u # t /\ Contains(queue, u)
<1>1. queue \in Seq(Task) /\ queue # <<>> /\ Head(queue) = t /\ holder = None
  BY Zenon DEF TaskTypeOK, Admitted
<1>2. Distinct(queue)
  BY LockOKIsDistinct
<1>3. t \in Task /\ Contains(queue, t)
  BY <1>1, ServeQueue, Zenon
<1>4. pc[t] = "queued"
  BY <1>3, LockOKIsDistinct
<1> QED BY <1>1, <1>2, <1>3, <1>4, ServeQueue, Zenon

\* A transition by the admitted task takes the lock, and may send one timeout
\* out of the queue.
LEMMA TransitionTasks ==
    ASSUME TaskTypeOK, LockOK, NEW t, Admitted(t), NEW s,
           NEW arm \in TimerReason \cup {None}, NEW gone \in {timeoutTask, None},
           Transition(t, s, arm, gone)
    PROVE  TaskTypeOK' /\ LockOK'
<1> DEFINE q == Tail(queue)
<1>1. /\ t \in Task /\ pc[t] = "queued" /\ holder = None
      /\ q \in Seq(Task) /\ Distinct(q)
      /\ \A u : Contains(q, u) <=> u # t /\ Contains(queue, u)
  BY AdmittedQueue, Zenon
<1> HIDE DEF q
<1>2. /\ Leave(q, gone) \in Seq(Task) /\ Distinct(Leave(q, gone))
      /\ \A u : Contains(Leave(q, gone), u) <=> u # gone /\ Contains(q, u)
  BY <1>1, LeaveQueue, Zenon
<1>3. queue' = Leave(q, gone)
  BY DEF Transition, q
<1>4. TaskTypeOK'
  BY <1>1, <1>2, <1>3, SMTT(30) DEF TaskTypeOK, Transition
<1>5. \A u \in Task : pc[u] = "queued" <=> Contains(queue, u)
  BY LockOKIsDistinct
<1>6. \A u \in Task : pc[u] \notin {"callback", "stuck"}
  BY <1>1, ConstantsAssumption DEF LockOK, ConstantsAssumption
<1>7. \A u \in Task : holder' = u <=> pc'[u] \in {"callback", "stuck"}
  BY <1>1, <1>6, SMTT(30) DEF Transition
<1>8. \A u \in Task : pc'[u] = "queued" <=> Contains(queue', u)
  <2> SUFFICES ASSUME NEW u \in Task
               PROVE  pc'[u] = "queued" <=> Contains(Leave(q, gone), u)
    BY <1>3
  <2>1. pc'[u] = CASE u = t -> "callback"
                   [] u # t /\ u = gone -> "idle"
                   [] OTHER -> pc[u]
    BY DEF Transition
  <2>2. Contains(Leave(q, gone), u) <=> u # gone /\ u # t /\ pc[u] = "queued"
    BY <1>1, <1>2, <1>5
  <2> QED BY <2>1, <2>2
<1> QED BY <1>2, <1>3, <1>4, <1>7, <1>8, LockOKPrime

\* A call that returns without a transition leaves the queue.
LEMMA ReturnTasks ==
    ASSUME TaskTypeOK, LockOK, NEW c \in Caller, Admitted(c), Return(c)
    PROVE  TaskTypeOK' /\ LockOK'
<1> DEFINE q == Tail(queue)
<1>1. /\ c \in Task /\ pc[c] = "queued" /\ holder = None
      /\ q \in Seq(Task) /\ Distinct(q)
      /\ \A u : Contains(q, u) <=> u # c /\ Contains(queue, u)
  BY AdmittedQueue, Zenon
<1>2. /\ queue' = q
      /\ pc' = [pc EXCEPT ![c] = "idle"]
      /\ UNCHANGED <<timeoutTask, reason, holder, job, arming>>
  BY DEF Return
<1> HIDE DEF q
<1>3. TaskTypeOK'
  BY <1>1, <1>2 DEF TaskTypeOK
<1>4. \A u \in Task : pc[u] = "queued" <=> Contains(queue, u)
  BY LockOKIsDistinct
<1>5. \A u \in Task : holder' = u <=> pc'[u] \in {"callback", "stuck"}
  BY <1>1, <1>2 DEF LockOK, TaskTypeOK
<1>6. \A u \in Task : pc'[u] = "queued" <=> Contains(queue', u)
  BY <1>1, <1>2, <1>4 DEF TaskTypeOK
<1> QED BY <1>1, <1>2, <1>3, <1>5, <1>6, LockOKPrime

\* A task that calls an operation, or whose sleep ends, joins the queue.
LEMMA JoinTasks ==
    ASSUME TaskTypeOK, LockOK, NEW t \in Task, pc[t] \in {"idle", "sleeping"},
           pc' = [pc EXCEPT ![t] = "queued"], queue' = Append(queue, t),
           UNCHANGED <<timeoutTask, reason, holder, arming>>,
           job' \in [Caller -> Operation]
    PROVE  TaskTypeOK' /\ LockOK'
<1>1. /\ queue \in Seq(Task) /\ Distinct(queue)
      /\ \A u \in Task : pc[u] = "queued" <=> Contains(queue, u)
  BY LockOKIsDistinct DEF TaskTypeOK
<1>2. ~ Contains(queue, t)
  BY <1>1
<1>3. /\ queue' \in Seq(Task) /\ Distinct(queue')
      /\ \A u : Contains(queue', u) <=> u = t \/ Contains(queue, u)
  BY <1>1, <1>2, JoinQueue, Zenon
<1>4. TaskTypeOK'
  BY <1>3, SMTT(30) DEF TaskTypeOK
<1>5. \A u \in Task : holder' = u <=> pc'[u] \in {"callback", "stuck"}
  BY SMTT(30) DEF LockOK, TaskTypeOK
<1>6. \A u \in Task : pc'[u] = "queued" <=> Contains(queue', u)
  BY <1>1, <1>3, SMTT(30) DEF TaskTypeOK
<1> QED BY <1>3, <1>4, <1>5, <1>6, LockOKPrime

\* The end of a callback frees the lock, and a new timeout takes the place of
\* the old one.
LEMMA FinishTasks ==
    ASSUME TaskTypeOK, LockOK, NEW t \in Task, Finish(t)
    PROVE  TaskTypeOK' /\ LockOK'
<1>1. /\ queue \in Seq(Task) /\ Distinct(queue)
      /\ \A u \in Task : pc[u] = "queued" <=> Contains(queue, u)
  BY LockOKIsDistinct DEF TaskTypeOK
<1>2. /\ pc[t] = "callback" /\ holder' = None
      /\ \A u \in Task : u # t => pc[u] \notin {"callback", "stuck"}
  BY SMTT(30) DEF Finish, LockOK
<1>3. None \notin Task
  BY ConstantsAssumption DEF ConstantsAssumption
<1>4. CASE arming = None
  <2>1. pc' = [pc EXCEPT ![t] = "idle"] /\ queue' = queue
    BY <1>4 DEF Finish
  <2>2. TaskTypeOK'
    BY <1>4, <2>1 DEF TaskTypeOK, Finish
  <2>3. \A u \in Task : holder' = u <=> pc'[u] \in {"callback", "stuck"}
    BY <1>2, <1>3, <2>1 DEF TaskTypeOK
  <2>4. \A u \in Task : pc'[u] = "queued" <=> Contains(queue', u)
    BY <1>1, <1>2, <2>1 DEF TaskTypeOK
  <2> QED BY <1>1, <2>1, <2>2, <2>3, <2>4, LockOKPrime
<1>5. CASE arming # None
  <2>1. PICK k \in Timer :
          /\ pc[k] = "idle"
          /\ pc' = [u \in Task |-> CASE u = k -> "sleeping"
                                     [] u # k /\ u \in {t, timeoutTask} -> "idle"
                                     [] OTHER -> pc[u]]
          /\ queue' = Leave(queue, timeoutTask)
          /\ timeoutTask' = k
          /\ reason' = [reason EXCEPT ![k] = arming]
    BY <1>5 DEF Finish
  <2>2. /\ queue' \in Seq(Task) /\ Distinct(queue')
        /\ \A u : Contains(queue', u) <=> u # timeoutTask /\ Contains(queue, u)
    BY <1>1, <2>1, LeaveQueue, Zenon
  <2>3. TaskTypeOK'
    BY <1>2, <1>5, <2>1, <2>2, SMTT(30) DEF TaskTypeOK, Finish
  <2>4. \A u \in Task : holder' = u <=> pc'[u] \in {"callback", "stuck"}
    BY <1>2, <1>3, <2>1
  <2>5. \A u \in Task : pc'[u] = "queued" <=> Contains(queue', u)
    BY <1>1, <1>2, <2>1, <2>2
  <2> QED BY <2>2, <2>3, <2>4, <2>5, LockOKPrime
<1> QED BY <1>4, <1>5

\* A callback that raises frees the lock.
LEMMA InterruptTasks ==
    ASSUME TaskTypeOK, LockOK, NEW t \in Task, Interrupt(t)
    PROVE  TaskTypeOK' /\ LockOK'
<1>1. /\ queue' = queue /\ Distinct(queue)
      /\ \A u \in Task : pc[u] = "queued" <=> Contains(queue, u)
  BY LockOKIsDistinct DEF Interrupt
<1>2. TaskTypeOK'
  BY DEF TaskTypeOK, Interrupt
<1>3. \A u \in Task : holder' = u <=> pc'[u] \in {"callback", "stuck"}
  BY ConstantsAssumption, SMTT(30) DEF ConstantsAssumption, TaskTypeOK, Interrupt, LockOK
<1>4. \A u \in Task : pc'[u] = "queued" <=> Contains(queue', u)
  BY <1>1, SMTT(30) DEF TaskTypeOK, Interrupt
<1> QED BY <1>1, <1>2, <1>3, <1>4, LockOKPrime

\* A cancelled caller leaves the queue.
LEMMA WithdrawTasks ==
    ASSUME TaskTypeOK, LockOK, NEW c \in Caller, Withdraw(c)
    PROVE  TaskTypeOK' /\ LockOK'
<1>1. /\ queue \in Seq(Task) /\ Distinct(queue)
      /\ \A u \in Task : pc[u] = "queued" <=> Contains(queue, u)
  BY LockOKIsDistinct DEF TaskTypeOK
<1>2. /\ queue' \in Seq(Task) /\ Distinct(queue')
      /\ \A u : Contains(queue', u) <=> u # c /\ Contains(queue, u)
  BY <1>1, LeaveQueue, Zenon DEF Withdraw
<1>3. c \in Task
  BY DEF Task
<1>4. TaskTypeOK'
  BY <1>2, <1>3, SMTT(30) DEF TaskTypeOK, Withdraw
<1>5. \A u \in Task : holder' = u <=> pc'[u] \in {"callback", "stuck"}
  BY <1>3, SMTT(30) DEF TaskTypeOK, Withdraw, LockOK
<1>6. \A u \in Task : pc'[u] = "queued" <=> Contains(queue', u)
  BY <1>1, <1>2, <1>3, SMTT(30) DEF TaskTypeOK, Withdraw
<1> QED BY <1>2, <1>4, <1>5, <1>6, LockOKPrime

\* A callback that calls back in keeps the lock.
LEMMA ReenterTasks ==
    ASSUME TaskTypeOK, LockOK, NEW t \in Task, Reenter(t)
    PROVE  TaskTypeOK' /\ LockOK'
<1>1. /\ queue' = queue /\ Distinct(queue)
      /\ \A u \in Task : pc[u] = "queued" <=> Contains(queue, u)
  BY LockOKIsDistinct DEF Reenter
<1>2. TaskTypeOK'
  BY DEF TaskTypeOK, Reenter
<1>3. \A u \in Task : holder' = u <=> pc'[u] \in {"callback", "stuck"}
  BY SMTT(30) DEF TaskTypeOK, Reenter, LockOK
<1>4. \A u \in Task : pc'[u] = "queued" <=> Contains(queue', u)
  BY <1>1, SMTT(30) DEF TaskTypeOK, Reenter
<1> QED BY <1>1, <1>2, <1>3, <1>4, LockOKPrime

-----------------------------------------------------------------------------
(* Types and the lock.                                                      *)

\* The operations that end in a transition, and how each makes it.
Transits(c) ==
    \/ Start(c) \/ PressToStart(c) \/ PressToResume(c) \/ Release(c)
    \/ ReachTarget(c) \/ CompleteEarly(c) \/ Error(c) \/ Abort(c) \/ Reset(c)

\* Each of them is a Transition by the task that is admitted.
LEMMA TransitsByTransition ==
    ASSUME NEW c \in Caller, Transits(c)
    PROVE  /\ Admitted(c)
           /\ \E s, arm, gone :
                /\ arm \in TimerReason \cup {None}
                /\ gone \in {timeoutTask, None}
                /\ Transition(c, s, arm, gone)
<1>1. CASE Start(c) BY <1>1 DEF Start, Runs, TimerReason
<1>2. CASE PressToStart(c) BY <1>2 DEF PressToStart, Runs, TimerReason
<1>3. CASE PressToResume(c) BY <1>3 DEF PressToResume, Runs, TimerReason
<1>4. CASE Release(c) BY <1>4 DEF Release, Runs, TimerReason
<1>5. CASE ReachTarget(c) BY <1>5 DEF ReachTarget, Runs, TimerReason
<1>6. CASE CompleteEarly(c) BY <1>6 DEF CompleteEarly, Runs, TimerReason
<1>7. CASE Error(c) BY <1>7 DEF Error, Runs, TimerReason
<1>8. CASE Abort(c) BY <1>8 DEF Abort, Runs, TimerReason
<1>9. CASE Reset(c) BY <1>9 DEF Reset, Runs, TimerReason
<1> QED
  BY <1>1, <1>2, <1>3, <1>4, <1>5, <1>6, <1>7, <1>8, <1>9 DEF Transits

\* Every step keeps the types of the machine's attributes.
LEMMA MachineTypes ==
    ASSUME MachineTypeOK, TaskTypeOK, Next
    PROVE  MachineTypeOK'
<1>1. ASSUME NEW c \in Caller, Transits(c) PROVE MachineTypeOK'
  <2>1. CASE Start(c) BY <2>1 DEF MachineTypeOK, Start, Transition, ProcessState
  <2>2. CASE PressToStart(c)
    BY <2>2 DEF MachineTypeOK, PressToStart, Transition, ProcessState
  <2>3. CASE PressToResume(c)
    BY <2>3 DEF MachineTypeOK, PressToResume, Transition, ProcessState
  <2>4. CASE Release(c)
    BY <2>4 DEF MachineTypeOK, Release, Transition, ProcessState
  <2>5. CASE ReachTarget(c)
    BY <2>5 DEF MachineTypeOK, ReachTarget, Transition, ProcessState, Outcome
  <2>6. CASE CompleteEarly(c)
    BY <2>6 DEF MachineTypeOK, CompleteEarly, Transition, ProcessState, Outcome
  <2>7. CASE Error(c)
    BY <2>7 DEF MachineTypeOK, Error, Transition, ProcessState, Outcome
  <2>8. CASE Abort(c)
    BY <2>8 DEF MachineTypeOK, Abort, Transition, ProcessState, Outcome
  <2>9. CASE Reset(c)
    BY <2>9 DEF MachineTypeOK, Reset, Transition, ProcessState, Outcome, NoOutcome
  <2> QED
    BY <1>1, <2>1, <2>2, <2>3, <2>4, <2>5, <2>6, <2>7, <2>8, <2>9 DEF Transits
<1>2. ASSUME NEW c \in Caller, ReportProgress(c) \/ Refuse(c)
      PROVE  MachineTypeOK'
  BY <1>2 DEF MachineTypeOK, ReportProgress, Refuse, Return
<1>3. ASSUME NEW k \in Timer, Timeout(k) PROVE MachineTypeOK'
  <2>1. reason[k] \in TimerReason
    BY DEF TaskTypeOK
  <2> QED BY <1>3, <2>1 DEF MachineTypeOK, Timeout, Transition, ProcessState, Outcome
<1>4. ASSUME \/ \E c \in Caller, op \in Operation : Call(c, op)
             \/ \E c \in Caller : Withdraw(c)
             \/ \E k \in Timer : Expire(k)
             \/ \E t \in Task : Finish(t) \/ Interrupt(t) \/ Reenter(t)
      PROVE  MachineTypeOK'
  BY <1>4 DEF MachineTypeOK, machineVars, Call, Withdraw, Expire, Finish,
              Interrupt, Reenter
<1> QED BY <1>1, <1>2, <1>3, <1>4 DEF Next, Operate, Transits

\* Every step keeps the types of the tasks and the invariant of the lock.
LEMMA TaskTypes ==
    ASSUME TaskTypeOK, LockOK, Next
    PROVE  TaskTypeOK' /\ LockOK'
<1>1. ASSUME NEW c \in Caller, Transits(c) PROVE TaskTypeOK' /\ LockOK'
  BY <1>1, TransitsByTransition, TransitionTasks
<1>2. ASSUME NEW c \in Caller, ReportProgress(c) \/ Refuse(c)
      PROVE  TaskTypeOK' /\ LockOK'
  BY <1>2, ReturnTasks DEF ReportProgress, Refuse, Runs
<1>3. ASSUME NEW k \in Timer, Timeout(k) PROVE TaskTypeOK' /\ LockOK'
  BY <1>3, TransitionTasks DEF Timeout
<1>4. ASSUME NEW c \in Caller, NEW op \in Operation, Call(c, op)
      PROVE  TaskTypeOK' /\ LockOK'
  <2>1. job' \in [Caller -> Operation]
    BY <1>4 DEF Call, TaskTypeOK
  <2> QED BY <1>4, <2>1, JoinTasks DEF Call, Task
<1>5. ASSUME NEW k \in Timer, Expire(k) PROVE TaskTypeOK' /\ LockOK'
  <2>1. job' \in [Caller -> Operation]
    BY <1>5 DEF Expire, TaskTypeOK
  <2> QED BY <1>5, <2>1, JoinTasks DEF Expire, Task
<1>6. ASSUME NEW c \in Caller, Withdraw(c) PROVE TaskTypeOK' /\ LockOK'
  BY <1>6, WithdrawTasks
<1>7. ASSUME NEW t \in Task, Finish(t) \/ Interrupt(t) \/ Reenter(t)
      PROVE  TaskTypeOK' /\ LockOK'
  BY <1>7, FinishTasks, InterruptTasks, ReenterTasks
<1> QED
  BY <1>1, <1>2, <1>3, <1>4, <1>5, <1>6, <1>7 DEF Next, Operate, Transits

\* Both hold at first.
LEMMA InitTypes == Init => TypeOK /\ LockOK
<1> SUFFICES ASSUME Init PROVE TypeOK /\ LockOK
  OBVIOUS
<1>1. TypeOK
  <2>1. MachineTypeOK
    BY DEF Init, MachineTypeOK, ProcessState, Outcome, NoOutcome
  <2>2. queue \in Seq(Task)
    BY EmptySeq DEF Init
  <2>3. TaskTypeOK
    BY <2>2 DEF Init, TaskTypeOK, TimerReason, Operation
  <2> QED BY <2>1, <2>3 DEF TypeOK
<1>2. LockOK
  BY ConstantsAssumption, SMTT(30)
     DEF Init, LockOK, Contains, IsInjective, ConstantsAssumption
<1> QED BY <1>1, <1>2

\* The variables keep their types.
THEOREM TypeCorrect == Spec => []TypeOK
<1>1. TypeOK /\ LockOK /\ [Next]_vars => TypeOK' /\ LockOK'
  <2> SUFFICES ASSUME TypeOK, LockOK, [Next]_vars PROVE TypeOK' /\ LockOK'
    OBVIOUS
  <2>1. CASE Next
    BY <2>1, MachineTypes, TaskTypes DEF TypeOK
  <2>2. CASE UNCHANGED vars
    BY <2>2 DEF vars, machineVars, TypeOK, MachineTypeOK, TaskTypeOK, LockOK
  <2> QED BY <2>1, <2>2
<1> QED BY <1>1, InitTypes, PTL DEF Spec

\* One task is inside the lock, and those that wait for it are queued once.
THEOREM LockCorrect == Spec => []LockOK
<1>1. TypeOK /\ LockOK /\ [Next]_vars => LockOK'
  <2> SUFFICES ASSUME TypeOK, LockOK, [Next]_vars PROVE LockOK'
    OBVIOUS
  <2>1. CASE Next
    BY <2>1, TaskTypes DEF TypeOK
  <2>2. CASE UNCHANGED vars
    BY <2>2 DEF vars, LockOK
  <2> QED BY <2>1, <2>2
<1> QED BY <1>1, InitTypes, TypeCorrect, PTL DEF Spec

-----------------------------------------------------------------------------
(* The timeouts.                                                            *)

\* A timeout about to be armed is for a live transfer.
ArmingLive == arming # None => state \in Live

TimerInv == TypeOK /\ LockOK /\ NoStaleTimer /\ ArmingLive

\* After a transition that cancels, no timeout ticks.
LEMMA CancelTicks ==
    ASSUME TaskTypeOK, NoStaleTimer, NEW t, NEW s, NEW arm,
           Transition(t, s, arm, timeoutTask)
    PROVE  \A k \in Timer : ~ Ticking(k)'
<1> SUFFICES ASSUME NEW k \in Timer, Ticking(k)' PROVE FALSE
  OBVIOUS
<1>1. k \in Task
  BY DEF Task
<1>2. k # timeoutTask /\ Ticking(k)
  BY <1>1 DEF Ticking, Transition
<1> QED BY <1>2 DEF NoStaleTimer

\* A transition that cancels nothing stops only the task that makes it.
LEMMA KeepTicks ==
    ASSUME NEW t, NEW s, NEW arm, Transition(t, s, arm, None)
    PROVE  /\ timeoutTask' = timeoutTask
           /\ \A k \in Timer : Ticking(k)' => Ticking(k) /\ k # t
<1>1. timeoutTask' = timeoutTask
  BY DEF Transition
<1>2. ASSUME NEW k \in Timer, Ticking(k)' PROVE Ticking(k) /\ k # t
  <2>1. k \in Task /\ k # None
    BY ConstantsAssumption DEF Task, ConstantsAssumption
  <2> QED BY <1>2, <2>1 DEF Ticking, Transition
<1> QED BY <1>1, <1>2

\* The timeout that gets the lock is the only one there is.
LEMMA FiringTimer ==
    ASSUME TimerInv, NEW k \in Timer, Timeout(k)
    PROVE  /\ Ticking(k) /\ k = timeoutTask /\ state \in Live
           /\ \A j \in Timer : ~ Ticking(j)'
<1>1. pc[k] = "queued"
  BY AdmittedQueue DEF TimerInv, TypeOK, Timeout
<1>2. Ticking(k) /\ k = timeoutTask /\ state \in Live
  BY <1>1 DEF TimerInv, NoStaleTimer, Ticking
<1>3. \A j \in Timer : ~ Ticking(j)'
  <2>1. \A j \in Timer : Ticking(j)' => Ticking(j) /\ j # k
    BY KeepTicks DEF Timeout
  <2> QED BY <1>2, <2>1 DEF TimerInv, NoStaleTimer
<1> QED BY <1>2, <1>3

\* A finished operation leaves at most the timeout it armed.
LEMMA FinishTicks ==
    ASSUME TimerInv, NEW t \in Task, Finish(t)
    PROVE  \/ /\ arming = None
              /\ UNCHANGED <<timeoutTask, reason>>
              /\ \A k \in Timer : Ticking(k)' <=> Ticking(k)
           \/ /\ arming # None
              /\ timeoutTask' \in Timer /\ reason'[timeoutTask'] = arming
              /\ \A k \in Timer : Ticking(k)' <=> k = timeoutTask'
<1>0. pc[t] = "callback" /\ pc \in [Task -> {"idle", "sleeping", "queued", "callback", "stuck"}]
  BY DEF Finish, TimerInv, TypeOK, TaskTypeOK
<1>1. CASE arming = None
  <2>1. UNCHANGED <<timeoutTask, reason>> /\ pc' = [pc EXCEPT ![t] = "idle"]
    BY <1>1 DEF Finish
  <2>2. \A k \in Timer : Ticking(k)' <=> Ticking(k)
    BY <1>0, <2>1 DEF Ticking, Task
  <2> QED BY <1>1, <2>1, <2>2
<1>2. CASE arming # None
  <2>1. PICK k \in Timer :
          /\ pc[k] = "idle"
          /\ pc' = [u \in Task |-> CASE u = k -> "sleeping"
                                     [] u # k /\ u \in {t, timeoutTask} -> "idle"
                                     [] OTHER -> pc[u]]
          /\ timeoutTask' = k
          /\ reason' = [reason EXCEPT ![k] = arming]
    BY <1>2 DEF Finish
  <2>2. \A j \in Timer : Ticking(j)' <=> j = k
    <3> SUFFICES ASSUME NEW j \in Timer PROVE Ticking(j)' <=> j = k
      OBVIOUS
    <3>1. j \in Task /\ (j # timeoutTask => ~ Ticking(j))
      BY DEF Task, TimerInv, NoStaleTimer
    <3>2. pc'[j] = CASE j = k -> "sleeping"
                     [] j # k /\ j \in {t, timeoutTask} -> "idle"
                     [] OTHER -> pc[j]
      BY <2>1, <3>1
    <3> QED BY <3>1, <3>2 DEF Ticking
  <2>3. reason'[k] = arming
    BY <2>1 DEF TimerInv, TypeOK, TaskTypeOK
  <2> QED BY <1>2, <2>1, <2>2, <2>3
<1> QED BY <1>1, <1>2

\* The steps that neither transition nor arm.
Quiet ==
    \/ \E c \in Caller, op \in Operation : Call(c, op)
    \/ \E c \in Caller : ReportProgress(c) \/ Refuse(c) \/ Withdraw(c)
    \/ \E k \in Timer : Expire(k)
    \/ \E t \in Task : Interrupt(t) \/ Reenter(t)
    \/ UNCHANGED vars

\* The timeouts are as they were, and none is newly about to be armed.
TimersKept ==
    /\ UNCHANGED <<state, timeoutTask, reason>>
    /\ arming' \in {arming, None}
    /\ \A k \in Timer : Ticking(k)' <=> Ticking(k)

\* A quiet step starts, stops and renames no timeout.
LEMMA QuietTicks ==
    ASSUME TypeOK, LockOK, Quiet
    PROVE  TimersKept
<1>0. pc \in [Task -> {"idle", "sleeping", "queued", "callback", "stuck"}]
  BY DEF TypeOK, TaskTypeOK
<1>1. ASSUME NEW c \in Caller, NEW k \in Timer PROVE c # k /\ c \in Task /\ k \in Task
  BY ConstantsAssumption DEF Task, ConstantsAssumption
<1>2. ASSUME NEW c \in Caller, NEW op \in Operation, Call(c, op) PROVE TimersKept
  BY <1>0, <1>1, <1>2 DEF Call, machineVars, TimersKept, Ticking
<1>3. ASSUME NEW c \in Caller, ReportProgress(c) \/ Refuse(c) PROVE TimersKept
  BY <1>0, <1>1, <1>3 DEF ReportProgress, Refuse, Return, TimersKept, Ticking
<1>4. ASSUME NEW c \in Caller, Withdraw(c) PROVE TimersKept
  BY <1>0, <1>1, <1>4 DEF Withdraw, machineVars, TimersKept, Ticking
<1>5. ASSUME NEW j \in Timer, Expire(j) PROVE TimersKept
  BY <1>0, <1>5 DEF Expire, machineVars, TimersKept, Ticking, Task
<1>6. ASSUME NEW t \in Task, Interrupt(t) \/ Reenter(t) PROVE TimersKept
  BY <1>0, <1>6 DEF Interrupt, Reenter, machineVars, TimersKept, Ticking, Task
<1>7. CASE UNCHANGED vars
  BY <1>7 DEF vars, machineVars, TimersKept, Ticking
<1> QED BY <1>2, <1>3, <1>4, <1>5, <1>6, <1>7 DEF Quiet

\* A step of the machine is one of these.
LEMMA StepCases ==
    ASSUME [Next]_vars
    PROVE  \/ Quiet
           \/ \E c \in Caller : Transits(c)
           \/ \E k \in Timer : Timeout(k)
           \/ \E t \in Task : Finish(t)
BY DEF Next, Operate, Transits, Quiet

\* Every operation but start and release cancels the timeout; start finds
\* none and release leaves the one of the active state to Finish.
LEMMA TransitsTicks ==
    ASSUME TimerInv, NEW c \in Caller, Transits(c)
    PROVE  \/ \A k \in Timer : ~ Ticking(k)'
           \/ /\ Release(c) /\ timeoutTask' = timeoutTask
              /\ \A k \in Timer : Ticking(k)' => Ticking(k)
<1>0. TaskTypeOK /\ NoStaleTimer
  BY DEF TimerInv, TypeOK
<1>1. CASE Start(c)
  <2>1. \A k \in Timer : ~ Ticking(k)
    BY <1>0, <1>1 DEF Start, NoStaleTimer, Live
  <2> QED BY <1>1, <2>1, KeepTicks DEF Start
<1>2. CASE Release(c)
  BY <1>2, KeepTicks DEF Release
<1>3. CASE PressToStart(c) BY <1>0, <1>3, CancelTicks DEF PressToStart
<1>4. CASE PressToResume(c) BY <1>0, <1>4, CancelTicks DEF PressToResume
<1>5. CASE ReachTarget(c) BY <1>0, <1>5, CancelTicks DEF ReachTarget
<1>6. CASE CompleteEarly(c) BY <1>0, <1>6, CancelTicks DEF CompleteEarly
<1>7. CASE Error(c) BY <1>0, <1>7, CancelTicks DEF Error
<1>8. CASE Abort(c) BY <1>0, <1>8, CancelTicks DEF Abort
<1>9. CASE Reset(c) BY <1>0, <1>9, CancelTicks DEF Reset
<1> QED
  BY <1>1, <1>2, <1>3, <1>4, <1>5, <1>6, <1>7, <1>8, <1>9 DEF Transits

\* What each operation arms.
LEMMA TransitsArms ==
    ASSUME NEW c \in Caller, Transits(c)
    PROVE  \/ Start(c) /\ state' = "waiting_operator" /\ arming' = "operator_wait"
           \/ PressToStart(c) /\ state' = "active" /\ arming' = "max_duration"
           \/ PressToResume(c) /\ state' = "active" /\ arming' = None
           \/ Release(c) /\ state' = "paused" /\ arming' = "operator_pause"
           \/ state' \notin Live /\ arming' = None
BY DEF Transits, Transition, Start, PressToStart, PressToResume, Release,
       ReachTarget, CompleteEarly, Error, Abort, Reset, Live

\* The invariant of the timeouts is inductive.
LEMMA TimerInvStep ==
    ASSUME TimerInv, [Next]_vars
    PROVE  TimerInv'
<1>0. TypeOK' /\ LockOK'
  <2>1. CASE Next
    BY <2>1, MachineTypes, TaskTypes DEF TimerInv, TypeOK
  <2>2. CASE UNCHANGED vars
    BY <2>2 DEF vars, machineVars, TimerInv, TypeOK, MachineTypeOK, TaskTypeOK, LockOK
  <2> QED BY <2>1, <2>2
<1>1. CASE Quiet
  <2>1. TimersKept
    BY <1>1, QuietTicks DEF TimerInv
  <2> QED BY <1>0, <2>1 DEF TimersKept, TimerInv, NoStaleTimer, ArmingLive
<1>2. ASSUME NEW c \in Caller, Transits(c) PROVE TimerInv'
  <2>1. ArmingLive'
    BY <1>2, TransitsArms DEF ArmingLive, Live
  <2>2. NoStaleTimer'
    <3>1. CASE \A k \in Timer : ~ Ticking(k)'
      BY <3>1 DEF NoStaleTimer
    <3>2. CASE /\ Release(c) /\ timeoutTask' = timeoutTask
               /\ \A k \in Timer : Ticking(k)' => Ticking(k)
      <4>1. state' \in Live
        BY <3>2 DEF Release, Transition, Live
      <4> QED BY <3>2, <4>1 DEF TimerInv, NoStaleTimer
    <3> QED BY <1>2, <3>1, <3>2, TransitsTicks
  <2> QED BY <1>0, <2>1, <2>2 DEF TimerInv
<1>3. ASSUME NEW k \in Timer, Timeout(k) PROVE TimerInv'
  <2>1. arming' = None /\ \A j \in Timer : ~ Ticking(j)'
    BY <1>3, FiringTimer DEF Timeout, Transition
  <2> QED BY <1>0, <2>1 DEF TimerInv, NoStaleTimer, ArmingLive
<1>4. ASSUME NEW t \in Task, Finish(t) PROVE TimerInv'
  <2>1. state' = state /\ arming' = None
    BY <1>4 DEF Finish, machineVars
  <2> QED BY <1>0, <1>4, <2>1, FinishTicks DEF TimerInv, NoStaleTimer, ArmingLive
<1> QED BY <1>1, <1>2, <1>3, <1>4, StepCases

\* It holds at first.
LEMMA TimerInvInit == Init => TimerInv
<1> SUFFICES ASSUME Init PROVE TimerInv
  OBVIOUS
<1>1. NoStaleTimer /\ ArmingLive
  BY DEF Init, NoStaleTimer, ArmingLive, Ticking, Task
<1> QED BY <1>1, InitTypes DEF TimerInv

\* So it always holds.
LEMMA TimerCorrect == Spec => []TimerInv
BY TimerInvInit, TimerInvStep, PTL DEF Spec

\* At most one timeout can fire, the remembered one, and in a live transfer,
\* even when callers are cancelled and callbacks raise or call back.
THEOREM NoTimerIsStale == Spec => []NoStaleTimer
<1>1. TimerInv => NoStaleTimer
  BY DEF TimerInv
<1> QED BY <1>1, TimerCorrect, PTL

\* The handler checks no state, and yet ends only live transfers.
THEOREM TimeoutsEndLive == Spec => TimeoutEndsLive
<1>1. TimerInv /\ [Next]_vars => [state' = "timeout" /\ state # "timeout" => state \in Live]_vars
  <2> SUFFICES ASSUME TimerInv, [Next]_vars, state' = "timeout", state # "timeout"
               PROVE  state \in Live
    OBVIOUS
  <2>1. CASE Quiet
    BY <2>1, QuietTicks DEF TimersKept, TimerInv
  <2>2. ASSUME NEW c \in Caller, Transits(c) PROVE FALSE
    BY <2>2 DEF Transits, Transition, Start, PressToStart, PressToResume, Release,
                ReachTarget, CompleteEarly, Error, Abort, Reset
  <2>3. ASSUME NEW k \in Timer, Timeout(k) PROVE state \in Live
    BY <2>3, FiringTimer
  <2>4. ASSUME NEW t \in Task, Finish(t) PROVE FALSE
    BY <2>4 DEF Finish, machineVars
  <2> QED BY <2>1, <2>2, <2>3, <2>4, StepCases
<1> QED BY <1>1, TimerCorrect, PTL DEF Spec, TimeoutEndsLive

-----------------------------------------------------------------------------
(* The record of the transfer.                                              *)

RecordInv ==
    /\ LiveRecord
    /\ state = "idle" => outcome = NoOutcome
    /\ progress = "none" <=> request = None

\* The invariant of the record is inductive, given that of the timeouts.
LEMMA RecordInvStep ==
    ASSUME TimerInv, RecordInv, [Next]_vars
    PROVE  RecordInv'
<1> USE DEF RecordInv, LiveRecord, Live
<1>1. CASE Quiet
  <2>1. CASE \E c \in Caller : ReportProgress(c)
    BY <2>1 DEF ReportProgress, Return
  <2>2. CASE \E c \in Caller : Refuse(c)
    BY <2>2 DEF Refuse, Return
  <2>3. CASE UNCHANGED machineVars
    BY <2>3 DEF machineVars
  <2>4. Quiet => \/ \E c \in Caller : ReportProgress(c) \/ Refuse(c)
                 \/ UNCHANGED machineVars
    BY DEF Quiet, Call, Withdraw, Expire, Interrupt, Reenter, vars
  <2> QED BY <1>1, <2>1, <2>2, <2>3, <2>4
<1>2. ASSUME NEW c \in Caller, Transits(c) PROVE RecordInv'
  <2>1. CASE Start(c)
    BY <2>1, ConstantsAssumption DEF ConstantsAssumption, Start, Transition
  <2>2. CASE PressToStart(c) BY <2>2 DEF PressToStart, Transition
  <2>3. CASE PressToResume(c) BY <2>3 DEF PressToResume, Transition
  <2>4. CASE Release(c) BY <2>4 DEF Release, Transition
  <2>5. CASE ReachTarget(c) BY <2>5 DEF ReachTarget, Transition
  <2>6. CASE CompleteEarly(c) BY <2>6 DEF CompleteEarly, Transition
  <2>7. CASE Error(c) BY <2>7 DEF Error, Transition
  <2>8. CASE Abort(c) BY <2>8 DEF Abort, Transition
  <2>9. CASE Reset(c) BY <2>9 DEF Reset, Transition
  <2> QED
    BY <1>2, <2>1, <2>2, <2>3, <2>4, <2>5, <2>6, <2>7, <2>8, <2>9 DEF Transits
<1>3. ASSUME NEW k \in Timer, Timeout(k) PROVE RecordInv'
  BY <1>3 DEF Timeout, Transition
<1>4. ASSUME NEW t \in Task, Finish(t) PROVE RecordInv'
  BY <1>4 DEF Finish, machineVars
<1> QED BY <1>1, <1>2, <1>3, <1>4, StepCases

\* So it always holds.
LEMMA RecordCorrect == Spec => []RecordInv
<1>1. Init => RecordInv
  BY DEF Init, RecordInv, LiveRecord, Live
<1>2. TimerInv /\ RecordInv /\ [Next]_vars => RecordInv'
  BY RecordInvStep
<1> QED BY <1>1, <1>2, TimerCorrect, PTL DEF Spec

\* A live transfer carries a request, no reached target, no old outcome, and
\* an open pause exactly while it is paused.
THEOREM LiveRecordCorrect == Spec => []LiveRecord
<1>1. RecordInv => LiveRecord
  BY DEF RecordInv
<1> QED BY <1>1, RecordCorrect, PTL

-----------------------------------------------------------------------------
(* Deadlines, when callbacks return and callers are not cancelled.          *)

\* What WaitTimed needs to be inductive: with the lock held, a wait is about
\* to get its timeout; and a timeout, armed or about to be, is the state's.
ArmingHeld == holder = None => arming = None

WaitArming == holder # None =>
    /\ state = "waiting_operator" => arming = "operator_wait"
    /\ state = "paused" => arming = "operator_pause"

DeadlineMatches ==
    /\ arming # None => state = Due[arming]
    /\ \A k \in Timer : Ticking(k) /\ arming = None => state = Due[reason[k]]

DeadlineInv == ArmingHeld /\ WaitArming /\ DeadlineMatches /\ WaitTimed

\* When nothing fails, a quiet step neither takes nor frees the lock.
LEMMA QuietKeepsLock ==
    ASSUME ~ MayFail, Quiet
    PROVE  UNCHANGED <<holder, arming>>
BY DEF Quiet, Call, ReportProgress, Refuse, Return, Withdraw, Expire,
       Interrupt, Reenter, vars

\* While a task is in a callback the lock is held.
LEMMA HolderIsTask ==
    ASSUME LockOK, NEW t \in Task, pc[t] = "callback"
    PROVE  holder # None
BY ConstantsAssumption DEF LockOK, ConstantsAssumption

\* The invariant of the deadlines is inductive when nothing fails.
LEMMA DeadlineInvStep ==
    ASSUME ~ MayFail, TimerInv, DeadlineInv, [Next]_vars
    PROVE  DeadlineInv'
<1> USE DEF DeadlineInv, ArmingHeld, WaitArming, DeadlineMatches, WaitTimed, Live
<1>0. None \notin Task /\ None \notin TimerReason
  BY ConstantsAssumption DEF ConstantsAssumption
<1>1. CASE Quiet
  <2>1. TimersKept /\ UNCHANGED <<holder, arming>>
    BY <1>1, QuietTicks, QuietKeepsLock DEF TimerInv
  <2> QED BY <2>1 DEF TimersKept, Ticking
<1>2. ASSUME NEW c \in Caller, Transits(c) PROVE DeadlineInv'
  <2>1. holder' # None
    <3>1. holder' = c
      BY <1>2, TransitsByTransition DEF Transition
    <3> QED BY <1>0, <3>1 DEF Task
  <2>2. WaitArming'
    BY <1>2, TransitsArms
  <2>3. arming' # None => state' = Due[arming']
    BY <1>2, TransitsArms DEF Due
  <2>4. arming' = None => \A k \in Timer : ~ Ticking(k)'
    <3>1. Release(c) => arming' # None
      BY <1>0 DEF Release, Transition, TimerReason
    <3> QED BY <1>2, <3>1, TransitsTicks
  <2> QED BY <2>1, <2>2, <2>3, <2>4
<1>3. ASSUME NEW k \in Timer, Timeout(k) PROVE DeadlineInv'
  <2>1. /\ holder' = k /\ state' = "timeout" /\ arming' = None
        /\ \A j \in Timer : ~ Ticking(j)'
    BY <1>3, FiringTimer DEF Timeout, Transition
  <2> QED BY <1>0, <2>1 DEF Task
<1>4. ASSUME NEW t \in Task, Finish(t) PROVE DeadlineInv'
  <2>1. holder' = None /\ arming' = None /\ state' = state /\ holder # None
    BY <1>4, HolderIsTask DEF Finish, machineVars, TimerInv
  <2>2. CASE /\ arming = None
             /\ UNCHANGED <<timeoutTask, reason>>
             /\ \A k \in Timer : Ticking(k)' <=> Ticking(k)
    BY <1>0, <2>1, <2>2 DEF TimerReason
  <2>3. CASE /\ arming # None
             /\ timeoutTask' \in Timer /\ reason'[timeoutTask'] = arming
             /\ \A k \in Timer : Ticking(k)' <=> k = timeoutTask'
    <3>1. Ticking(timeoutTask)'
      BY <2>3 DEF Ticking
    <3>2. WaitTimed'
      BY <2>1, <2>3, <3>1
    <3> QED BY <2>1, <2>3, <3>2
  <2> QED BY <1>4, <2>2, <2>3, FinishTicks
<1> QED BY <1>1, <1>2, <1>3, <1>4, StepCases

\* So it always holds.
LEMMA DeadlineCorrect ==
    ASSUME ~ MayFail
    PROVE  Spec => []DeadlineInv
<1>1. Init => DeadlineInv
  BY DEF Init, DeadlineInv, ArmingHeld, WaitArming, DeadlineMatches, WaitTimed,
         Ticking, Task
<1>2. TimerInv /\ DeadlineInv /\ [Next]_vars => DeadlineInv'
  BY DeadlineInvStep
<1> QED BY <1>1, <1>2, TimerCorrect, PTL DEF Spec

\* As long as callbacks return, no wait for the operator is without timeout.
THEOREM WaitsAreTimed ==
    ASSUME ~ MayFail
    PROVE  Spec => []WaitTimed
<1>1. DeadlineInv => WaitTimed
  BY DEF DeadlineInv
<1> QED BY <1>1, DeadlineCorrect, PTL

\* And the timeout that ends a transfer is the one for the state it is in.
THEOREM TimeoutsAreDue ==
    ASSUME ~ MayFail
    PROVE  Spec => TimeoutIsDue
<1>1. TimerInv /\ DeadlineInv /\ [Next]_vars
        => [\A k \in Timer : Timeout(k) => state = Due[reason[k]]]_vars
  <2> SUFFICES ASSUME TimerInv, DeadlineInv, NEW k \in Timer, Timeout(k)
               PROVE  state = Due[reason[k]]
    OBVIOUS
  <2>1. holder = None
    BY DEF Timeout, Admitted
  <2> QED BY <2>1, FiringTimer DEF DeadlineInv, ArmingHeld, DeadlineMatches
<1> QED BY <1>1, TimerCorrect, DeadlineCorrect, PTL DEF Spec, TimeoutIsDue

-----------------------------------------------------------------------------
(* GatedTransfer implements the safety of TransferLifecycle.                *)

\* A step of the machine is one of the lifecycle's operations, or a stutter.
LEMMA LifecycleStep ==
    ASSUME ~ MayFail, TimerInv, RecordInv, DeadlineInv, [Next]_vars
    PROVE  [Lifecycle!Next]_(Lifecycle!vars)
<1> USE DEF Lifecycle!vars, Lifecycle!Live, Live
<1>0. None \notin Task /\ None \notin TimerReason /\ None \notin Timer
  BY ConstantsAssumption DEF ConstantsAssumption, Task
<1>1. CASE Quiet
  <2>1. TimersKept /\ UNCHANGED <<holder, arming>>
    BY <1>1, QuietTicks, QuietKeepsLock DEF TimerInv
  <2>2. request' = request
    BY <1>1 DEF Quiet, Call, ReportProgress, Refuse, Return, Withdraw, Expire,
                Interrupt, Reenter, vars, machineVars
  <2>3. Deadline' = Deadline
    BY <2>1 DEF TimersKept, Deadline, Ticking, TimerInv, TypeOK, TaskTypeOK
  <2> QED BY <2>1, <2>2, <2>3 DEF TimersKept
<1>2. ASSUME NEW c \in Caller, Transits(c) PROVE Lifecycle!Next
  <2>1. arming' # None => Deadline' = arming'
    BY DEF Deadline
  <2>2. arming' = None => Deadline' = None
    <3>1. Release(c) => arming' # None
      BY <1>0 DEF Release, Transition, TimerReason
    <3>2. arming' = None => \A k \in Timer : ~ Ticking(k)'
      BY <1>2, <3>1, TransitsTicks
    <3>3. timeoutTask' \in Timer \cup {None}
      <4>1. timeoutTask' \in {timeoutTask, None}
        BY <1>2, TransitsByTransition DEF Transition
      <4> QED BY <4>1 DEF TimerInv, TypeOK, TaskTypeOK
    <3> QED BY <3>2, <3>3 DEF Deadline, Ticking
  <2>a. "operator_wait" # None /\ "operator_pause" # None /\ "max_duration" # None
    BY <1>0 DEF TimerReason
  <2>3. CASE Start(c)
    BY <2>1, <2>3, <2>a DEF Start, Transition, Lifecycle!Begin, Lifecycle!Next
  <2>4. CASE PressToStart(c)
    BY <2>1, <2>4, <2>a DEF PressToStart, Transition, Lifecycle!Engage,
                            Lifecycle!Move, Lifecycle!Next
  <2>5. CASE PressToResume(c)
    BY <2>2, <2>5 DEF PressToResume, Transition, Lifecycle!Resume,
                      Lifecycle!Move, Lifecycle!Next
  <2>6. CASE Release(c)
    BY <2>1, <2>6, <2>a DEF Release, Transition, Lifecycle!Pause,
                            Lifecycle!Move, Lifecycle!Next
  <2>7. CASE ReachTarget(c)
    BY <2>2, <2>7 DEF ReachTarget, RecordInv, Transition, Lifecycle!Complete,
                      Lifecycle!Next
  <2>8. CASE CompleteEarly(c)
    BY <2>2, <2>8 DEF CompleteEarly, Transition, Lifecycle!EndEarly,
                      Lifecycle!Move, Lifecycle!Next
  <2>9. CASE Error(c)
    BY <2>2, <2>9 DEF Error, Transition, Lifecycle!Fail, Lifecycle!Next
  <2>10. CASE Abort(c)
    BY <2>2, <2>10 DEF Abort, Transition, Lifecycle!Abort, Lifecycle!Move,
                       Lifecycle!Next
  <2>11. CASE Reset(c)
    BY <2>2, <2>11 DEF Reset, Transition, Lifecycle!Forget, Lifecycle!Next
  <2> QED
    BY <1>2, <2>3, <2>4, <2>5, <2>6, <2>7, <2>8, <2>9, <2>10, <2>11 DEF Transits
<1>3. ASSUME NEW k \in Timer, Timeout(k) PROVE Lifecycle!Next
  <2>1. /\ Ticking(k) /\ k = timeoutTask /\ state \in Live
        /\ \A j \in Timer : ~ Ticking(j)'
    BY <1>3, FiringTimer
  <2>2. arming = None
    BY <1>3 DEF Timeout, Admitted, DeadlineInv, ArmingHeld
  <2>3. Deadline # None
    BY <1>0, <2>1, <2>2 DEF Deadline, TimerInv, TypeOK, TaskTypeOK
  <2>4. /\ state' = "timeout" /\ arming' = None /\ request' = request
        /\ timeoutTask' = timeoutTask
    BY <1>3 DEF Timeout, Transition
  <2>5. Deadline' = None
    BY <2>1, <2>4 DEF Deadline, Ticking
  <2> QED BY <2>1, <2>3, <2>4, <2>5 DEF Lifecycle!Expire, Lifecycle!Move, Lifecycle!Next
<1>4. ASSUME NEW t \in Task, Finish(t) PROVE UNCHANGED Lifecycle!vars
  <2>1. arming' = None /\ state' = state /\ request' = request
    BY <1>4 DEF Finish, machineVars
  <2>2. CASE /\ arming = None
             /\ UNCHANGED <<timeoutTask, reason>>
             /\ \A k \in Timer : Ticking(k)' <=> Ticking(k)
    BY <2>1, <2>2 DEF Deadline, Ticking, TimerInv, TypeOK, TaskTypeOK
  <2>3. CASE /\ arming # None
             /\ timeoutTask' \in Timer /\ reason'[timeoutTask'] = arming
             /\ \A k \in Timer : Ticking(k)' <=> k = timeoutTask'
    <3>1. Ticking(timeoutTask)'
      BY <2>3 DEF Ticking
    <3>2. Deadline' = reason'[timeoutTask']
      BY <1>0, <2>1, <2>3, <3>1 DEF Deadline
    <3>3. Deadline = arming
      BY <2>3 DEF Deadline
    <3> QED BY <2>1, <2>3, <3>2, <3>3
  <2> QED BY <1>4, <2>2, <2>3, FinishTicks
<1> QED BY <1>1, <1>2, <1>3, <1>4, StepCases

\* Through lock, callbacks and timeout tasks, callers see an atomic lifecycle
\* with one deadline.
THEOREM LifecycleImplemented ==
    ASSUME ~ MayFail
    PROVE  Spec => Lifecycle!Spec
<1>1. Init => Lifecycle!Init
  BY DEF Init, Lifecycle!Init, Deadline
<1>2. TimerInv /\ RecordInv /\ DeadlineInv /\ [Next]_vars
        => [Lifecycle!Next]_(Lifecycle!vars)
  BY LifecycleStep
<1> QED
  BY <1>1, <1>2, TimerCorrect, RecordCorrect, DeadlineCorrect, PTL
     DEF Spec, Lifecycle!Spec

-----------------------------------------------------------------------------
(* First come, first served.                                                *)

\* a waits for the lock in front of b.
Before(q, a, b) == \E i, j \in 1..Len(q) : i < j /\ q[i] = a /\ q[j] = b

\* Whoever joins, joins behind those who wait.
LEMMA BeforeJoin ==
    ASSUME NEW S, NEW q \in Seq(S), NEW t \in S, NEW a
    PROVE  /\ \A b : Before(q, a, b) => Before(Append(q, t), a, b)
           /\ Contains(q, a) => Before(Append(q, t), a, t)
<1>1. /\ Len(q) \in Nat /\ Len(Append(q, t)) = Len(q) + 1
      /\ \A i \in 1..Len(q) : Append(q, t)[i] = q[i]
      /\ Append(q, t)[Len(q) + 1] = t
  BY AppendProperties, LenProperties, SMTT(30)
<1>2. ASSUME NEW b, Before(q, a, b) PROVE Before(Append(q, t), a, b)
  BY <1>1, <1>2, SMTT(30) DEF Before
<1>3. ASSUME Contains(q, a) PROVE Before(Append(q, t), a, t)
  <2>1. PICK i \in 1..Len(q) : q[i] = a
    BY <1>3 DEF Contains
  <2>2. i \in 1..Len(q)+1 /\ Len(q)+1 \in 1..Len(q)+1 /\ i < Len(q)+1
    BY <1>1
  <2> QED BY <1>1, <2>1, <2>2 DEF Before
<1> QED BY <1>2, <1>3

\* Serving the head keeps the others in order.
LEMMA BeforeServe ==
    ASSUME NEW S, NEW q \in Seq(S), q # <<>>, NEW a, NEW b, Before(q, a, b), Head(q) # a
    PROVE  Before(Tail(q), a, b)
<1>1. /\ Len(q) \in Nat /\ Len(q) >= 1
      /\ Head(q) = q[1]
      /\ Len(Tail(q)) = Len(q) - 1
      /\ \A i \in 1..Len(q)-1 : Tail(q)[i] = q[i+1]
  BY HeadTailProperties, EmptySeq, LenProperties, SMTT(30)
<1>2. PICK i \in 1..Len(q), j \in 1..Len(q) : i < j /\ q[i] = a /\ q[j] = b
  BY DEF Before
<1>3. i-1 \in 1..Len(q)-1 /\ j-1 \in 1..Len(q)-1 /\ i-1 < j-1 /\ (i-1)+1 = i /\ (j-1)+1 = j
  BY <1>1, <1>2
<1>4. Tail(q)[i-1] = a /\ Tail(q)[j-1] = b
  BY <1>1, <1>2, <1>3
<1> QED BY <1>1, <1>3, <1>4 DEF Before

\* Nor does taking a task out of it.
LEMMA BeforeLeave ==
    ASSUME NEW S, NEW q \in Seq(S), NEW t, NEW a, NEW b, Before(q, a, b), t # a, t # b
    PROVE  Before(Leave(q, t), a, b)
<1>1. CASE ~ Contains(q, t)
  BY <1>1, Zenon DEF Leave, Contains
<1>2. CASE Contains(q, t)
  <2> DEFINE n == CHOOSE i \in 1..Len(q) : q[i] = t
             r == RemoveAt(q, n)
             place(i) == IF i < n THEN i ELSE i - 1
  <2>1. n \in 1..Len(q) /\ q[n] = t
    BY <1>2, Zenon DEF Contains
  <2>2. Leave(q, t) = r
    BY <1>2, Zenon DEF Leave, Contains
  <2> HIDE DEF n
  <2>3. /\ Len(r) = Len(q) - 1
        /\ \A i \in 1..Len(q)-1 : r[i] = IF i < n THEN q[i] ELSE q[i+1]
    BY <2>1, RemoveAtElements, Zenon
  <2> HIDE DEF r
  <2>4. PICK i \in 1..Len(q), j \in 1..Len(q) : i < j /\ q[i] = a /\ q[j] = b
    BY DEF Before
  <2>5. Len(q) \in Nat /\ i # n /\ j # n
    BY <2>1, <2>4, LenProperties
  <2>6. ASSUME NEW k \in 1..Len(q), k # n
        PROVE  place(k) \in 1..Len(q)-1 /\ r[place(k)] = q[k]
    <3>1. CASE k < n
      <4>1. place(k) = k /\ k \in 1..Len(q)-1
        BY <2>1, <2>5, <3>1
      <4> QED BY <2>3, <3>1, <4>1
    <3>2. CASE k > n
      <4>1. place(k) = k-1 /\ k-1 \in 1..Len(q)-1 /\ ~ k-1 < n /\ (k-1)+1 = k
        BY <2>1, <2>5, <3>2
      <4> QED BY <2>3, <4>1
    <3> QED BY <2>1, <2>5, <2>6, <3>1, <3>2
  <2>7. place(i) < place(j)
    BY <2>1, <2>4, <2>5
  <2> HIDE DEF place
  <2>8. /\ place(i) \in 1..Len(r) /\ place(j) \in 1..Len(r) /\ place(i) < place(j)
        /\ r[place(i)] = a /\ r[place(j)] = b
    BY <2>3, <2>4, <2>5, <2>6, <2>7
  <2> QED BY <2>2, <2>8 DEF Before
<1> QED BY <1>1, <1>2

\* A task that waits behind another is not the next.
LEMMA BeforeNotHead ==
    ASSUME NEW S, NEW q \in Seq(S), Distinct(q), NEW a, NEW b, Before(q, a, b)
    PROVE  Head(q) # b
<1>1. PICK i \in 1..Len(q), j \in 1..Len(q) : i < j /\ q[i] = a /\ q[j] = b
  BY DEF Before
<1>2. Len(q) \in Nat /\ q # <<>>
  BY <1>1, LenProperties, EmptySeq
<1>3. Head(q) = q[1] /\ 1 \in 1..Len(q) /\ j # 1
  BY <1>1, <1>2, HeadTailProperties
<1> QED BY <1>1, <1>3 DEF Distinct

\* Two tasks that wait for the lock, and still wait after a step, are then in
\* the order they were in.
FirstComeFirstServed ==
    \A a, b \in Task :
        /\ Before(queue, a, b)
        /\ pc'[a] = "queued" /\ pc'[b] = "queued"
        => Before(queue', a, b)

LEMMA OrderKept ==
    ASSUME TypeOK, LockOK, [Next]_vars
    PROVE  FirstComeFirstServed
<1> SUFFICES ASSUME NEW a \in Task, NEW b \in Task, Before(queue, a, b),
                    pc'[a] = "queued", pc'[b] = "queued"
             PROVE  Before(queue', a, b)
  BY DEF FirstComeFirstServed
<1>0. /\ queue \in Seq(Task) /\ timeoutTask \in Timer \cup {None}
      /\ pc \in [Task -> {"idle", "sleeping", "queued", "callback", "stuck"}]
      /\ a # None /\ b # None
  BY ConstantsAssumption DEF TypeOK, TaskTypeOK, ConstantsAssumption
<1>1. ASSUME NEW t \in Task, queue' = Append(queue, t) PROVE Before(queue', a, b)
  BY <1>0, <1>1, BeforeJoin, Zenon
<1>2. ASSUME NEW t, queue' = Leave(queue, t), t # a, t # b PROVE Before(queue', a, b)
  BY <1>0, <1>2, BeforeLeave, Zenon
<1>3. ASSUME NEW t \in Task, Admitted(t), t # a PROVE Before(Tail(queue), a, b)
  BY <1>0, <1>3, BeforeServe, Zenon DEF Admitted
<1>4. ASSUME NEW t, Admitted(t), NEW s, NEW arm, NEW gone \in {timeoutTask, None},
             Transition(t, s, arm, gone)
      PROVE  Before(queue', a, b)
  <2>1. /\ queue' = Leave(Tail(queue), gone) /\ t # a /\ gone # a /\ gone # b
    BY <1>0, <1>4 DEF Transition
  <2>2. t \in Task /\ Tail(queue) \in Seq(Task)
    BY <1>4, AdmittedQueue, Zenon DEF TypeOK
  <2>3. Before(Tail(queue), a, b)
    BY <1>3, <1>4, <2>1, <2>2
  <2> QED BY <2>1, <2>2, <2>3, BeforeLeave, Zenon
<1>5. CASE Quiet
  <2>1. ASSUME NEW c \in Caller, NEW op \in Operation, Call(c, op) PROVE Before(queue', a, b)
    BY <1>1, <2>1 DEF Call, Task
  <2>2. ASSUME NEW c \in Caller, ReportProgress(c) \/ Refuse(c) PROVE Before(queue', a, b)
    <3>1. Admitted(c) /\ queue' = Tail(queue) /\ pc' = [pc EXCEPT ![c] = "idle"] /\ c \in Task
      BY <2>2 DEF ReportProgress, Refuse, Return, Runs, Task
    <3>2. c # a
      BY <1>0, <3>1
    <3> QED BY <1>3, <3>1, <3>2
  <2>3. ASSUME NEW c \in Caller, Withdraw(c) PROVE Before(queue', a, b)
    <3>1. queue' = Leave(queue, c) /\ pc' = [pc EXCEPT ![c] = "idle"] /\ c \in Task
      BY <2>3 DEF Withdraw, Task
    <3>2. c # a /\ c # b
      BY <1>0, <3>1
    <3> QED BY <1>2, <3>1, <3>2
  <2>4. ASSUME NEW k \in Timer, Expire(k) PROVE Before(queue', a, b)
    BY <1>1, <2>4 DEF Expire, Task
  <2>5. ASSUME UNCHANGED queue PROVE Before(queue', a, b)
    BY <2>5
  <2> QED BY <1>5, <2>1, <2>2, <2>3, <2>4, <2>5 DEF Quiet, Interrupt, Reenter, vars
<1>6. ASSUME NEW c \in Caller, Transits(c) PROVE Before(queue', a, b)
  BY <1>4, <1>6, TransitsByTransition
<1>7. ASSUME NEW k \in Timer, Timeout(k) PROVE Before(queue', a, b)
  BY <1>4, <1>7 DEF Timeout
<1>8. ASSUME NEW t \in Task, Finish(t) PROVE Before(queue', a, b)
  <2>1. CASE arming = None
    BY <1>8, <2>1 DEF Finish
  <2>2. CASE arming # None
    <3>1. PICK k \in Timer :
            /\ pc' = [u \in Task |-> CASE u = k -> "sleeping"
                                       [] u # k /\ u \in {t, timeoutTask} -> "idle"
                                       [] OTHER -> pc[u]]
            /\ queue' = Leave(queue, timeoutTask)
      BY <1>8, <2>2 DEF Finish
    <3>2. timeoutTask # a /\ timeoutTask # b
      BY <3>1
    <3> QED BY <1>2, <3>1, <3>2
  <2> QED BY <2>1, <2>2
<1> QED BY <1>5, <1>6, <1>7, <1>8, StepCases

\* The lock is first come, first served: whatever callers and callbacks do,
\* nobody overtakes a task that goes on waiting.
THEOREM LockIsFair == Spec => [][FirstComeFirstServed]_vars
<1>1. TimerInv /\ [Next]_vars => [FirstComeFirstServed]_vars
  BY OrderKept DEF TimerInv
<1> QED BY <1>1, TimerCorrect, PTL DEF Spec
=============================================================================
